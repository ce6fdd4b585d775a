------------------------ MODULE SelfImprovement_proofs ------------------------
(***************************************************************************)
(* The safety properties of the PR generator, for every set of candidates  *)
(* and any number of calls, failures, merges and edits of the base branch; *)
(* of the ledger, for all experiments, files and deaths; of a run of the   *)
(* evolutionary loop, for every size of population, number of generations, *)
(* ceilings, scores and costs; of the reviewer, for all reports, lineages  *)
(* and answers; of the registry, for all requests and wiring; and of the   *)
(* genomes, for any declared components and any population.                *)
(***************************************************************************)
EXTENDS EvolutionLoop, PRGenerator, Ledger, Reviewer, Registry, Genome, Totals_proofs, SequenceTheorems

-----------------------------------------------------------------------------
(***************************************************************************)
(* Nothing is undone after a failure.  What makes retries safe all the     *)
(* same is that a branch, once there, stays: it stands in the way of every *)
(* later call for its candidate, so that a call past its first step is the *)
(* first one to have got there.                                            *)
(***************************************************************************)

\* Where there is a pull request there is a branch, and a call that has
\* created its branch has not opened one yet.
BranchFirst ==
  /\ \A c \in Candidates : branches[c] = NoText => opened[c] = << >>
  /\ call.step \in {"write", "commit", "open"} => opened[call.candidate] = << >>

\* What is about to be committed, and then proposed, is the text the call was
\* given with its candidate's block in it.
OwnText ==
  /\ At("commit") => staged = Apply(call.given, call.candidate)
  /\ At("open") => branches[call.candidate] = Apply(call.given, call.candidate)

\* Nobody the reviewer refused is on a branch or under way.
AcceptedOnBranches ==
  /\ ~At("idle") => call.candidate \in Accepted
  /\ \A c \in Candidates :
       branches[c] # NoText => branches[c].retrieval \in Accepted \cup {"theirs"}

PRInv == PullRequestsSound /\ BranchFirst /\ OwnText /\ AcceptedOnBranches

\* No text on a branch is the absence of one, and patching a text yields one.
LEMMA TextsAreTexts ==
  /\ NoText \notin Texts
  /\ \A text \in Texts, c \in Candidates :
       Apply(text, c) \in Texts /\ Apply(text, c).retrieval = c
BY PRAssumption DEF NoText, Texts, Apply

\* Nothing is proposed at first.
LEMMA PRInitially == PRInit => PRInv
<1> SUFFICES ASSUME PRInit PROVE PRInv
  OBVIOUS
<1>1. /\ base \in Texts /\ base.retrieval = "theirs" /\ staged = base
  BY PRAssumption DEF PRInit, Texts
<1>2. call = Idle /\ At("idle") /\ checkedOut = "base" /\ calls = 0
  BY DEF PRInit, Idle, At
<1>3. /\ branches \in [Candidates -> Texts \cup {NoText}] /\ forked = branches
      /\ \A c \in Candidates : branches[c] = NoText
  BY DEF PRInit
<1>4. /\ opened \in [Candidates -> Seq([proposed : Texts, given : Texts])]
      /\ \A c \in Candidates : opened[c] = << >>
  BY DEF PRInit
<1>5. PRTypeOK
  BY <1>1, <1>2, <1>3, <1>4, PRAssumption DEF PRTypeOK, Idle
<1>6. PullRequestsSound
  BY <1>1, <1>4, <1>5 DEF PullRequestsSound, OnePRPerCandidate, ProposesItsConfig,
     LandsAcceptedOnly
<1> QED BY <1>2, <1>3, <1>4, <1>6 DEF PRInv, BranchFirst, OwnText, AcceptedOnBranches, At

\* A call starts for a candidate that was accepted, on a text that was on the
\* base branch.
LEMMA PRGenerate ==
  ASSUME PRInv, NEW c \in Candidates, NEW text \in Readings, Generate(c, text)
  PROVE  PRInv'
<1> USE DEF PRInv, PullRequestsSound
<1>1. text \in Texts
  BY PRAssumption DEF Readings, PRTypeOK, Texts
<1>2. /\ call' = [candidate |-> c, step |-> "branch", given |-> text]
      /\ calls' = calls + 1 /\ calls < MaxCalls /\ c \in Accepted
      /\ UNCHANGED <<base, branches, forked, checkedOut, staged, opened>>
  BY DEF Generate, Changes
<1>3. PRTypeOK'
  <2>1. /\ call' \in [candidate : Candidates, given : Texts,
                       step : {"branch", "write", "commit", "open", "label"}]
        /\ call'.step = "branch"
    BY <1>1, <1>2
  <2>2. calls' \in 0 .. MaxCalls
    BY <1>2, PRAssumption DEF PRTypeOK
  <2> QED BY <1>2, <2>1, <2>2 DEF PRTypeOK
<1>4. OnePRPerCandidate' /\ ProposesItsConfig' /\ LandsAcceptedOnly'
  BY <1>2 DEF OnePRPerCandidate, ProposesItsConfig, LandsAcceptedOnly
<1>5. BranchFirst' /\ OwnText' /\ AcceptedOnBranches'
  BY <1>2 DEF BranchFirst, OwnText, AcceptedOnBranches, At
<1> QED BY <1>3, <1>4, <1>5

\* A branch is created at the base branch, where there was none.
LEMMA PRCreateBranch == PRInv /\ CreateBranch => PRInv'
<1> SUFFICES ASSUME PRInv, CreateBranch PROVE PRInv'
  OBVIOUS
<1> USE DEF PRInv, PullRequestsSound
<1> DEFINE c == call.candidate
<1>1. /\ c \in Candidates /\ call.step = "branch" /\ call # Idle
      /\ call \in [candidate : Candidates, given : Texts,
                   step : {"branch", "write", "commit", "open", "label"}]
  BY DEF CreateBranch, At, PRTypeOK, Idle
<1>2. branches[c] = NoText /\ opened[c] = << >>
  BY <1>1 DEF CreateBranch, BranchFirst
<1>3. /\ branches' = [branches EXCEPT ![c] = base] /\ forked' = [forked EXCEPT ![c] = base]
      /\ checkedOut' = c /\ staged' \in {base, staged}
      /\ call' = [call EXCEPT !.step = "write"]
      /\ UNCHANGED <<base, opened, calls>>
  BY DEF CreateBranch, Switch, Proceed
<1>4. /\ call'.candidate = c /\ call'.step = "write"
      /\ call' \in [candidate : Candidates, given : Texts,
                    step : {"branch", "write", "commit", "open", "label"}]
  BY <1>1, <1>3
<1>5. base # NoText /\ c # "base" /\ base \in Texts
  BY <1>1, TextsAreTexts, PRAssumption DEF PRTypeOK
<1> HIDE DEF c
<1>6. PRTypeOK'
  <2>1. /\ {branches', forked'} \subseteq [Candidates -> Texts \cup {NoText}]
        /\ branches'[c] = base
    BY <1>1, <1>3, <1>5 DEF PRTypeOK
  <2>2. staged' \in Texts /\ checkedOut' \in Candidates \cup {"base"}
    BY <1>1, <1>3, <1>5 DEF PRTypeOK
  <2> QED BY <1>3, <1>4, <1>5, <2>1, <2>2 DEF PRTypeOK
<1>7. OnePRPerCandidate' /\ ProposesItsConfig' /\ LandsAcceptedOnly'
  BY <1>3 DEF OnePRPerCandidate, ProposesItsConfig, LandsAcceptedOnly
<1>8. BranchFirst'
  BY <1>1, <1>2, <1>3, <1>4, <1>5 DEF BranchFirst, PRTypeOK
<1>9. OwnText'
  BY <1>4 DEF OwnText, At
<1>10. AcceptedOnBranches'
  <2>1. c \in Accepted
    BY <1>1 DEF AcceptedOnBranches, At, c
  <2>2. \A d \in Candidates : branches'[d] = IF d = c THEN base ELSE branches[d]
    BY <1>1, <1>3 DEF PRTypeOK
  <2> QED BY <1>4, <2>1, <2>2 DEF AcceptedOnBranches, LandsAcceptedOnly, At
<1> QED BY <1>6, <1>7, <1>8, <1>9, <1>10

\* The file of the call is written whole, on the branch of its candidate.
LEMMA PRWriteFile == PRInv /\ WriteFile => PRInv'
<1> SUFFICES ASSUME PRInv, WriteFile PROVE PRInv'
  OBVIOUS
<1> USE DEF PRInv, PullRequestsSound
<1>1. /\ call.candidate \in Candidates /\ call.given \in Texts /\ call.step = "write"
      /\ call \in [candidate : Candidates, given : Texts,
                   step : {"branch", "write", "commit", "open", "label"}]
  BY DEF WriteFile, At, PRTypeOK, Idle
<1>2. /\ staged' = Apply(call.given, call.candidate)
      /\ call' = [call EXCEPT !.step = "commit"]
      /\ UNCHANGED <<base, branches, forked, checkedOut, opened, calls>>
  BY DEF WriteFile, Proceed
<1>3. /\ call'.candidate = call.candidate /\ call'.given = call.given /\ call'.step = "commit"
      /\ call' \in [candidate : Candidates, given : Texts,
                    step : {"branch", "write", "commit", "open", "label"}]
  BY <1>1, <1>2
<1>4. PRTypeOK'
  BY <1>1, <1>2, <1>3, TextsAreTexts DEF PRTypeOK
<1>5. OnePRPerCandidate' /\ ProposesItsConfig' /\ LandsAcceptedOnly'
  BY <1>2 DEF OnePRPerCandidate, ProposesItsConfig, LandsAcceptedOnly
<1>6. BranchFirst' /\ OwnText' /\ AcceptedOnBranches'
  BY <1>1, <1>2, <1>3 DEF BranchFirst, OwnText, AcceptedOnBranches, At, Apply
<1> QED BY <1>4, <1>5, <1>6

\* It is committed to that branch, which nobody else has checked out.
LEMMA PRCommit == PRInv /\ Commit => PRInv'
<1> SUFFICES ASSUME PRInv, Commit PROVE PRInv'
  OBVIOUS
<1> USE DEF PRInv, PullRequestsSound
<1> DEFINE c == call.candidate
<1>1. /\ c \in Candidates /\ call.given \in Texts /\ call.step = "commit"
      /\ checkedOut = c
      /\ call \in [candidate : Candidates, given : Texts,
                   step : {"branch", "write", "commit", "open", "label"}]
  BY DEF Commit, At, PRTypeOK, Idle
<1>2. /\ branches' = [branches EXCEPT ![c] = staged]
      /\ call' = [call EXCEPT !.step = "open"]
      /\ UNCHANGED <<base, forked, checkedOut, staged, opened, calls>>
  BY <1>1 DEF Commit, Proceed
<1>3. /\ call'.candidate = c /\ call'.given = call.given /\ call'.step = "open"
      /\ call' \in [candidate : Candidates, given : Texts,
                    step : {"branch", "write", "commit", "open", "label"}]
  BY <1>1, <1>2
<1>4. staged = Apply(call.given, c) /\ staged \in Texts /\ staged.retrieval = c
      /\ staged # NoText
  BY <1>1, TextsAreTexts DEF OwnText, At
<1>5. \A d \in Candidates : branches'[d] = IF d = c THEN staged ELSE branches[d]
  BY <1>1, <1>2 DEF PRTypeOK
<1>6. opened[c] = << >> /\ c \in Accepted
  BY <1>1 DEF BranchFirst, AcceptedOnBranches, At
<1> HIDE DEF c
<1>7. PRTypeOK'
  <2>1. branches' \in [Candidates -> Texts \cup {NoText}] /\ branches'[c] = staged
    BY <1>1, <1>2, <1>4 DEF PRTypeOK
  <2> QED BY <1>1, <1>2, <1>3, <1>4, <2>1 DEF PRTypeOK
<1>8. OnePRPerCandidate' /\ ProposesItsConfig' /\ LandsAcceptedOnly'
  BY <1>2 DEF OnePRPerCandidate, ProposesItsConfig, LandsAcceptedOnly
<1>9. BranchFirst'
  BY <1>2, <1>3, <1>5, <1>6 DEF BranchFirst
<1>10. OwnText'
  BY <1>1, <1>3, <1>4, <1>5 DEF OwnText, At, Apply
<1>11. AcceptedOnBranches'
  BY <1>3, <1>4, <1>5, <1>6 DEF AcceptedOnBranches, At
<1> QED BY <1>7, <1>8, <1>9, <1>10, <1>11

\* The first and only pull request of its candidate proposes what was committed.
LEMMA PROpen == PRInv /\ OpenPullRequest => PRInv'
<1> SUFFICES ASSUME PRInv, OpenPullRequest PROVE PRInv'
  OBVIOUS
<1> USE DEF PRInv, PullRequestsSound
<1> DEFINE c == call.candidate
           request == [proposed |-> branches[c], given |-> call.given]
<1>1. /\ c \in Candidates /\ call.given \in Texts /\ call.step = "open"
      /\ call \in [candidate : Candidates, given : Texts,
                   step : {"branch", "write", "commit", "open", "label"}]
  BY DEF OpenPullRequest, At, PRTypeOK, Idle
<1>2. /\ branches[c] = Apply(call.given, c) /\ branches[c] \in Texts
      /\ branches[c] # NoText
  BY <1>1, TextsAreTexts DEF OwnText, At
<1>3. opened[c] = << >>
  BY <1>1 DEF BranchFirst
<1>4. request \in [proposed : Texts, given : Texts]
  BY <1>1, <1>2
<1>5. request.proposed = Apply(request.given, c)
  BY <1>2
<1>6. /\ opened' = [opened EXCEPT ![c] = Append(@, request)]
      /\ call' = [call EXCEPT !.step = "label"]
      /\ UNCHANGED <<base, branches, forked, checkedOut, staged, calls>>
  BY DEF OpenPullRequest, Proceed
<1>7. /\ call'.candidate = c /\ call'.step = "label"
      /\ call' \in [candidate : Candidates, given : Texts,
                    step : {"branch", "write", "commit", "open", "label"}]
  BY <1>1, <1>6
<1> HIDE DEF request, c
<1>8. Append(opened[c], request) = <<request>>
  BY <1>3
<1>9. /\ opened' \in [Candidates -> Seq([proposed : Texts, given : Texts])]
      /\ \A d \in Candidates : opened'[d] = IF d = c THEN <<request>> ELSE opened[d]
  <2>1. <<request>> \in Seq([proposed : Texts, given : Texts])
    BY <1>4
  <2>2. opened \in [Candidates -> Seq([proposed : Texts, given : Texts])]
    BY DEF PRTypeOK
  <2>3. opened' = [opened EXCEPT ![c] = <<request>>]
    BY <1>6, <1>8
  <2> QED BY <1>1, <2>1, <2>2, <2>3
<1>10. PRTypeOK'
  <2>1. call'.step \in {"write", "commit", "open", "label"} => checkedOut' = call'.candidate
    BY <1>1, <1>6, <1>7 DEF PRTypeOK, c
  <2> QED BY <1>6, <1>7, <1>9, <2>1 DEF PRTypeOK
<1>11. OnePRPerCandidate'
  <2>1. \A d \in Candidates : d = c => opened'[d] = <<request>>
    BY <1>9
  <2>2. \A d \in Candidates : d = c => Len(opened'[d]) <= 1
    <3>1. Len(<<request>>) <= 1
      OBVIOUS
    <3> QED BY <2>1, <3>1, Zenon
  <2>3. \A d \in Candidates : d # c => Len(opened'[d]) <= 1
    BY <1>9 DEF OnePRPerCandidate
  <2> QED BY <2>2, <2>3 DEF OnePRPerCandidate
<1>12. ProposesItsConfig'
  <2> SUFFICES ASSUME NEW d \in Candidates, NEW i \in DOMAIN opened'[d]
               PROVE  opened'[d][i].proposed = Apply(opened'[d][i].given, d)
    BY DEF ProposesItsConfig, Apply
  <2>1. CASE d = c
    <3>1. opened'[d][i] = request
      BY <1>9, <2>1
    <3> QED BY <1>5, <2>1, <3>1
  <2>2. CASE d # c
    BY <1>9, <2>2 DEF ProposesItsConfig
  <2> QED BY <2>1, <2>2
<1>13. LandsAcceptedOnly' /\ OwnText'
  BY <1>6, <1>7 DEF LandsAcceptedOnly, OwnText, At
<1>14. BranchFirst' /\ AcceptedOnBranches'
  <2>1. c \in Accepted
    BY <1>1 DEF AcceptedOnBranches, At, c
  <2> QED BY <1>2, <1>6, <1>7, <1>9, <2>1 DEF BranchFirst, AcceptedOnBranches, At
<1> QED BY <1>10, <1>11, <1>12, <1>13, <1>14

\* The call ends, wherever it stood.
LEMMA PRReturn == PRInv /\ Return => PRInv'
<1> SUFFICES ASSUME PRInv, Return PROVE PRInv'
  OBVIOUS
<1> USE DEF PRInv, PullRequestsSound
<1>1. /\ call' = Idle /\ call'.step = "idle"
      /\ UNCHANGED <<base, branches, forked, checkedOut, staged, opened, calls>>
  BY DEF Return, Idle
<1>2. PRTypeOK'
  BY <1>1 DEF PRTypeOK, Idle
<1>3. OnePRPerCandidate' /\ ProposesItsConfig' /\ LandsAcceptedOnly'
  BY <1>1 DEF OnePRPerCandidate, ProposesItsConfig, LandsAcceptedOnly
<1>4. BranchFirst' /\ OwnText' /\ AcceptedOnBranches'
  BY <1>1 DEF BranchFirst, OwnText, AcceptedOnBranches, At
<1> QED BY <1>2, <1>3, <1>4

\* Somebody edits the base branch, which no call has checked out past its
\* first step.
LEMMA PREditBase == PRInv /\ EditBase => PRInv'
<1> SUFFICES ASSUME PRInv, EditBase PROVE PRInv'
  OBVIOUS
<1> USE DEF PRInv, PullRequestsSound
<1>1. base' \in Texts /\ base'.retrieval = base.retrieval
  <2>1. /\ base \in Texts /\ base.edits < MaxEdits
        /\ base' = [base EXCEPT !.edits = base.edits + 1]
    BY DEF EditBase, PRTypeOK
  <2>2. base.edits + 1 \in 0 .. MaxEdits
    BY <2>1, PRAssumption DEF Texts
  <2> QED BY <2>1, <2>2 DEF Texts
<1>2. /\ staged' = IF checkedOut = "base" THEN base' ELSE staged
      /\ UNCHANGED <<branches, forked, checkedOut, call, opened, calls>>
  BY DEF EditBase
<1>3. PRTypeOK'
  BY <1>1, <1>2 DEF PRTypeOK
<1>4. OnePRPerCandidate' /\ ProposesItsConfig' /\ LandsAcceptedOnly'
  BY <1>1, <1>2 DEF OnePRPerCandidate, ProposesItsConfig, LandsAcceptedOnly
<1>5. At("commit") => checkedOut # "base"
  BY PRAssumption DEF PRTypeOK, At, Idle
<1>6. BranchFirst' /\ OwnText' /\ AcceptedOnBranches'
  BY <1>2, <1>5 DEF BranchFirst, OwnText, AcceptedOnBranches, At, Apply
<1> QED BY <1>3, <1>4, <1>6

\* What a merge brings to the base branch is on a branch.
LEMMA PRMerge ==
  ASSUME PRInv, NEW c \in Candidates, Merge(c)
  PROVE  PRInv'
<1> USE DEF PRInv, PullRequestsSound
<1>1. branches[c] # NoText
  BY DEF Merge, BranchFirst
<1>2. branches[c] \in Texts /\ branches[c].retrieval \in Accepted \cup {"theirs"}
  BY <1>1 DEF PRTypeOK, AcceptedOnBranches
<1>3. base' \in Texts /\ base'.retrieval = branches[c].retrieval
  BY <1>2 DEF Merge, PRTypeOK, Texts
<1>4. UNCHANGED <<branches, forked, checkedOut, staged, call, opened, calls>>
  BY DEF Merge
<1>5. PRTypeOK'
  BY <1>3, <1>4 DEF PRTypeOK
<1>6. OnePRPerCandidate' /\ ProposesItsConfig' /\ LandsAcceptedOnly'
  BY <1>2, <1>3, <1>4 DEF OnePRPerCandidate, ProposesItsConfig, LandsAcceptedOnly
<1>7. BranchFirst' /\ OwnText' /\ AcceptedOnBranches'
  BY <1>4 DEF BranchFirst, OwnText, AcceptedOnBranches, At, Apply
<1> QED BY <1>5, <1>6, <1>7

\* PRInv is inductive.
THEOREM PullRequestInvariance == PRSpec => []PRInv
<1>1. PRInit => PRInv
  BY PRInitially
<1>2. PRInv /\ [PRNext]_prVars => PRInv'
  <2> SUFFICES ASSUME PRInv, [PRNext]_prVars PROVE PRInv'
    OBVIOUS
  <2>1. ASSUME NEW c \in Candidates, Merge(c) PROVE PRInv'
    BY <2>1, PRMerge
  <2>2. ASSUME NEW c \in Candidates, NEW text \in Readings, Generate(c, text) PROVE PRInv'
    BY <2>2, PRGenerate
  <2>3. CASE CreateBranch
    BY <2>3, PRCreateBranch
  <2>4. CASE WriteFile
    BY <2>4, PRWriteFile
  <2>5. CASE Commit
    BY <2>5, PRCommit
  <2>6. CASE OpenPullRequest
    BY <2>6, PROpen
  <2>7. CASE Return
    BY <2>7, PRReturn
  <2>8. CASE EditBase
    BY <2>8, PREditBase
  <2>9. CASE UNCHANGED prVars
    BY <2>9 DEF prVars, PRInv, PullRequestsSound, PRTypeOK, OnePRPerCandidate,
       ProposesItsConfig, LandsAcceptedOnly, BranchFirst, OwnText, AcceptedOnBranches, At, Apply
  <2> QED BY <2>1, <2>2, <2>3, <2>4, <2>5, <2>6, <2>7, <2>8, <2>9 DEF PRNext
<1> QED BY <1>1, <1>2, PTL DEF PRSpec

\* For every set of candidates and any failures, retries, merges and edits:
\* one pull request per candidate at most, proposing the text that was read
\* with that candidate's block, and nothing refused on the base branch.
THEOREM PullRequestsHold == PRSpec => []PullRequestsSound
<1>1. PRInv => PullRequestsSound
  BY DEF PRInv
<1> QED BY <1>1, PullRequestInvariance, PTL

-----------------------------------------------------------------------------
(***************************************************************************)
(* The ledger.  All lines of an experiment are in one file, so that the    *)
(* last one in the reader's order is the last one written.  A line that is *)
(* torn stays torn, or garbles what is written next: who can read at all   *)
(* has never lost a line.                                                  *)
(***************************************************************************)

\* Only the file of an experiment has lines on it.
OneFile(fs) ==
  \A f, g \in Files : \A i \in DOMAIN fs[f], j \in DOMAIN fs[g] :
    ~Garbled(fs[f][i]) /\ fs[f][i].record.id = fs[g][j].record.id => f = g

\* The line on e that counts.
LastOn(fs, e, f, i) ==
  /\ fs[f][i].record.id = e
  /\ \A g \in Files : \A j \in DOMAIN fs[g] : fs[g][j].record.id = e => g = f /\ j <= i

LEMMA RecordsAreRecords ==
  /\ NoRecord \notin Records /\ NoRecord.id = "none"
  /\ \A r \in Records : /\ r.id \in Experiments /\ r.id # "none" /\ r # NoRecord
                        /\ r.version \in 1 .. MaxVersion
BY LedgerAssumption DEF NoRecord, Records

\* A line is garbled or it holds a record on an experiment.
LEMMA LinesTell ==
  ASSUME NEW line \in Lines
  PROVE  /\ Garbled(line) <=> line.record.id \notin Experiments
         /\ ~Garbled(line) => line.record \in Records
<1>1. line.record \in Records \cup {NoRecord} /\ line.closed \in BOOLEAN
  BY DEF Lines
<1> QED BY <1>1, RecordsAreRecords, LedgerAssumption DEF Garbled

LEMMA PlacesAre ==
  ASSUME NEW fs
  PROVE  /\ \A f \in Files : \A i \in DOMAIN fs[f] :
              <<f, i>> \in Places(fs) /\ LineAt(fs, <<f, i>>) = fs[f][i]
         /\ \A p \in Places(fs) : \E f \in Files : \E i \in DOMAIN fs[f] : p = <<f, i>>
BY DEF Places, LineAt

\* What the reader makes of e is line i of file f.
Reads(fs, e, f, i) == e \in Known(fs) /\ ReadAll(fs)[e] = fs[f][i].record

\* The reader finds the line that counts.
LEMMA LastLineRead ==
  ASSUME NEW fs \in [Files -> Seq(Lines)], NEW e,
         NEW f \in Files, NEW i \in DOMAIN fs[f], LastOn(fs, e, f, i)
  PROVE  Reads(fs, e, f, i)
<1> DEFINE Latest(p) == p \in On(fs, e) /\ \A q \in On(fs, e) : NotBefore(p, q)
<1>1. \A p \in On(fs, e) : \E j \in DOMAIN fs[f] : p = <<f, j>> /\ j <= i
  BY PlacesAre DEF On, LastOn
<1>2. <<f, i>> \in Places(fs) /\ LineAt(fs, <<f, i>>) = fs[f][i] /\ <<f, i>> \in On(fs, e)
  BY PlacesAre DEF On, LastOn
<1>3. f \in Nat /\ \A j \in DOMAIN fs[f] : j \in Nat
  BY DEF Files
<1>4. Latest(<<f, i>>)
  BY <1>1, <1>2, <1>3 DEF NotBefore
<1>5. ASSUME NEW p, Latest(p) PROVE p = <<f, i>>
  <2>1. PICK j \in DOMAIN fs[f] : p = <<f, j>> /\ j <= i
    BY <1>1, <1>5
  <2>2. NotBefore(<<f, j>>, <<f, i>>)
    BY <1>2, <1>5, <2>1
  <2>3. j >= i
    BY <1>3, <2>2 DEF NotBefore
  <2> QED BY <1>3, <2>1, <2>3
<1>6. (CHOOSE p \in On(fs, e) : \A q \in On(fs, e) : NotBefore(p, q)) = <<f, i>>
  BY <1>4, <1>5, Zenon
<1>7. e \in Known(fs)
  BY <1>2 DEF Known, On
<1> QED BY <1>2, <1>6, <1>7 DEF ReadAll, Reads

\* Of an experiment on file some line counts.
LEMMA KnownHasLast ==
  ASSUME NEW fs \in [Files -> Seq(Lines)], OneFile(fs), NEW e \in Experiments, e \in Known(fs)
  PROVE  \E f \in Files : \E i \in DOMAIN fs[f] : LastOn(fs, e, f, i)
<1>1. PICK p \in Places(fs) : LineAt(fs, p).record.id = e
  BY DEF Known
<1>2. PICK f \in Files : \E i \in DOMAIN fs[f] : p = <<f, i>>
  BY PlacesAre
<1>3. PICK i \in DOMAIN fs[f] : p = <<f, i>>
  BY <1>2
<1>4. fs[f][i].record.id = e
  BY <1>1, <1>3, PlacesAre
<1> DEFINE its == {j \in DOMAIN fs[f] : fs[f][j].record.id = e}
<1>5. Len(fs[f]) \in Nat /\ DOMAIN fs[f] = 1 .. Len(fs[f])
  OBVIOUS
<1>6. IsFiniteSet(its)
  <2>1. IsFiniteSet(1 .. Len(fs[f]))
    BY <1>5, FS_Interval
  <2> QED BY <1>5, <2>1, FS_Subset
<1>7. its \in SUBSET Int /\ its # {}
  BY <1>4, <1>5
<1>8. Max(its) \in its /\ \A j \in its : j <= Max(its)
  BY <1>6, <1>7, FiniteMax
<1>9. fs[f][i] \in Lines /\ ~Garbled(fs[f][i])
  BY <1>4, LinesTell
<1>10. \A g \in Files : \A j \in DOMAIN fs[g] : fs[g][j].record.id = e => g = f
  BY <1>4, <1>9 DEF OneFile
<1>11. LastOn(fs, e, f, Max(its))
  BY <1>8, <1>10 DEF LastOn
<1> QED BY <1>8, <1>11

\* What the reader says of an experiment.
LEMMA VersionRead ==
  ASSUME NEW fs \in [Files -> Seq(Lines)], OneFile(fs), NEW e \in Experiments
  PROVE  /\ VersionOf(fs, e) \in 0 .. MaxVersion
         /\ e \notin Known(fs) => VersionOf(fs, e) = 0
         /\ e \in Known(fs) => /\ ReadAll(fs)[e] \in Records /\ ReadAll(fs)[e].id = e
                               /\ VersionOf(fs, e) = ReadAll(fs)[e].version
<1>1. MaxVersion \in Nat
  BY LedgerAssumption
<1>2. CASE e \in Known(fs)
  <2>1. PICK f \in Files : \E i \in DOMAIN fs[f] : LastOn(fs, e, f, i)
    BY <1>2, KnownHasLast
  <2>2. PICK i \in DOMAIN fs[f] : LastOn(fs, e, f, i)
    BY <2>1
  <2>7. Reads(fs, e, f, i)
    BY <2>2, LastLineRead
  <2>3. ReadAll(fs)[e] = fs[f][i].record
    BY <2>7 DEF Reads
  <2>6. fs[f][i].record.id = e /\ fs[f][i] \in Lines
    BY <2>2 DEF LastOn
  <2>4. ReadAll(fs)[e] \in Records
    BY <2>3, <2>6, LinesTell, RecordsAreRecords
  <2>5. VersionOf(fs, e) = ReadAll(fs)[e].version /\ ReadAll(fs)[e].version \in 1 .. MaxVersion
    BY <1>2, <2>4, RecordsAreRecords DEF VersionOf
  <2> QED BY <1>1, <1>2, <2>3, <2>4, <2>5, <2>6
<1>3. CASE e \notin Known(fs)
  BY <1>1, <1>3 DEF VersionOf
<1> QED BY <1>2, <1>3

\* Between two readings just one experiment has changed, to what the line says.
ReadsOneMore(fs, ws, line) ==
  /\ VersionOf(ws, line.record.id) = line.record.version
  /\ \A e \in Experiments : e # line.record.id => VersionOf(ws, e) = VersionOf(fs, e)

\* One line more is the one that counts for its experiment, and for no other.
LEMMA AppendedLineCounts ==
  ASSUME NEW fs \in [Files -> Seq(Lines)], OneFile(fs), NEW f \in Files, NEW line \in Lines,
         NEW ws \in [Files -> Seq(Lines)], OneFile(ws), ~Garbled(line),
         ws = [fs EXCEPT ![f] = Append(fs[f], line)]
  PROVE  ReadsOneMore(fs, ws, line)
<1> DEFINE n == Len(fs[f])
           id == line.record.id
<1>1. /\ n \in Nat /\ Len(ws[f]) = n + 1 /\ DOMAIN ws[f] = 1 .. n + 1 /\ DOMAIN fs[f] = 1 .. n
      /\ ws[f][n + 1] = line /\ \A i \in 1 .. n : ws[f][i] = fs[f][i]
      /\ \A g \in Files : g # f => ws[g] = fs[g]
  OBVIOUS
<1>2. id \in Experiments
  BY LinesTell
<1> HIDE DEF n, id
<1>3. LastOn(ws, id, f, n + 1)
  <2>1. n + 1 \in DOMAIN ws[f] /\ ws[f][n + 1].record.id = id /\ ~Garbled(ws[f][n + 1])
    BY <1>1 DEF id
  <2>2. ASSUME NEW g \in Files, NEW j \in DOMAIN ws[g], ws[g][j].record.id = id
        PROVE  g = f /\ j <= n + 1
    <3>1. f = g
      BY <2>1, <2>2 DEF OneFile
    <3> QED BY <1>1, <3>1
  <2> QED BY <2>1, <2>2 DEF LastOn
<1>4. VersionOf(ws, id) = line.record.version
  <2>1. n + 1 \in DOMAIN ws[f]
    BY <1>1
  <2>2. id \in Known(ws) /\ ReadAll(ws)[id] = line.record
    <3>1. Reads(ws, id, f, n + 1)
      BY <1>3, <2>1, LastLineRead
    <3> QED BY <1>1, <3>1 DEF Reads
  <2> QED BY <2>2 DEF VersionOf
<1>5. \A g \in Files : \A i \in DOMAIN fs[g] : i \in DOMAIN ws[g] /\ ws[g][i] = fs[g][i]
  <2> SUFFICES ASSUME NEW g \in Files, NEW i \in DOMAIN fs[g]
               PROVE  i \in DOMAIN ws[g] /\ ws[g][i] = fs[g][i]
    OBVIOUS
  <2>1. CASE g = f
    BY <1>1, <2>1
  <2>2. CASE g # f
    BY <1>1, <2>2
  <2> QED BY <2>1, <2>2
<1>6. \A g \in Files : \A i \in DOMAIN ws[g] :
        \/ i \in DOMAIN fs[g] /\ ws[g][i] = fs[g][i]
        \/ ws[g][i] = line
  <2> SUFFICES ASSUME NEW g \in Files, NEW i \in DOMAIN ws[g]
               PROVE  (i \in DOMAIN fs[g] /\ ws[g][i] = fs[g][i]) \/ ws[g][i] = line
    OBVIOUS
  <2>1. CASE g = f
    <3>1. i \in 1 .. n \/ i = n + 1
      BY <1>1, <2>1
    <3> QED BY <1>1, <2>1, <3>1
  <2>2. CASE g # f
    BY <1>1, <2>2
  <2> QED BY <2>1, <2>2
<1>7. ASSUME NEW e \in Experiments, e # id PROVE VersionOf(ws, e) = VersionOf(fs, e)
  <2>1. CASE e \in Known(fs)
    <3>1. PICK g \in Files : \E i \in DOMAIN fs[g] : LastOn(fs, e, g, i)
      BY <2>1, KnownHasLast
    <3>2. PICK i \in DOMAIN fs[g] : LastOn(fs, e, g, i)
      BY <3>1
    <3>3. i \in DOMAIN ws[g] /\ ws[g][i] = fs[g][i]
      BY <1>5
    <3>4. LastOn(ws, e, g, i)
      BY <1>6, <1>7, <3>2, <3>3 DEF LastOn, id
    <3>5. Reads(fs, e, g, i)
      BY <3>2, LastLineRead
    <3>6. Reads(ws, e, g, i)
      BY <3>3, <3>4, LastLineRead
    <3> QED BY <2>1, <3>3, <3>5, <3>6 DEF VersionOf, Reads
  <2>2. CASE e \notin Known(fs)
    <3>1. ASSUME e \in Known(ws) PROVE FALSE
      <4>1. PICK g \in Files : \E i \in DOMAIN ws[g] : LastOn(ws, e, g, i)
        BY <3>1, KnownHasLast
      <4>2. PICK i \in DOMAIN ws[g] : LastOn(ws, e, g, i)
        BY <4>1
      <4>3. ws[g][i].record.id = e
        BY <4>2 DEF LastOn
      <4>4. i \in DOMAIN fs[g] /\ fs[g][i].record.id = e
        BY <1>6, <1>7, <4>3 DEF id
      <4>5. LineAt(fs, <<g, i>>).record.id = e /\ <<g, i>> \in Places(fs)
        BY <4>4, PlacesAre
      <4> QED BY <2>2, <4>5 DEF Known
    <3> QED BY <2>2, <3>1 DEF VersionOf
  <2> QED BY <2>1, <2>2
<1> QED BY <1>4, <1>7 DEF id, ReadsOneMore

\* All but the last line of a file have their newline.
ClosedInside(fs) ==
  \A f \in Files : \A i \in DOMAIN fs[f] : i # Len(fs[f]) => fs[f][i].closed

\* A write keeps the files in order, and who can read after it has been able to
\* before, and finds one line more.
LEMMA WrittenInOrder ==
  ASSUME files \in [Files -> Seq(Lines)], OneFile(files), ClosedInside(files),
         NEW f \in Files, NEW line \in Lines,
         \/ Garbled(line)
         \/ \A g \in Files : \A j \in DOMAIN files[g] :
              files[g][j].record.id = line.record.id => g = f
  PROVE  /\ Written(f, line) \in [Files -> Seq(Lines)]
         /\ OneFile(Written(f, line)) /\ ClosedInside(Written(f, line))
         /\ Readable(Written(f, line)) =>
              /\ Readable(files) /\ ~Garbled(line)
              /\ Written(f, line) = [files EXCEPT ![f] = Append(files[f], line)]
<1> DEFINE ws == Written(f, line)
           n == Len(files[f])
           torn == Line(NoRecord, line.closed)
<1>1. /\ files[f] \in Seq(Lines) /\ n \in Nat /\ DOMAIN files[f] = 1 .. n
      /\ \A g \in Files : files[g] \in Seq(Lines)
  OBVIOUS
<1>2. torn \in Lines /\ Garbled(torn)
  BY DEF Lines, Line, Garbled
<1> HIDE DEF torn
<1>3. CASE files[f] # << >> /\ ~files[f][n].closed
  <2>1. ws = [files EXCEPT ![f] = [files[f] EXCEPT ![n] = torn]]
    BY <1>1, <1>3 DEF Written, torn
  <2>2. n \in DOMAIN files[f]
    BY <1>1, <1>3
  <2>3. /\ [files[f] EXCEPT ![n] = torn] \in Seq(Lines)
        /\ DOMAIN [files[f] EXCEPT ![n] = torn] = 1 .. n
        /\ Len([files[f] EXCEPT ![n] = torn]) = n
    <3>1. files[f] \in [1 .. n -> Lines]
      BY <1>1
    <3>2. [files[f] EXCEPT ![n] = torn] \in [1 .. n -> Lines]
      BY <1>2, <3>1
    <3> QED BY <1>1, <3>2
  <2>4. ws \in [Files -> Seq(Lines)]
    BY <2>1, <2>3
  <2>5. /\ \A g \in Files : DOMAIN ws[g] = DOMAIN files[g] /\ Len(ws[g]) = Len(files[g])
        /\ ws[f][n] = torn
        /\ \A g \in Files : \A i \in DOMAIN ws[g] : (g = f /\ i = n) \/ ws[g][i] = files[g][i]
    <3>1. DOMAIN ws[f] = DOMAIN files[f] /\ Len(ws[f]) = n /\ ws[f][n] = torn
      BY <1>1, <2>1, <2>2, <2>3
    <3>2. \A g \in Files : g # f => ws[g] = files[g]
      BY <2>1
    <3>3. \A i \in DOMAIN ws[f] : i = n \/ ws[f][i] = files[f][i]
      BY <1>1, <2>1, <2>3
    <3> QED BY <3>1, <3>2, <3>3
  <2> HIDE DEF ws
  <2>6. ~Readable(ws)
    BY <1>2, <2>2, <2>5 DEF Readable
  <2>7. ClosedInside(ws)
    BY <2>5 DEF ClosedInside
  <2>8. OneFile(ws)
    <3> SUFFICES ASSUME NEW g \in Files, NEW h \in Files,
                        NEW i \in DOMAIN ws[g], NEW j \in DOMAIN ws[h],
                        ~Garbled(ws[g][i]), ws[g][i].record.id = ws[h][j].record.id
                 PROVE  g = h
      BY DEF OneFile
    <3>1. ws[g][i] \in Lines /\ ws[h][j] \in Lines
      BY <2>4
    <3>2. ~Garbled(ws[h][j])
      BY <3>1, LinesTell
    <3>3. ws[g][i] = files[g][i] /\ ws[h][j] = files[h][j]
      BY <1>2, <2>5, <3>2
    <3> QED BY <2>5, <3>3 DEF OneFile
  <2> QED BY <2>4, <2>6, <2>7, <2>8 DEF ws
<1>4. CASE ~(files[f] # << >> /\ ~files[f][n].closed)
  <2>1. ws = [files EXCEPT ![f] = Append(files[f], line)]
    BY <1>4 DEF Written
  <2>2. /\ Append(files[f], line) \in Seq(Lines) /\ Len(Append(files[f], line)) = n + 1
        /\ DOMAIN Append(files[f], line) = 1 .. n + 1
        /\ Append(files[f], line)[n + 1] = line
        /\ \A i \in 1 .. n : Append(files[f], line)[i] = files[f][i]
    BY <1>1
  <2>3. ws \in [Files -> Seq(Lines)]
    BY <2>1, <2>2
  <2>4. /\ \A g \in Files : g # f => ws[g] = files[g]
        /\ DOMAIN ws[f] = 1 .. n + 1 /\ Len(ws[f]) = n + 1 /\ ws[f][n + 1] = line
        /\ \A i \in 1 .. n : ws[f][i] = files[f][i]
    BY <2>1, <2>2
  <2> HIDE DEF ws
  <2>5. \A g \in Files : \A i \in DOMAIN ws[g] :
          \/ i \in DOMAIN files[g] /\ ws[g][i] = files[g][i]
          \/ g = f /\ ws[g][i] = line
    <3> SUFFICES ASSUME NEW g \in Files, NEW i \in DOMAIN ws[g]
                 PROVE  (i \in DOMAIN files[g] /\ ws[g][i] = files[g][i]) \/ (g = f /\ ws[g][i] = line)
      OBVIOUS
    <3>1. CASE g = f
      <4>1. i \in 1 .. n \/ i = n + 1
        BY <1>1, <2>4, <3>1
      <4> QED BY <1>1, <2>4, <3>1, <4>1
    <3>2. CASE g # f
      BY <2>4, <3>2
    <3> QED BY <3>1, <3>2
  <2>6. \A g \in Files : \A i \in DOMAIN files[g] : i \in DOMAIN ws[g] /\ ws[g][i] = files[g][i]
    <3> SUFFICES ASSUME NEW g \in Files, NEW i \in DOMAIN files[g]
                 PROVE  i \in DOMAIN ws[g] /\ ws[g][i] = files[g][i]
      OBVIOUS
    <3>1. CASE g = f
      BY <1>1, <2>4, <3>1
    <3>2. CASE g # f
      BY <2>4, <3>2
    <3> QED BY <3>1, <3>2
  <2>7. OneFile(ws)
    <3> SUFFICES ASSUME NEW g \in Files, NEW h \in Files,
                        NEW i \in DOMAIN ws[g], NEW j \in DOMAIN ws[h],
                        ~Garbled(ws[g][i]), ws[g][i].record.id = ws[h][j].record.id
                 PROVE  g = h
      BY DEF OneFile
    <3>1. ws[g][i] \in Lines /\ ws[h][j] \in Lines
      BY <2>3
    <3>2. ~Garbled(ws[h][j])
      BY <3>1, LinesTell
    <3>3. CASE g = f /\ ws[g][i] = line
      BY <2>5, <3>2, <3>3
    <3>4. CASE h = f /\ ws[h][j] = line
      BY <2>5, <3>2, <3>4
    <3>5. CASE /\ i \in DOMAIN files[g] /\ ws[g][i] = files[g][i]
               /\ j \in DOMAIN files[h] /\ ws[h][j] = files[h][j]
      BY <3>5 DEF OneFile
    <3> QED BY <2>5, <3>3, <3>4, <3>5
  <2>8. ClosedInside(ws)
    <3> SUFFICES ASSUME NEW g \in Files, NEW i \in DOMAIN ws[g], i # Len(ws[g])
                 PROVE  ws[g][i].closed
      BY DEF ClosedInside
    <3>1. CASE g = f
      <4>1. i \in 1 .. n
        BY <1>1, <2>4, <3>1
      <4>2. ws[g][i] = files[f][i] /\ files[f] # << >>
        BY <1>1, <2>4, <3>1, <4>1
      <4>3. i = n => files[f][i].closed
        BY <1>4, <4>2
      <4>4. i # n => files[f][i].closed
        BY <1>1, <4>1 DEF ClosedInside
      <4> QED BY <4>2, <4>3, <4>4
    <3>2. CASE g # f
      BY <2>4, <3>2 DEF ClosedInside
    <3> QED BY <3>1, <3>2
  <2>9. ASSUME Readable(ws) PROVE Readable(files) /\ ~Garbled(line)
    <3>1. ~Garbled(line)
      <4>1. n + 1 \in DOMAIN ws[f]
        BY <1>1, <2>4
      <4> QED BY <2>4, <2>9, <4>1 DEF Readable
    <3>2. Readable(files)
      BY <2>6, <2>9 DEF Readable
    <3> QED BY <3>1, <3>2
  <2> QED BY <2>1, <2>3, <2>7, <2>8, <2>9 DEF ws
<1> QED BY <1>3, <1>4

-----------------------------------------------------------------------------
\* What a write takes: the line that is due to its experiment there, and no more
\* said to have been written than what is in it.

LedgerInv == LedgerTypeOK /\ WritesKept

Due(f, line) ==
  \/ Garbled(line)
  \/ /\ line.record.version >= VersionOf(files, line.record.id)
     /\ \A g \in Files : \A j \in DOMAIN files[g] :
          files[g][j].record.id = line.record.id => g = f

LEMMA LedgerTypes ==
  LedgerTypeOK <=>
    /\ files \in [Files -> Seq(Lines)] /\ OneFile(files) /\ ClosedInside(files)
    /\ writing \in BOOLEAN /\ DOMAIN mine \subseteq Experiments
    /\ \A e \in DOMAIN mine : mine[e] \in Files
    /\ acked \in [Experiments -> 0 .. MaxVersion]
    /\ glimpsed \in [Experiments -> 0 .. MaxVersion]
    /\ deaths \in 0 .. MaxDeaths
BY DEF LedgerTypeOK, OneFile, ClosedInside

LEMMA WriteKeeps ==
  ASSUME LedgerInv, NEW f \in Files, NEW line \in Lines, Due(f, line),
         files' = Written(f, line), Glimpse,
         acked' \in [Experiments -> 0 .. MaxVersion],
         \A e \in Experiments :
           \/ acked'[e] = acked[e]
           \/ ~Garbled(line) /\ e = line.record.id /\ acked'[e] <= line.record.version
  PROVE  /\ files' \in [Files -> Seq(Lines)] /\ OneFile(files') /\ ClosedInside(files')
         /\ glimpsed' \in [Experiments -> 0 .. MaxVersion]
         /\ WritesKept'
<1>1. /\ files \in [Files -> Seq(Lines)] /\ OneFile(files) /\ ClosedInside(files)
      /\ acked \in [Experiments -> 0 .. MaxVersion]
      /\ glimpsed \in [Experiments -> 0 .. MaxVersion] /\ WritesKept /\ MaxVersion \in Nat
  BY LedgerTypes, LedgerAssumption DEF LedgerInv
<1>2. /\ files' \in [Files -> Seq(Lines)] /\ OneFile(files') /\ ClosedInside(files')
      /\ Readable(files') => /\ Readable(files) /\ ~Garbled(line)
                             /\ files' = [files EXCEPT ![f] = Append(files[f], line)]
  BY <1>1, WrittenInOrder DEF Due
<1>3. CASE ~Readable(files')
  <2>1. glimpsed' = glimpsed
    BY <1>3 DEF Glimpse
  <2> QED BY <1>1, <1>2, <1>3, <2>1 DEF WritesKept
<1>4. CASE Readable(files')
  <2> DEFINE old == [e \in Experiments |-> VersionOf(files, e)]
             new == [e \in Experiments |-> VersionOf(files', e)]
  <2>1. /\ Readable(files) /\ ~Garbled(line)
        /\ files' = [files EXCEPT ![f] = Append(files[f], line)]
    BY <1>2, <1>4
  <2>2. line.record.id \in Experiments /\ line.record \in Records
    BY <2>1, LinesTell
  <2>3. \A e \in Experiments : old[e] \in 0 .. MaxVersion /\ new[e] \in 0 .. MaxVersion
    BY <1>1, <1>2, VersionRead
  <2>4. /\ new[line.record.id] = line.record.version
        /\ \A e \in Experiments : e # line.record.id => new[e] = old[e]
    <3>1. ReadsOneMore(files, files', line)
      BY <1>1, <1>2, <2>1, AppendedLineCounts
    <3> QED BY <2>2, <3>1 DEF ReadsOneMore
  <2>5. line.record.version >= old[line.record.id]
    BY <2>1, <2>2 DEF Due
  <2>6. \A e \in Experiments : old[e] >= acked[e] /\ old[e] >= glimpsed[e]
    BY <1>1, <2>1 DEF WritesKept
  <2>7. glimpsed' = [e \in Experiments |-> Max({glimpsed[e], new[e]})]
    BY <1>4 DEF Glimpse
  <2>8. ASSUME NEW e \in Experiments
        PROVE  /\ new[e] >= acked'[e] /\ new[e] >= glimpsed[e]
               /\ glimpsed'[e] = new[e] /\ new[e] \in 0 .. MaxVersion
    <3> HIDE DEF old, new
    <3>1. old[e] \in Int /\ new[e] \in Int /\ glimpsed[e] \in Int /\ acked[e] \in Int /\ acked'[e] \in Int
      BY <1>1, <2>3
    <3>2. new[e] >= old[e]
      BY <2>4, <2>5, <3>1
    <3>3. new[e] >= glimpsed[e]
      BY <2>6, <3>1, <3>2
    <3>4. glimpsed'[e] = new[e]
      <4>1. Max({glimpsed[e], new[e]}) = new[e]
        BY <3>1, <3>3, MaxOfTwo
      <4> QED BY <2>7, <4>1
    <3>5. new[e] >= acked'[e]
      BY <2>4, <2>6, <3>1, <3>2
    <3> QED BY <2>3, <3>3, <3>4, <3>5
  <2>9. glimpsed' \in [Experiments -> 0 .. MaxVersion]
    <3> HIDE DEF new
    <3>1. \A e \in Experiments : Max({glimpsed[e], new[e]}) \in 0 .. MaxVersion
      BY <2>7, <2>8
    <3> QED BY <2>7, <3>1
  <2>10. WritesKept'
    <3>1. ASSUME NEW e \in Experiments
          PROVE  VersionOf(files', e) >= acked'[e] /\ VersionOf(files', e) >= glimpsed'[e]
      <4>1. new[e] = VersionOf(files', e)
        OBVIOUS
      <4> HIDE DEF new
      <4>2. new[e] \in Int /\ new[e] >= acked'[e] /\ glimpsed'[e] = new[e]
        BY <1>1, <2>8
      <4> QED BY <4>1, <4>2
    <3> QED BY <3>1 DEF WritesKept
  <2> QED BY <1>2, <2>9, <2>10
<1> QED BY <1>3, <1>4

\* A new experiment is not on file, and who has appended none is not waited for.
LEMMA NewIsDue ==
  ASSUME LedgerInv, NEW g \in Files, NEW record \in NewRecords(g), NEW closed \in BOOLEAN
  PROVE  /\ record \in Records /\ record.id \in Experiments /\ record.version = 1
         /\ Line(record, closed) \in Lines /\ ~Garbled(Line(record, closed))
         /\ Line(record, closed).record = record
         /\ Due(g, Line(record, closed))
<1> DEFINE used == DOMAIN mine \cup Known(files)
<1>1. PICK e \in {x \in Experiments : acked[x] = 0} \ used,
           ps \in SeqOf({x \in DOMAIN mine : mine[x] < g}, 2) :
             record = [id |-> e, parents |-> ps, version |-> 1]
  BY DEF NewRecords
<1>2. DOMAIN mine \subseteq Experiments /\ files \in [Files -> Seq(Lines)] /\ OneFile(files)
  BY LedgerTypes DEF LedgerInv
<1>3. ps \in Seq(Experiments)
  <2>1. PICK m \in 0 .. 2 : ps \in [1 .. m -> {x \in DOMAIN mine : mine[x] < g}]
    BY DEF SeqOf
  <2>2. ps \in [1 .. m -> Experiments]
    BY <1>2, <2>1
  <2> QED BY <2>2
<1>4. record \in Records
  BY <1>1, <1>3, LedgerAssumption DEF Records
<1>5. Line(record, closed) \in Lines /\ Line(record, closed).record = record
  BY <1>4 DEF Lines, Line
<1>6. ~Garbled(Line(record, closed))
  BY <1>4, <1>5, RecordsAreRecords DEF Garbled
<1>7. e \notin Known(files) /\ record.id = e /\ record.version = 1 /\ e \in Experiments
  BY <1>1
<1>8. \A h \in Files : \A j \in DOMAIN files[h] : files[h][j].record.id # e
  <2>1. \A h \in Files : \A j \in DOMAIN files[h] : files[h][j].record.id \in Known(files)
    <3> SUFFICES ASSUME NEW h \in Files, NEW j \in DOMAIN files[h]
                 PROVE  files[h][j].record.id \in Known(files)
      OBVIOUS
    <3>1. <<h, j>> \in Places(files) /\ LineAt(files, <<h, j>>) = files[h][j]
      BY PlacesAre
    <3> QED BY <3>1 DEF Known
  <2> QED BY <1>7, <2>1
<1>9. VersionOf(files, e) = 0
  BY <1>2, <1>7, VersionRead
<1> QED BY <1>4, <1>5, <1>6, <1>7, <1>8, <1>9 DEF Due

\* The next version of an experiment goes to the file it is in.
LEMMA NextIsDue ==
  ASSUME LedgerInv, NEW e \in Experiments, Updatable(e), NEW closed \in BOOLEAN
  PROVE  /\ FileOf(e) \in Files /\ NextVersion(e) \in Records /\ NextVersion(e).id = e
         /\ NextVersion(e).version \in 0 .. MaxVersion
         /\ Line(NextVersion(e), closed) \in Lines /\ ~Garbled(Line(NextVersion(e), closed))
         /\ Line(NextVersion(e), closed).record = NextVersion(e)
         /\ Due(FileOf(e), Line(NextVersion(e), closed))
<1>1. /\ files \in [Files -> Seq(Lines)] /\ OneFile(files)
      /\ e \in Known(files) /\ VersionOf(files, e) < MaxVersion /\ MaxVersion \in Nat
  BY LedgerTypes, LedgerAssumption DEF LedgerInv, Updatable
<1> DEFINE last == ReadAll(files)[e]
           next == NextVersion(e)
<1>2. last \in Records /\ last.id = e /\ VersionOf(files, e) = last.version
  BY <1>1, VersionRead
<1>3. next = [last EXCEPT !.version = last.version + 1]
  BY DEF NextVersion
<1> HIDE DEF last, next
<1>4. last.version + 1 \in 1 .. MaxVersion /\ last.version \in Nat
  BY <1>1, <1>2, RecordsAreRecords
<1>5. next \in Records /\ next.id = e /\ next.version = last.version + 1
  BY <1>2, <1>3, <1>4 DEF Records
<1>6. Line(next, closed) \in Lines /\ Line(next, closed).record = next
  BY <1>5 DEF Lines, Line
<1>7. ~Garbled(Line(next, closed))
  BY <1>5, <1>6, RecordsAreRecords DEF Garbled
<1>8. /\ FileOf(e) \in Files
      /\ \A g \in Files : \A j \in DOMAIN files[g] : files[g][j].record.id = e => g = FileOf(e)
  <2>1. PICK f \in Files : \E i \in DOMAIN files[f] : LastOn(files, e, f, i)
    BY <1>1, KnownHasLast
  <2>2. \E i \in DOMAIN files[f] : files[f][i].record.id = e
    BY <2>1 DEF LastOn
  <2>3. FileOf(e) \in Files /\ \E i \in DOMAIN files[FileOf(e)] : files[FileOf(e)][i].record.id = e
    BY <2>2, Zenon DEF FileOf
  <2>4. \A g \in Files : \A j \in DOMAIN files[g] : files[g][j].record.id = e => g = f
    BY <2>1 DEF LastOn
  <2> QED BY <2>3, <2>4
<1>9. next.version >= VersionOf(files, e)
  BY <1>2, <1>4, <1>5
<1> QED BY <1>4, <1>5, <1>6, <1>7, <1>8, <1>9, LedgerAssumption DEF Due, next

-----------------------------------------------------------------------------
\* Every action keeps the files in order and what was written readable.

LEMMA LedgerInitially == LedgerInit => LedgerInv
<1> SUFFICES ASSUME LedgerInit PROVE LedgerInv
  OBVIOUS
<1>1. /\ files = [f \in Files |-> << >>] /\ writing = TRUE /\ mine = << >>
      /\ acked = [e \in Experiments |-> 0] /\ glimpsed = acked /\ deaths = 0
  BY DEF LedgerInit
<1>2. \A f \in Files : files[f] = << >> /\ DOMAIN files[f] = {}
  BY <1>1
<1>3. files \in [Files -> Seq(Lines)] /\ OneFile(files) /\ ClosedInside(files)
  BY <1>1, <1>2 DEF OneFile, ClosedInside
<1>4. MaxVersion \in Nat /\ MaxDeaths \in Nat
  BY LedgerAssumption
<1>5. LedgerTypeOK
  <2>1. DOMAIN mine = {} /\ writing \in BOOLEAN /\ deaths \in 0 .. MaxDeaths
    BY <1>1, <1>4
  <2>2. acked \in [Experiments -> 0 .. MaxVersion] /\ glimpsed \in [Experiments -> 0 .. MaxVersion]
    BY <1>1, <1>4
  <2> QED BY <1>3, <2>1, <2>2, LedgerTypes
<1>6. WritesKept
  <2> SUFFICES ASSUME NEW e \in Experiments
               PROVE  VersionOf(files, e) >= acked[e] /\ VersionOf(files, e) >= glimpsed[e]
    BY DEF WritesKept
  <2>1. VersionOf(files, e) \in 0 .. MaxVersion
    BY <1>3, VersionRead
  <2> QED BY <1>1, <1>4, <2>1
<1> QED BY <1>5, <1>6 DEF LedgerInv

LEMMA AppendKeeps ==
  ASSUME LedgerInv, NEW g \in Files, NEW record \in NewRecords(g), AppendRecord(g, record)
  PROVE  LedgerInv'
<1>1. /\ files' = Written(g, Line(record, TRUE))
      /\ mine' = [x \in DOMAIN mine \cup {record.id} |-> IF x = record.id THEN g ELSE mine[x]]
      /\ acked' = [acked EXCEPT ![record.id] = 1]
      /\ Glimpse /\ UNCHANGED <<writing, deaths>>
  BY DEF AppendRecord
<1>2. /\ record \in Records /\ record.id \in Experiments /\ record.version = 1
      /\ Line(record, TRUE) \in Lines /\ ~Garbled(Line(record, TRUE))
      /\ Line(record, TRUE).record = record /\ Due(g, Line(record, TRUE))
  BY NewIsDue
<1>3. /\ acked \in [Experiments -> 0 .. MaxVersion] /\ DOMAIN mine \subseteq Experiments
      /\ \A e \in DOMAIN mine : mine[e] \in Files
      /\ writing \in BOOLEAN /\ deaths \in 0 .. MaxDeaths
  BY LedgerTypes DEF LedgerInv
<1>4. /\ acked' \in [Experiments -> 0 .. MaxVersion]
      /\ \A e \in Experiments :
           acked'[e] = acked[e] \/ (e = record.id /\ acked'[e] <= record.version)
  <2>1. 1 \in 0 .. MaxVersion
    BY LedgerAssumption
  <2> QED BY <1>1, <1>2, <1>3, <2>1
<1>5. /\ files' \in [Files -> Seq(Lines)] /\ OneFile(files') /\ ClosedInside(files')
      /\ glimpsed' \in [Experiments -> 0 .. MaxVersion] /\ WritesKept'
  BY <1>1, <1>2, <1>4, WriteKeeps
<1>6. DOMAIN mine' \subseteq Experiments /\ \A e \in DOMAIN mine' : mine'[e] \in Files
  BY <1>1, <1>2, <1>3
<1> QED BY <1>1, <1>3, <1>4, <1>5, <1>6 DEF LedgerInv, LedgerTypeOK, OneFile, ClosedInside

LEMMA UpdateKeeps ==
  ASSUME LedgerInv, NEW e \in Experiments, UpdateStatus(e)
  PROVE  LedgerInv'
<1>1. /\ Updatable(e) /\ files' = Written(FileOf(e), Line(NextVersion(e), TRUE))
      /\ acked' = [acked EXCEPT ![e] = NextVersion(e).version]
      /\ Glimpse /\ UNCHANGED <<writing, mine, deaths>>
  BY DEF UpdateStatus
<1>2. /\ FileOf(e) \in Files /\ NextVersion(e).id = e
      /\ NextVersion(e).version \in 0 .. MaxVersion
      /\ Line(NextVersion(e), TRUE) \in Lines /\ ~Garbled(Line(NextVersion(e), TRUE))
      /\ Line(NextVersion(e), TRUE).record = NextVersion(e)
      /\ Due(FileOf(e), Line(NextVersion(e), TRUE))
  BY <1>1, NextIsDue
<1>3. /\ acked \in [Experiments -> 0 .. MaxVersion] /\ DOMAIN mine \subseteq Experiments
      /\ \A x \in DOMAIN mine : mine[x] \in Files
      /\ writing \in BOOLEAN /\ deaths \in 0 .. MaxDeaths /\ MaxVersion \in Nat
  BY LedgerTypes, LedgerAssumption DEF LedgerInv
<1>4. /\ acked' \in [Experiments -> 0 .. MaxVersion]
      /\ \A x \in Experiments :
           acked'[x] = acked[x] \/ (x = e /\ acked'[x] <= NextVersion(e).version)
  BY <1>1, <1>2, <1>3
<1>5. /\ files' \in [Files -> Seq(Lines)] /\ OneFile(files') /\ ClosedInside(files')
      /\ glimpsed' \in [Experiments -> 0 .. MaxVersion] /\ WritesKept'
  BY <1>1, <1>2, <1>4, WriteKeeps
<1> QED BY <1>1, <1>3, <1>4, <1>5 DEF LedgerInv, LedgerTypeOK, OneFile, ClosedInside

\* Whatever part of a due line a process gets to the file before it dies.
LEMMA DeathKeeps ==
  ASSUME LedgerInv, NEW f \in Files, NEW line \in Lines, Due(f, line), Die(f, line)
  PROVE  LedgerInv'
<1>1. /\ deaths < MaxDeaths /\ files' = Written(f, line)
      /\ writing' = FALSE /\ mine' = << >> /\ deaths' = deaths + 1
      /\ Glimpse /\ acked' = acked
  BY DEF Die
<1>2. acked \in [Experiments -> 0 .. MaxVersion] /\ deaths \in 0 .. MaxDeaths /\ MaxDeaths \in Nat
  BY LedgerTypes, LedgerAssumption DEF LedgerInv
<1>3. /\ files' \in [Files -> Seq(Lines)] /\ OneFile(files') /\ ClosedInside(files')
      /\ glimpsed' \in [Experiments -> 0 .. MaxVersion] /\ WritesKept'
  BY <1>1, <1>2, WriteKeeps
<1>4. DOMAIN mine' = {} /\ writing' \in BOOLEAN /\ deaths' \in 0 .. MaxDeaths
  <2>1. deaths' \in 0 .. MaxDeaths
    BY <1>1, <1>2
  <2>2. DOMAIN mine' = {}
    BY <1>1
  <2> QED BY <1>1, <2>1, <2>2
<1> QED BY <1>1, <1>2, <1>3, <1>4 DEF LedgerInv, LedgerTypeOK, OneFile, ClosedInside

\* Files and what is said of them stay as they are.
LEMMA RestKeeps ==
  ASSUME LedgerInv, UNCHANGED <<files, acked, glimpsed>>,
         writing' \in BOOLEAN, mine' = << >> \/ mine' = mine, deaths' \in 0 .. MaxDeaths
  PROVE  LedgerInv'
<1>1. DOMAIN mine' \subseteq Experiments /\ \A e \in DOMAIN mine' : mine'[e] \in Files
  BY DEF LedgerInv, LedgerTypeOK
<1>2. LedgerTypeOK'
  BY <1>1 DEF LedgerInv, LedgerTypeOK
<1>3. WritesKept'
  BY DEF LedgerInv, WritesKept
<1> QED BY <1>2, <1>3 DEF LedgerInv

THEOREM LedgerInvariance == LedgerSpec => []LedgerInv
<1>1. LedgerInit => LedgerInv
  BY LedgerInitially
<1>2. LedgerInv /\ [LedgerNext]_ledgerVars => LedgerInv'
  <2> SUFFICES ASSUME LedgerInv, [LedgerNext]_ledgerVars PROVE LedgerInv'
    OBVIOUS
  <2>1. ASSUME NEW g \in Files, NEW record \in NewRecords(g), AppendRecord(g, record)
        PROVE  LedgerInv'
    BY <2>1, AppendKeeps
  <2>2. ASSUME NEW g \in Files, NEW record \in NewRecords(g), DieAppending(g, record)
        PROVE  LedgerInv'
    <3>1. PICK r \in {record, NoRecord} : Die(g, Line(r, FALSE))
      BY <2>2 DEF DieAppending
    <3>2. Line(r, FALSE) \in Lines /\ Due(g, Line(r, FALSE))
      <4>1. Line(record, FALSE) \in Lines /\ Due(g, Line(record, FALSE))
        BY NewIsDue
      <4>2. Line(NoRecord, FALSE) \in Lines /\ Due(g, Line(NoRecord, FALSE))
        BY DEF Lines, Line, Due, Garbled
      <4> QED BY <4>1, <4>2
    <3> QED BY <3>1, <3>2, DeathKeeps
  <2>3. ASSUME NEW e \in Experiments, UpdateStatus(e) PROVE LedgerInv'
    BY <2>3, UpdateKeeps
  <2>4. ASSUME NEW e \in Experiments, DieUpdating(e) PROVE LedgerInv'
    <3>1. Updatable(e) /\ \E r \in {NextVersion(e), NoRecord} : Die(FileOf(e), Line(r, FALSE))
      BY <2>4 DEF DieUpdating
    <3>2. PICK r \in {NextVersion(e), NoRecord} : Die(FileOf(e), Line(r, FALSE))
      BY <3>1
    <3>3. FileOf(e) \in Files /\ Line(r, FALSE) \in Lines /\ Due(FileOf(e), Line(r, FALSE))
      <4>1. /\ FileOf(e) \in Files /\ Line(NextVersion(e), FALSE) \in Lines
            /\ Due(FileOf(e), Line(NextVersion(e), FALSE))
        BY <3>1, NextIsDue
      <4>2. Line(NoRecord, FALSE) \in Lines /\ Due(FileOf(e), Line(NoRecord, FALSE))
        BY DEF Lines, Line, Due, Garbled
      <4> QED BY <4>1, <4>2
    <3> QED BY <3>2, <3>3, DeathKeeps
  <2>5. CASE DieIdle
    <3>1. /\ writing' = FALSE /\ mine' = << >> /\ deaths < MaxDeaths /\ deaths' = deaths + 1
          /\ UNCHANGED <<files, acked, glimpsed>>
      BY <2>5 DEF DieIdle
    <3>2. deaths' \in 0 .. MaxDeaths
      BY <3>1, LedgerAssumption DEF LedgerInv, LedgerTypeOK
    <3> QED BY <3>1, <3>2, RestKeeps
  <2>6. CASE Reopen
    <3>1. writing' = TRUE /\ UNCHANGED <<files, mine, acked, glimpsed, deaths>>
      BY <2>6 DEF Reopen
    <3>2. deaths' \in 0 .. MaxDeaths
      BY <3>1 DEF LedgerInv, LedgerTypeOK
    <3> QED BY <3>1, <3>2, RestKeeps
  <2>7. CASE UNCHANGED ledgerVars
    BY <2>7 DEF ledgerVars, LedgerInv, LedgerTypeOK, WritesKept
  <2> QED BY <2>1, <2>2, <2>3, <2>4, <2>5, <2>6, <2>7 DEF LedgerNext
<1> QED BY <1>1, <1>2, PTL DEF LedgerSpec

-----------------------------------------------------------------------------
\* The walk of lineage().

\* The chain of x holds each of its members once and after its parents, x at the end.
Lined(known, chain, x) ==
  /\ chain \in Seq(DOMAIN known) /\ chain # << >> /\ chain[Len(chain)] = x
  /\ \A i, j \in DOMAIN chain : i # j => chain[i] # chain[j]
  /\ \A i \in DOMAIN chain : \A k \in DOMAIN known[chain[i]].parents :
       \E j \in 1 .. i - 1 : chain[j] = known[chain[i]].parents[k]

\* None of its members is of a later generation.
NotLater(rank, chain, x) == \A i \in DOMAIN chain : rank[chain[i]] <= rank[x]

\* Parents are known and of an earlier generation.
BredEarlier(known, rank) ==
  \A x \in DOMAIN known :
    /\ known[x].parents \in Seq(DOMAIN known)
    /\ \A k \in DOMAIN known[x].parents : rank[known[x].parents[k]] < rank[x]

\* Visits come one after the other.
LEMMA SoonerOrders ==
  ASSUME NEW F, \A v \in F : v = <<v[1], v[2]>> /\ v[1] \in Nat /\ v[2] \in Nat
  PROVE  /\ \A v \in F : ~Sooner(v, v)
         /\ \A u, v, w \in F : Sooner(u, v) /\ Sooner(v, w) => Sooner(u, w)
         /\ \A v, w \in F : v # w => Sooner(v, w) \/ Sooner(w, v)
BY DEF Sooner

LEMMA InTurnLists ==
  ASSUME NEW F, IsFiniteSet(F), \A v \in F : v = <<v[1], v[2]>> /\ v[1] \in Nat /\ v[2] \in Nat
  PROVE  /\ Cardinality(F) \in Nat /\ DOMAIN InTurn(F) = 1 .. Cardinality(F)
         /\ \A n \in 1 .. Cardinality(F) : InTurn(F)[n] \in F
         /\ \A v \in F : \E n \in 1 .. Cardinality(F) : InTurn(F)[n] = v
         /\ \A m, n \in 1 .. Cardinality(F) : m < n => Sooner(InTurn(F)[m], InTurn(F)[n])
         /\ \A m, n \in 1 .. Cardinality(F) : m # n => InTurn(F)[m] # InTurn(F)[n]
<1> DEFINE R == {p \in F \X F : Sooner(p[1], p[2])}
           seq == InOrder(F, R)
<1>1. \A v, w \in F : <<v, w>> \in R <=> Sooner(v, w)
  OBVIOUS
<1>2. InTurn(F) = seq
  BY DEF InTurn
<1> HIDE DEF R
<1>3. StrictOrder(F, R)
  BY <1>1, SoonerOrders, Zenon DEF StrictOrder
<1>4. Enumerates(seq, F, R) /\ Cardinality(F) \in Nat
  BY <1>3, InOrderEnumerates, FS_CardinalityType
<1> HIDE DEF seq
<1>5. DOMAIN seq = 1 .. Cardinality(F) /\ \A n \in 1 .. Cardinality(F) : seq[n] \in F
  BY <1>4 DEF Enumerates
<1>6. \A m, n \in 1 .. Cardinality(F) : m < n => Sooner(seq[m], seq[n])
  BY <1>1, <1>4, <1>5 DEF Enumerates
<1> QED BY <1>2, <1>4, <1>5, <1>6 DEF Enumerates

\* Whoever is visited is met first at that visit or sooner.
LEMMA MetByThen ==
  ASSUME NEW visits, IsFiniteSet(visits), NEW walk, NEW parents,
         \A v \in visits : v = <<v[1], v[2]>> /\ v[1] \in Nat /\ v[2] \in Nat
  PROVE  /\ FirstMet(walk, parents, visits) \in SUBSET visits
         /\ \A v \in visits : \E u \in FirstMet(walk, parents, visits) :
              Visited(walk, parents, u) = Visited(walk, parents, v) /\ (u = v \/ Sooner(u, v))
         /\ \A v, w \in FirstMet(walk, parents, visits) :
              v # w => Visited(walk, parents, v) # Visited(walk, parents, w)
<1> DEFINE firsts == FirstMet(walk, parents, visits)
           at(v) == Visited(walk, parents, v)
<1>1. /\ \A v \in visits : ~Sooner(v, v)
      /\ \A u, v, w \in visits : Sooner(u, v) /\ Sooner(v, w) => Sooner(u, w)
      /\ \A v, w \in visits : v # w => Sooner(v, w) \/ Sooner(w, v)
  BY SoonerOrders
<1>2. \A v : v \in firsts <=> v \in visits /\ \A w \in visits : Sooner(w, v) => at(w) # at(v)
  BY DEF FirstMet
<1>3. ASSUME NEW v \in visits PROVE \E u \in firsts : at(u) = at(v) /\ (u = v \/ Sooner(u, v))
  <2> DEFINE same == {w \in visits : at(w) = at(v)}
             seq == InTurn(same)
  <2>1. same \in SUBSET visits /\ v \in same /\ \A w : w \in same <=> w \in visits /\ at(w) = at(v)
    OBVIOUS
  <2> HIDE DEF same, at
  <2>2. IsFiniteSet(same)
    BY <2>1, FS_Subset
  <2>3. /\ Cardinality(same) \in Nat
        /\ \A n \in 1 .. Cardinality(same) : seq[n] \in same
        /\ \A w \in same : \E n \in 1 .. Cardinality(same) : seq[n] = w
        /\ \A m, n \in 1 .. Cardinality(same) : m < n => Sooner(seq[m], seq[n])
    BY <2>1, <2>2, InTurnLists
  <2> HIDE DEF seq
  <2>4. PICK n \in 1 .. Cardinality(same) : seq[n] = v
    BY <2>1, <2>3
  <2>5. 1 \in 1 .. Cardinality(same) /\ seq[1] \in same
    BY <2>3, <2>4
  <2>6. ASSUME NEW w \in same PROVE w = seq[1] \/ Sooner(seq[1], w)
    <3>1. PICK m \in 1 .. Cardinality(same) : seq[m] = w
      BY <2>3
    <3>2. m = 1 \/ 1 < m
      BY <2>3, <3>1
    <3> QED BY <2>3, <2>5, <3>1, <3>2
  <2>7. seq[1] \in firsts
    <3>1. ASSUME NEW w \in visits, Sooner(w, seq[1]), at(w) = at(seq[1]) PROVE FALSE
      <4>1. w \in same /\ seq[1] \in visits
        BY <2>1, <2>5, <3>1
      <4>2. w = seq[1] \/ Sooner(seq[1], w)
        BY <2>6, <4>1
      <4>3. Sooner(seq[1], seq[1])
        BY <1>1, <3>1, <4>1, <4>2
      <4> QED BY <1>1, <4>1, <4>3
    <3> QED BY <1>2, <2>1, <2>5, <3>1
  <2> QED BY <2>1, <2>5, <2>6, <2>7
<1>4. ASSUME NEW v \in firsts, NEW w \in firsts, v # w PROVE at(v) # at(w)
  <2>1. v \in visits /\ w \in visits /\ (Sooner(v, w) \/ Sooner(w, v))
    BY <1>1, <1>2, <1>4
  <2> QED BY <1>2, <2>1
<1>5. firsts \in SUBSET visits
  BY <1>2
<1> HIDE DEF firsts
<1>6. /\ \A v \in visits : \E u \in firsts : at(u) = at(v) /\ (u = v \/ Sooner(u, v))
      /\ \A v, w \in firsts : v # w => at(v) # at(w)
  BY <1>3, <1>4
<1> QED BY <1>5, <1>6 DEF firsts

\* Visits are places in finitely many chains.
LEMMA VisitsAre ==
  ASSUME NEW known, NEW walk, NEW parents \in Seq(DOMAIN known),
         \A k \in DOMAIN parents : walk[parents[k]] \in Seq(DOMAIN known)
  PROVE  /\ IsFiniteSet(Visits(known, walk, parents))
         /\ \A k \in DOMAIN parents : \A n \in DOMAIN walk[parents[k]] : <<k, n>> \in Visits(known, walk, parents)
         /\ \A v \in Visits(known, walk, parents) :
              /\ v = <<v[1], v[2]>> /\ v[1] \in Nat /\ v[2] \in Nat
              /\ v[1] \in DOMAIN parents /\ v[2] \in DOMAIN walk[parents[v[1]]]
              /\ Visited(walk, parents, v) \in DOMAIN known
<1> DEFINE K == DOMAIN known
           visits == Visits(known, walk, parents)
<1>1. /\ DOMAIN parents = 1 .. Len(parents) /\ Len(parents) \in Nat
      /\ \A k \in DOMAIN parents : parents[k] \in K
  OBVIOUS
<1>2. \A k \in DOMAIN parents :
        /\ walk[parents[k]] \in Seq(K) /\ Len(walk[parents[k]]) \in Nat
        /\ DOMAIN walk[parents[k]] = 1 .. Len(walk[parents[k]])
  OBVIOUS
<1>3. /\ \A k \in DOMAIN parents : \A n \in DOMAIN walk[parents[k]] : <<k, n>> \in visits
      /\ \A v \in visits : \E k \in DOMAIN parents : \E n \in DOMAIN walk[parents[k]] : v = <<k, n>>
  BY <1>1 DEF Visits
<1>4. IsFiniteSet(visits)
  <2> DEFINE J == {j \in DOMAIN parents : parents[j] \in K}
             parts == {{k} \X DOMAIN walk[parents[k]] : k \in J}
  <2>1. IsFiniteSet(J)
    <3>1. IsFiniteSet(1 .. Len(parents))
      <4>1. 1 \in Int /\ Len(parents) \in Int
        BY <1>1
      <4> QED BY <4>1, FS_Interval
    <3> QED BY <1>1, <3>1, FS_Subset
  <2>2. IsFiniteSet(parts)
    <3> DEFINE part == [k \in J |-> {k} \X DOMAIN walk[parents[k]]]
    <3>1. part \in Surjection(J, parts)
      BY DEF Surjection
    <3> HIDE DEF part, J, parts
    <3> QED BY <2>1, <3>1, FS_Surjection
  <2>3. ASSUME NEW T \in parts PROVE IsFiniteSet(T)
    <3>1. PICK k \in J : T = {k} \X DOMAIN walk[parents[k]]
      OBVIOUS
    <3>2. /\ DOMAIN walk[parents[k]] = 1 .. Len(walk[parents[k]])
          /\ 1 \in Int /\ Len(walk[parents[k]]) \in Int
      BY <1>2
    <3>3. IsFiniteSet(DOMAIN walk[parents[k]])
      BY <3>2, FS_Interval
    <3>4. IsFiniteSet({k})
      BY FS_Singleton
    <3> QED BY <3>1, <3>3, <3>4, FS_Product
  <2> HIDE DEF parts
  <2>4. IsFiniteSet(UNION parts)
    BY <2>2, <2>3, FS_UNION
  <2> QED BY <2>4 DEF parts, Visits
<1>5. ASSUME NEW v \in visits
      PROVE  /\ v = <<v[1], v[2]>> /\ v[1] \in Nat /\ v[2] \in Nat
             /\ v[1] \in DOMAIN parents /\ v[2] \in DOMAIN walk[parents[v[1]]]
             /\ Visited(walk, parents, v) \in K
  <2>1. PICK k \in DOMAIN parents : \E n \in DOMAIN walk[parents[k]] : v = <<k, n>>
    BY <1>3
  <2>2. PICK n \in DOMAIN walk[parents[k]] : v = <<k, n>>
    BY <2>1
  <2>3. k \in Nat /\ n \in Nat /\ walk[parents[k]][n] \in K
    BY <1>1, <1>2
  <2>4. Visited(walk, parents, v) = walk[parents[k]][n]
    BY <2>2 DEF Visited
  <2> QED BY <2>2, <2>3, <2>4
<1> QED BY <1>3, <1>4, <1>5

\* One step of the walk: chains of the parents make the chain of their child.
LEMMA ChainLined ==
  ASSUME NEW known, NEW rank \in [DOMAIN known -> Nat], BredEarlier(known, rank),
         NEW walk, NEW x \in DOMAIN known,
         \A k \in DOMAIN known[x].parents :
           /\ Lined(known, walk[known[x].parents[k]], known[x].parents[k])
           /\ NotLater(rank, walk[known[x].parents[k]], known[x].parents[k])
  PROVE  Lined(known, Chain(known, walk, x), x) /\ NotLater(rank, Chain(known, walk, x), x)
<1> DEFINE K == DOMAIN known
           parents == known[x].parents
           visits == Visits(known, walk, parents)
           firsts == FirstMet(walk, parents, visits)
           order == InTurn(firsts)
           new == [n \in DOMAIN order |-> Visited(walk, parents, order[n])]
           at == [v \in visits |-> Visited(walk, parents, v)]
           chain == Chain(known, walk, x)
<1>1. chain = Append(new, x)
  BY DEF Chain
<1>2. /\ parents \in Seq(K) /\ DOMAIN parents = 1 .. Len(parents) /\ Len(parents) \in Nat
      /\ \A k \in DOMAIN parents : parents[k] \in K /\ rank[parents[k]] < rank[x]
  BY DEF BredEarlier
<1>3. \A k \in DOMAIN parents :
        /\ walk[parents[k]] \in Seq(K) /\ Len(walk[parents[k]]) \in Nat \ {0}
        /\ DOMAIN walk[parents[k]] = 1 .. Len(walk[parents[k]])
        /\ walk[parents[k]][Len(walk[parents[k]])] = parents[k]
  <2> SUFFICES ASSUME NEW k \in DOMAIN parents
               PROVE  /\ walk[parents[k]] \in Seq(K) /\ Len(walk[parents[k]]) \in Nat \ {0}
                      /\ DOMAIN walk[parents[k]] = 1 .. Len(walk[parents[k]])
                      /\ walk[parents[k]][Len(walk[parents[k]])] = parents[k]
    OBVIOUS
  <2>1. walk[parents[k]] \in Seq(K) /\ walk[parents[k]] # << >> /\ walk[parents[k]][Len(walk[parents[k]])] = parents[k]
    BY DEF Lined
  <2> QED BY <2>1
<1>4. \A k \in DOMAIN parents : \A n \in DOMAIN walk[parents[k]] : <<k, n>> \in visits
  BY <1>2, <1>3, VisitsAre
<1>5. IsFiniteSet(visits)
  BY <1>2, <1>3, VisitsAre
<1>6. \A v \in visits : /\ v = <<v[1], v[2]>> /\ v[1] \in Nat /\ v[2] \in Nat
                        /\ v[1] \in DOMAIN parents /\ v[2] \in DOMAIN walk[parents[v[1]]]
                        /\ at[v] = walk[parents[v[1]]][v[2]] /\ at[v] \in K
  <2>1. \A v \in visits : /\ v = <<v[1], v[2]>> /\ v[1] \in Nat /\ v[2] \in Nat
                          /\ v[1] \in DOMAIN parents /\ v[2] \in DOMAIN walk[parents[v[1]]]
                          /\ Visited(walk, parents, v) \in K
    BY <1>2, <1>3, VisitsAre
  <2>2. \A v \in visits : at[v] = Visited(walk, parents, v)
    OBVIOUS
  <2> QED BY <2>1, <2>2 DEF Visited
<1>7. \A v \in visits : v = <<v[1], v[2]>> /\ v[1] \in Nat /\ v[2] \in Nat
  BY <1>6
<1>8. /\ firsts \in SUBSET visits
      /\ \A v \in visits : \E u \in firsts : at[u] = at[v] /\ (u = v \/ Sooner(u, v))
      /\ \A v, w \in firsts : v # w => at[v] # at[w]
  <2> HIDE DEF visits, firsts
  <2>1. /\ firsts \in SUBSET visits
        /\ \A v \in visits : \E u \in firsts :
             Visited(walk, parents, u) = Visited(walk, parents, v) /\ (u = v \/ Sooner(u, v))
        /\ \A v, w \in firsts : v # w => Visited(walk, parents, v) # Visited(walk, parents, w)
    BY <1>5, <1>7, MetByThen DEF firsts
  <2>2. \A v \in visits : at[v] = Visited(walk, parents, v)
    OBVIOUS
  <2> HIDE DEF at
  <2> QED BY <2>1, <2>2
<1> DEFINE n1 == Cardinality(firsts)
<1>10. /\ DOMAIN order = 1 .. n1 /\ n1 \in Nat
       /\ \A n \in 1 .. n1 : order[n] \in firsts
       /\ \A v \in firsts : \E n \in 1 .. n1 : order[n] = v
       /\ \A m, n \in 1 .. n1 : m < n => Sooner(order[m], order[n])
       /\ \A m, n \in 1 .. n1 : m # n => order[m] # order[n]
  <2> HIDE DEF firsts, visits
  <2>1. IsFiniteSet(firsts)
    BY <1>5, <1>8, FS_Subset
  <2> QED BY <1>7, <1>8, <2>1, InTurnLists
<1>11. DOMAIN new = 1 .. n1 /\ \A n \in 1 .. n1 : new[n] = at[order[n]] /\ order[n] \in visits
  <2>1. \A n \in 1 .. n1 : order[n] \in visits
    BY <1>8, <1>10
  <2> HIDE DEF order, visits
  <2> QED BY <1>10, <2>1
<1> HIDE DEF new, order, firsts, visits, at, n1
<1>12. /\ new \in Seq(K) /\ Len(new) = n1
       /\ \A m, n \in 1 .. n1 : m # n => new[m] # new[n]
       /\ \A n \in 1 .. n1 : new[n] \in K /\ rank[new[n]] < rank[x]
  <2>1. ASSUME NEW n \in 1 .. n1 PROVE new[n] \in K /\ rank[new[n]] < rank[x]
    <3>0. order[n] \in visits /\ new[n] = at[order[n]]
      BY <1>11
    <3>1. PICK k \in DOMAIN parents : \E i \in DOMAIN walk[parents[k]] : new[n] = walk[parents[k]][i]
      BY <1>6, <3>0
    <3>2. PICK i \in DOMAIN walk[parents[k]] : new[n] = walk[parents[k]][i]
      BY <3>1
    <3>3. rank[new[n]] <= rank[parents[k]]
      BY <3>2 DEF NotLater
    <3>4. new[n] \in K
      BY <1>6, <1>11
    <3>5. rank[new[n]] \in Int /\ rank[parents[k]] \in Int /\ rank[x] \in Int /\ rank[parents[k]] < rank[x]
      BY <1>2, <3>4
    <3> QED BY <3>3, <3>4, <3>5
  <2>2. new \in [1 .. n1 -> K]
    <3>1. new = [n \in 1 .. n1 |-> new[n]]
      BY <1>11 DEF new
    <3> QED BY <2>1, <3>1
  <2>3. new \in Seq(K) /\ Len(new) = n1
    BY <1>10, <2>2
  <2>4. \A m, n \in 1 .. n1 : m # n => new[m] # new[n]
    <3> SUFFICES ASSUME NEW m \in 1 .. n1, NEW n \in 1 .. n1, m # n PROVE new[m] # new[n]
      OBVIOUS
    <3>1. order[m] \in firsts /\ order[n] \in firsts /\ order[m] # order[n]
      BY <1>10
    <3>2. at[order[m]] # at[order[n]]
      BY <1>8, <3>1
    <3> QED BY <1>11, <3>2
  <2> QED BY <2>1, <2>3, <2>4
<1>13. /\ chain \in Seq(K) /\ Len(chain) = n1 + 1 /\ DOMAIN chain = 1 .. n1 + 1
       /\ chain[n1 + 1] = x /\ \A n \in 1 .. n1 : chain[n] = new[n]
  <2>1. new \in Seq(K) /\ Len(new) = n1 /\ n1 \in Nat /\ x \in K
    BY <1>10, <1>12
  <2> HIDE DEF K
  <2> QED BY <1>1, <2>1
<1> HIDE DEF chain
\* What is visited at some time has its place by then.
<1>14. \A v \in visits : \E m \in 1 .. n1 :
          new[m] = at[v] /\ (order[m] = v \/ Sooner(order[m], v))
  <2> SUFFICES ASSUME NEW v \in visits
               PROVE  \E m \in 1 .. n1 : new[m] = at[v] /\ (order[m] = v \/ Sooner(order[m], v))
    OBVIOUS
  <2>1. PICK u \in firsts : at[u] = at[v] /\ (u = v \/ Sooner(u, v))
    BY <1>8
  <2>2. PICK m \in 1 .. n1 : order[m] = u
    BY <1>10
  <2> QED BY <1>11, <2>1, <2>2
<1>15. ASSUME NEW n \in 1 .. n1, NEW k \in DOMAIN known[new[n]].parents
       PROVE  \E j \in 1 .. n - 1 : new[j] = known[new[n]].parents[k]
  <2> DEFINE v == order[n]
             p == parents[v[1]]
  <2>1. /\ v \in visits /\ v = <<v[1], v[2]>> /\ v[1] \in DOMAIN parents /\ v[2] \in DOMAIN walk[p]
        /\ new[n] = walk[p][v[2]] /\ v[1] \in Nat /\ v[2] \in Nat
    BY <1>6, <1>11
  <2> HIDE DEF v
  <2>2. PICK i \in 1 .. v[2] - 1 : walk[p][i] = known[new[n]].parents[k]
    <3>1. Lined(known, walk[p], p)
      BY <2>1
    <3> HIDE DEF p
    <3>2. \E i \in 1 .. v[2] - 1 : walk[p][i] = known[walk[p][v[2]]].parents[k]
      <4>1. \A i \in DOMAIN walk[p] : \A l \in DOMAIN known[walk[p][i]].parents :
              \E j \in 1 .. i - 1 : walk[p][j] = known[walk[p][i]].parents[l]
        BY <3>1 DEF Lined
      <4> QED BY <1>15, <2>1, <4>1
    <3> QED BY <2>1, <3>2
  <2>3. i \in DOMAIN walk[p] /\ i < v[2] /\ i \in Nat
    <3>1. Len(walk[p]) \in Nat /\ DOMAIN walk[p] = 1 .. Len(walk[p])
      BY <1>3, <2>1
    <3> HIDE DEF p
    <3> QED BY <2>1, <3>1
  <2>4. <<v[1], i>> \in visits /\ at[<<v[1], i>>] = known[new[n]].parents[k]
    <3>1. <<v[1], i>> \in visits
      BY <1>4, <2>1, <2>3
    <3>2. at[<<v[1], i>>] = walk[parents[<<v[1], i>>[1]]][<<v[1], i>>[2]]
      BY <1>6, <3>1
    <3> QED BY <2>2, <3>1, <3>2
  <2>5. PICK m \in 1 .. n1 : new[m] = at[<<v[1], i>>] /\ (order[m] = <<v[1], i>> \/ Sooner(order[m], <<v[1], i>>))
    BY <1>14, <2>4
  <2>6. Sooner(<<v[1], i>>, v)
    BY <2>1, <2>3 DEF Sooner
  <2>7. order[m] \in visits /\ ~Sooner(v, v) /\ \A a, b, c \in visits : Sooner(a, b) /\ Sooner(b, c) => Sooner(a, c)
    BY <1>6, <1>11, <2>1, SoonerOrders
  <2>8. Sooner(order[m], v)
    BY <2>1, <2>4, <2>5, <2>6, <2>7
  <2>9. ~(n <= m)
    <3> HIDE DEF p
    <3>1. n = m => FALSE
      BY <2>7, <2>8 DEF v
    <3>2. n < m => Sooner(v, order[m])
      BY <1>10 DEF v
    <3>3. n < m => FALSE
      BY <2>1, <2>7, <2>8, <3>2
    <3> QED BY <1>10, <3>1, <3>3
  <2> QED BY <1>10, <2>4, <2>5, <2>9
<1>16. ASSUME NEW k \in DOMAIN parents PROVE \E j \in 1 .. n1 : new[j] = parents[k]
  <2> DEFINE n == Len(walk[parents[k]])
  <2>1. n \in DOMAIN walk[parents[k]] /\ walk[parents[k]][n] = parents[k]
    BY <1>3
  <2>2. <<k, n>> \in visits
    BY <1>4, <2>1
  <2>3. at[<<k, n>>] = walk[parents[<<k, n>>[1]]][<<k, n>>[2]]
    BY <1>6, <2>2
  <2> HIDE DEF n
  <2>4. at[<<k, n>>] = parents[k]
    BY <2>1, <2>3
  <2> QED BY <1>14, <2>2, <2>4
<1>17. \A i \in DOMAIN chain : \A k \in DOMAIN known[chain[i]].parents :
         \E j \in 1 .. i - 1 : chain[j] = known[chain[i]].parents[k]
  <2> SUFFICES ASSUME NEW i \in DOMAIN chain, NEW k \in DOMAIN known[chain[i]].parents
               PROVE  \E j \in 1 .. i - 1 : chain[j] = known[chain[i]].parents[k]
    OBVIOUS
  <2>1. CASE i \in 1 .. n1
    <3>1. chain[i] = new[i]
      BY <1>13, <2>1
    <3>2. PICK j \in 1 .. i - 1 : new[j] = known[new[i]].parents[k]
      BY <1>15, <2>1, <3>1
    <3>3. j \in 1 .. n1
      BY <1>10, <2>1
    <3> QED BY <1>13, <3>1, <3>2, <3>3
  <2>2. CASE i = n1 + 1
    <3>1. chain[i] = x /\ i - 1 = n1
      BY <1>10, <1>13, <2>2
    <3>2. PICK j \in 1 .. n1 : new[j] = parents[k]
      BY <1>16, <3>1
    <3> QED BY <1>13, <3>1, <3>2
  <2> QED BY <1>10, <1>13, <2>1, <2>2
<1>18. \A i, j \in DOMAIN chain : i # j => chain[i] # chain[j]
  <2>1. \A i \in 1 .. n1 : chain[i] # x /\ chain[i] = new[i]
    BY <1>12, <1>13
  <2>2. \A i \in DOMAIN chain : i \in 1 .. n1 \/ i = n1 + 1
    BY <1>10, <1>13
  <2> QED BY <1>12, <1>13, <2>1, <2>2
<1>19. NotLater(rank, chain, x)
  <2>1. \A i \in DOMAIN chain : i \in 1 .. n1 \/ i = n1 + 1
    BY <1>10, <1>13
  <2>2. \A i \in 1 .. n1 : rank[chain[i]] <= rank[x]
    BY <1>12, <1>13
  <2>3. rank[chain[n1 + 1]] <= rank[x]
    BY <1>13
  <2> QED BY <2>1, <2>2, <2>3 DEF NotLater
<1>20. Lined(known, chain, x)
  <2>1. chain # << >> /\ chain[Len(chain)] = x
    BY <1>10, <1>13
  <2> QED BY <1>13, <1>17, <1>18, <2>1 DEF Lined
<1> QED BY <1>19, <1>20 DEF chain

\* A chain is made of the chains of the parents and nothing else.
LEMMA ChainOfParents ==
  ASSUME NEW known, NEW x \in DOMAIN known, known[x].parents \in Seq(DOMAIN known), NEW w, NEW v,
         \A k \in DOMAIN known[x].parents :
           /\ w[known[x].parents[k]] \in Seq(DOMAIN known)
           /\ w[known[x].parents[k]] = v[known[x].parents[k]]
  PROVE  Chain(known, w, x) = Chain(known, v, x)
<1> DEFINE parents == known[x].parents
           visits == Visits(known, w, parents)
           firsts == FirstMet(w, parents, visits)
           order == InTurn(firsts)
<1>1. visits = Visits(known, v, parents)
  BY DEF Visits
<1>2. /\ IsFiniteSet(visits)
      /\ \A u \in visits : /\ u = <<u[1], u[2]>> /\ u[1] \in Nat /\ u[2] \in Nat
                           /\ u[1] \in DOMAIN parents
  BY VisitsAre
<1>3. \A u \in visits : Visited(w, parents, u) = Visited(v, parents, u)
  BY <1>2 DEF Visited
<1> HIDE DEF visits
<1>4. firsts = FirstMet(v, parents, visits)
  BY <1>3 DEF FirstMet
<1>5. Chain(known, w, x) = Append([n \in DOMAIN order |-> Visited(w, parents, order[n])], x)
  BY DEF Chain, visits
<1>6. Chain(known, v, x) = Append([n \in DOMAIN order |-> Visited(v, parents, order[n])], x)
  BY <1>1, <1>4 DEF Chain
<1>7. firsts \in SUBSET visits
  BY DEF FirstMet
<1> HIDE DEF firsts
<1>8. IsFiniteSet(firsts)
  BY <1>2, <1>7, FS_Subset
<1>9. \A n \in DOMAIN order : order[n] \in visits
  <2>1. \A u \in firsts : u = <<u[1], u[2]>> /\ u[1] \in Nat /\ u[2] \in Nat
    BY <1>2, <1>7
  <2>2. \A n \in DOMAIN order : order[n] \in firsts
    <3>1. DOMAIN InTurn(firsts) = 1 .. Cardinality(firsts)
      BY <1>8, <2>1, InTurnLists
    <3>2. \A n \in 1 .. Cardinality(firsts) : InTurn(firsts)[n] \in firsts
      BY <1>8, <2>1, InTurnLists
    <3> QED BY <3>1, <3>2
  <2> QED BY <1>7, <2>2
<1> HIDE DEF order
<1> QED BY <1>3, <1>5, <1>6, <1>9

\* The walk comes to an end, as no experiment is its own ancestor: there are chains
\* that are made of each other as it makes them, and any such are in order.
LEMMA ChainsThere ==
  ASSUME NEW known, NEW N \in Nat, NEW rank \in [DOMAIN known -> 0 .. N], BredEarlier(known, rank)
  PROVE  \E w : w = [x \in DOMAIN known |-> Chain(known, w, x)]
<1> DEFINE K == DOMAIN known
           Up(w, n) == \A x \in K : rank[x] < n => /\ w[x] = Chain(known, w, x)
                                                  /\ Lined(known, w[x], x) /\ NotLater(rank, w[x], x)
           S == {n \in 0 .. N + 1 : \E w \in [K -> Seq(K)] : Up(w, n)}
<1>1. rank \in [K -> Nat] /\ \A x \in K : rank[x] \in 0 .. N
  OBVIOUS
<1>2. 0 \in S
  <2> DEFINE none == [x \in K |-> << >>]
  <2>1. none \in [K -> Seq(K)]
    OBVIOUS
  <2>2. \A x \in K : ~(rank[x] < 0)
    BY <1>1
  <2> HIDE DEF none
  <2>3. Up(none, 0) /\ 0 \in 0 .. N + 1
    BY <2>2
  <2> HIDE DEF Up
  <2> QED BY <2>1, <2>3
<1>3. ASSUME NEW n \in 0 .. N, n \in S PROVE n + 1 \in S
  <2>1. PICK w \in [K -> Seq(K)] : Up(w, n)
    BY <1>3
  <2> DEFINE v == [x \in K |-> IF rank[x] < n THEN w[x] ELSE IF rank[x] = n THEN Chain(known, w, x) ELSE << >>]
  <2>2. \A x \in K : \A k \in DOMAIN known[x].parents :
          known[x].parents[k] \in K /\ rank[known[x].parents[k]] < rank[x]
    BY DEF BredEarlier
  <2>3. ASSUME NEW x \in K, rank[x] <= n
        PROVE  /\ Chain(known, w, x) = Chain(known, v, x)
               /\ Lined(known, Chain(known, w, x), x) /\ NotLater(rank, Chain(known, w, x), x)
    <3>1. ASSUME NEW k \in DOMAIN known[x].parents
          PROVE  LET p == known[x].parents[k]
                 IN  w[p] \in Seq(K) /\ w[p] = v[p] /\ Lined(known, w[p], p) /\ NotLater(rank, w[p], p)
      <4>1. known[x].parents[k] \in K /\ rank[known[x].parents[k]] < n
        BY <1>1, <2>2, <2>3
      <4> QED BY <2>1, <4>1
    <3>2. Chain(known, w, x) = Chain(known, v, x)
      <4> HIDE DEF v
      <4>1. known[x].parents \in Seq(K)
        BY DEF BredEarlier
      <4> QED BY <3>1, <4>1, ChainOfParents
    <3>3. Lined(known, Chain(known, w, x), x) /\ NotLater(rank, Chain(known, w, x), x)
      BY <1>1, <3>1, ChainLined
    <3> QED BY <3>2, <3>3
  <2>4. ASSUME NEW x \in K, rank[x] <= n
        PROVE  v[x] = Chain(known, v, x) /\ Lined(known, v[x], x) /\ NotLater(rank, v[x], x)
    <3>1. rank[x] < n \/ rank[x] = n
      BY <1>1, <2>4
    <3>2. v[x] = Chain(known, w, x)
      BY <2>1, <3>1
    <3> HIDE DEF v
    <3> QED BY <2>3, <2>4, <3>2
  <2>5. v \in [K -> Seq(K)]
    <3>1. ASSUME NEW x \in K PROVE v[x] \in Seq(K)
      <4>1. rank[x] = n => Chain(known, w, x) \in Seq(K)
        <5>1. rank[x] = n => rank[x] <= n
          BY <1>1
        <5>2. rank[x] = n => Lined(known, Chain(known, w, x), x)
          BY <2>3, <5>1
        <5> QED BY <5>2 DEF Lined
      <4>2. w[x] \in Seq(K) /\ << >> \in Seq(K)
        BY <2>1
      <4> HIDE DEF K
      <4>3. v[x] = IF rank[x] < n THEN w[x] ELSE IF rank[x] = n THEN Chain(known, w, x) ELSE << >>
        OBVIOUS
      <4> HIDE DEF v
      <4> QED BY <4>1, <4>2, <4>3
    <3> QED BY <3>1
  <2>6. Up(v, n + 1)
    <3> HIDE DEF v
    <3>1. \A x \in K : rank[x] < n + 1 => rank[x] <= n
      BY <1>1
    <3> QED BY <2>4, <3>1
  <2>7. n + 1 \in 0 .. N + 1
    OBVIOUS
  <2> HIDE DEF v, Up
  <2> QED BY <2>5, <2>6, <2>7
<1>4. N + 1 \in S
  <2> HIDE DEF S
  <2>1. \A n \in 0 .. (N + 1) - 1 : n \in S => n + 1 \in S
    BY <1>3
  <2>2. 0 .. N + 1 \subseteq S
    BY <1>2, <2>1, UpTo
  <2> QED BY <2>2
<1>5. PICK w \in [K -> Seq(K)] : Up(w, N + 1)
  BY <1>4
<1>6. \A x \in K : w[x] = Chain(known, w, x)
  BY <1>1, <1>5
<1>7. w = [x \in K |-> Chain(known, w, x)]
  <2>1. w = [x \in K |-> w[x]]
    OBVIOUS
  <2> QED BY <1>6, <2>1
<1> QED BY <1>7

LEMMA ChainsLined ==
  ASSUME NEW known, NEW N \in Nat, NEW rank \in [DOMAIN known -> 0 .. N], BredEarlier(known, rank),
         NEW w, w = [x \in DOMAIN known |-> Chain(known, w, x)]
  PROVE  \A x \in DOMAIN known : Lined(known, w[x], x)
<1> DEFINE K == DOMAIN known
           S == {n \in 0 .. N + 1 : \A x \in K : rank[x] < n => Lined(known, w[x], x) /\ NotLater(rank, w[x], x)}
<1>1. /\ rank \in [K -> Nat] /\ \A x \in K : rank[x] \in 0 .. N
      /\ \A x \in K : w[x] = Chain(known, w, x)
  OBVIOUS
<1>2. 0 \in S
  <2>1. \A x \in K : ~(rank[x] < 0)
    BY <1>1
  <2> QED BY <2>1
<1>3. ASSUME NEW n \in 0 .. N, n \in S PROVE n + 1 \in S
  <2>1. ASSUME NEW x \in K, rank[x] < n + 1 PROVE Lined(known, w[x], x) /\ NotLater(rank, w[x], x)
    <3>1. ASSUME NEW k \in DOMAIN known[x].parents
          PROVE  LET p == known[x].parents[k] IN Lined(known, w[p], p) /\ NotLater(rank, w[p], p)
      <4>1. known[x].parents[k] \in K /\ rank[known[x].parents[k]] < rank[x]
        BY DEF BredEarlier
      <4>2. rank[known[x].parents[k]] < n
        BY <1>1, <2>1, <4>1
      <4> QED BY <1>3, <4>1, <4>2
    <3>2. Lined(known, Chain(known, w, x), x) /\ NotLater(rank, Chain(known, w, x), x)
      BY <1>1, <3>1, ChainLined
    <3> QED BY <1>1, <3>2
  <2> QED BY <2>1
<1>4. N + 1 \in S
  <2> HIDE DEF S
  <2>1. \A n \in 0 .. (N + 1) - 1 : n \in S => n + 1 \in S
    BY <1>3
  <2>2. 0 .. N + 1 \subseteq S
    BY <1>2, <2>1, UpTo
  <2> QED BY <2>2
<1> QED BY <1>1, <1>4

\* lineage() of an experiment.
LEMMA AncestryLined ==
  ASSUME NEW known, NEW N \in Nat, NEW rank \in [DOMAIN known -> 0 .. N], BredEarlier(known, rank),
         NEW e \in DOMAIN known
  PROVE  Lined(known, Ancestry(known, e), e)
<1>1. Lineages(known) = CHOOSE w : w = [x \in DOMAIN known |-> Chain(known, w, x)]
  BY DEF Lineages
<1>2. \E w : w = [x \in DOMAIN known |-> Chain(known, w, x)]
  BY ChainsThere
<1>3. Lineages(known) = [x \in DOMAIN known |-> Chain(known, Lineages(known), x)]
  BY <1>1, <1>2, Zenon
<1> HIDE DEF Lineages
<1>4. \A x \in DOMAIN known : Lined(known, Lineages(known)[x], x)
  BY <1>3, ChainsLined
<1> QED BY <1>4 DEF Ancestry

-----------------------------------------------------------------------------
\* Generation by generation: who is on file has its parents on file, in an earlier
\* one, and who has been appended is on file.  A line that is torn takes nobody's
\* parents away: with it nothing can be read any more.

FiledBefore(fs, e, f) == \E g \in Files : g < f /\ \E j \in DOMAIN fs[g] : fs[g][j].record.id = e

Rooted ==
  Readable(files) =>
    /\ \A f \in Files : \A i \in DOMAIN files[f] : \A k \in DOMAIN files[f][i].record.parents :
         FiledBefore(files, files[f][i].record.parents[k], f)
    /\ \A x \in DOMAIN mine : \E j \in DOMAIN files[mine[x]] : files[mine[x]][j].record.id = x

LEMMA WriteRoots ==
  ASSUME LedgerInv, Rooted, NEW f \in Files, NEW line \in Lines, Due(f, line),
         files' = Written(f, line),
         ~Garbled(line) /\ Readable(files) =>
           \A k \in DOMAIN line.record.parents : FiledBefore(files, line.record.parents[k], f),
         \A x \in DOMAIN mine' : \/ x \in DOMAIN mine /\ mine'[x] = mine[x]
                                 \/ x = line.record.id /\ mine'[x] = f
  PROVE  Rooted'
<1> SUFFICES ASSUME Readable(files')
             PROVE  /\ \A g \in Files : \A i \in DOMAIN files'[g] : \A k \in DOMAIN files'[g][i].record.parents :
                         FiledBefore(files', files'[g][i].record.parents[k], g)
                    /\ \A x \in DOMAIN mine' : \E j \in DOMAIN files'[mine'[x]] : files'[mine'[x]][j].record.id = x
  BY DEF Rooted
<1>1. /\ files \in [Files -> Seq(Lines)] /\ OneFile(files) /\ ClosedInside(files)
      /\ DOMAIN mine \subseteq Experiments /\ \A e \in DOMAIN mine : mine[e] \in Files
  BY LedgerTypes DEF LedgerInv
<1>2. /\ Readable(files) /\ ~Garbled(line)
      /\ files' = [files EXCEPT ![f] = Append(files[f], line)]
  BY <1>1, WrittenInOrder DEF Due
<1> DEFINE n == Len(files[f])
<1>3. /\ n \in Nat /\ DOMAIN files'[f] = 1 .. n + 1 /\ DOMAIN files[f] = 1 .. n
      /\ files'[f][n + 1] = line /\ \A i \in 1 .. n : files'[f][i] = files[f][i]
      /\ \A g \in Files : g # f => files'[g] = files[g]
  BY <1>1, <1>2
<1> HIDE DEF n
<1>4. \A g \in Files : \A i \in DOMAIN files[g] : i \in DOMAIN files'[g] /\ files'[g][i] = files[g][i]
  <2> SUFFICES ASSUME NEW g \in Files, NEW i \in DOMAIN files[g]
               PROVE  i \in DOMAIN files'[g] /\ files'[g][i] = files[g][i]
    OBVIOUS
  <2>1. CASE g = f
    BY <1>3, <2>1
  <2>2. CASE g # f
    BY <1>3, <2>2
  <2> QED BY <2>1, <2>2
<1>5. \A e, g : FiledBefore(files, e, g) => FiledBefore(files', e, g)
  <2> SUFFICES ASSUME NEW e, NEW g, FiledBefore(files, e, g) PROVE FiledBefore(files', e, g)
    OBVIOUS
  <2>1. PICK h \in Files : h < g /\ \E j \in DOMAIN files[h] : files[h][j].record.id = e
    BY DEF FiledBefore
  <2>2. PICK j \in DOMAIN files[h] : files[h][j].record.id = e
    BY <2>1
  <2>3. j \in DOMAIN files'[h] /\ files'[h][j].record.id = e
    BY <1>4, <2>2
  <2> QED BY <2>1, <2>3 DEF FiledBefore
<1>6. ASSUME NEW g \in Files, NEW i \in DOMAIN files'[g], NEW k \in DOMAIN files'[g][i].record.parents
      PROVE  FiledBefore(files', files'[g][i].record.parents[k], g)
  <2>1. CASE g = f /\ i = n + 1
    <3>1. files'[g][i] = line
      BY <1>3, <2>1
    <3>2. FiledBefore(files, line.record.parents[k], f)
      BY <1>2, <1>6, <3>1
    <3> QED BY <1>5, <2>1, <3>1, <3>2
  <2>2. CASE ~(g = f /\ i = n + 1)
    <3>1. i \in DOMAIN files[g] /\ files'[g][i] = files[g][i]
      <4>1. CASE g = f
        BY <1>3, <2>2, <4>1
      <4>2. CASE g # f
        BY <1>3, <4>2
      <4> QED BY <4>1, <4>2
    <3>2. FiledBefore(files, files[g][i].record.parents[k], g)
      BY <1>2, <1>6, <3>1 DEF Rooted
    <3> QED BY <1>5, <3>1, <3>2
  <2> QED BY <2>1, <2>2
<1>7. ASSUME NEW x \in DOMAIN mine' PROVE \E j \in DOMAIN files'[mine'[x]] : files'[mine'[x]][j].record.id = x
  <2>1. CASE x \in DOMAIN mine /\ mine'[x] = mine[x]
    <3>1. PICK j \in DOMAIN files[mine[x]] : files[mine[x]][j].record.id = x
      BY <1>2, <2>1 DEF Rooted
    <3>2. j \in DOMAIN files'[mine[x]] /\ files'[mine[x]][j] = files[mine[x]][j]
      BY <1>1, <1>4, <2>1
    <3> QED BY <2>1, <3>1, <3>2
  <2>2. CASE x = line.record.id /\ mine'[x] = f
    <3>1. n + 1 \in DOMAIN files'[f] /\ files'[f][n + 1].record.id = x
      BY <1>3, <2>2
    <3> QED BY <2>2, <3>1
  <2> QED BY <2>1, <2>2
<1> QED BY <1>6, <1>7

\* A new experiment's parents were appended by this process, to earlier files.
LEMMA NewIsRooted ==
  ASSUME LedgerInv, Rooted, Readable(files), NEW g \in Files, NEW record \in NewRecords(g)
  PROVE  \A k \in DOMAIN record.parents : FiledBefore(files, record.parents[k], g)
<1> SUFFICES ASSUME NEW k \in DOMAIN record.parents PROVE FiledBefore(files, record.parents[k], g)
  OBVIOUS
<1> DEFINE elders == {x \in DOMAIN mine : mine[x] < g}
<1>1. PICK e \in {x \in Experiments : acked[x] = 0} \ (DOMAIN mine \cup Known(files)),
           ps \in SeqOf(elders, 2) : record = [id |-> e, parents |-> ps, version |-> 1]
  BY DEF NewRecords
<1>2. PICK m \in 0 .. 2 : ps \in [1 .. m -> elders]
  BY DEF SeqOf
<1>3. record.parents[k] \in elders
  BY <1>1, <1>2
<1>4. mine[record.parents[k]] \in Files
  BY <1>3, LedgerTypes DEF LedgerInv
<1>5. \E j \in DOMAIN files[mine[record.parents[k]]] : files[mine[record.parents[k]]][j].record.id = record.parents[k]
  BY <1>3 DEF Rooted
<1> QED BY <1>3, <1>4, <1>5 DEF FiledBefore

\* The record that counts is a line of the experiment's file.
LEMMA LastIsFiled ==
  ASSUME files \in [Files -> Seq(Lines)], OneFile(files), NEW e \in Experiments, e \in Known(files)
  PROVE  /\ FileOf(e) \in Files
         /\ \E i \in DOMAIN files[FileOf(e)] : files[FileOf(e)][i].record = ReadAll(files)[e]
         /\ \A g \in Files : \A j \in DOMAIN files[g] : files[g][j].record.id = e => g = FileOf(e)
<1>1. PICK f \in Files : \E i \in DOMAIN files[f] : LastOn(files, e, f, i)
  BY KnownHasLast
<1>2. PICK i \in DOMAIN files[f] : LastOn(files, e, f, i)
  BY <1>1
<1>3. Reads(files, e, f, i)
  BY <1>2, LastLineRead
<1>4. \E j \in DOMAIN files[f] : files[f][j].record.id = e
  BY <1>2 DEF LastOn
<1>5. FileOf(e) \in Files /\ \E j \in DOMAIN files[FileOf(e)] : files[FileOf(e)][j].record.id = e
  BY <1>4, Zenon DEF FileOf
<1>6. \A g \in Files : \A j \in DOMAIN files[g] : files[g][j].record.id = e => g = f
  BY <1>2 DEF LastOn
<1>7. FileOf(e) = f
  BY <1>5, <1>6
<1> QED BY <1>3, <1>6, <1>7 DEF Reads

LEMMA NextIsRooted ==
  ASSUME LedgerInv, Rooted, NEW e \in Experiments, Updatable(e)
  PROVE  \A k \in DOMAIN NextVersion(e).parents : FiledBefore(files, NextVersion(e).parents[k], FileOf(e))
<1> DEFINE last == ReadAll(files)[e]
<1>1. files \in [Files -> Seq(Lines)] /\ OneFile(files) /\ e \in Known(files) /\ Readable(files)
  BY LedgerTypes DEF LedgerInv, Updatable
<1>2. last \in Records
  BY <1>1, VersionRead
<1>3. NextVersion(e).parents = last.parents
  <2>1. NextVersion(e) = [last EXCEPT !.version = last.version + 1]
    BY DEF NextVersion
  <2> HIDE DEF last
  <2> QED BY <1>2, <2>1 DEF Records
<1>4. FileOf(e) \in Files /\ \E i \in DOMAIN files[FileOf(e)] : files[FileOf(e)][i].record = last
  BY <1>1, LastIsFiled
<1> HIDE DEF last
<1>5. PICK i \in DOMAIN files[FileOf(e)] : files[FileOf(e)][i].record = last
  BY <1>4
<1> QED BY <1>1, <1>3, <1>4, <1>5 DEF Rooted

LEMMA RootedStep ==
  ASSUME LedgerInv, Rooted, [LedgerNext]_ledgerVars
  PROVE  Rooted'
<1>1. ASSUME NEW g \in Files, NEW record \in NewRecords(g), AppendRecord(g, record)
      PROVE  Rooted'
  <2>1. /\ record \in Records /\ record.id \in Experiments
        /\ Line(record, TRUE) \in Lines /\ Line(record, TRUE).record = record /\ Due(g, Line(record, TRUE))
    BY NewIsDue
  <2>2. /\ files' = Written(g, Line(record, TRUE))
        /\ mine' = [x \in DOMAIN mine \cup {record.id} |-> IF x = record.id THEN g ELSE mine[x]]
    BY <1>1 DEF AppendRecord
  <2>3. \A x \in DOMAIN mine' : \/ x \in DOMAIN mine /\ mine'[x] = mine[x]
                                \/ x = Line(record, TRUE).record.id /\ mine'[x] = g
    BY <2>1, <2>2
  <2>4. Readable(files) => \A k \in DOMAIN record.parents : FiledBefore(files, record.parents[k], g)
    BY NewIsRooted
  <2> QED BY <2>1, <2>2, <2>3, <2>4, WriteRoots
<1>2. ASSUME NEW f \in Files, NEW line \in Lines, Due(f, line), Die(f, line),
             ~Garbled(line) /\ Readable(files) =>
               \A k \in DOMAIN line.record.parents : FiledBefore(files, line.record.parents[k], f)
      PROVE  Rooted'
  <2>1. files' = Written(f, line) /\ DOMAIN mine' = {}
    BY <1>2 DEF Die
  <2> QED BY <1>2, <2>1, WriteRoots
<1>3. Line(NoRecord, FALSE) \in Lines /\ Garbled(Line(NoRecord, FALSE))
  BY DEF Lines, Line, Garbled
<1>4. ASSUME NEW g \in Files, NEW record \in NewRecords(g), DieAppending(g, record)
      PROVE  Rooted'
  <2>1. PICK r \in {record, NoRecord} : Die(g, Line(r, FALSE))
    BY <1>4 DEF DieAppending
  <2>2. CASE r = NoRecord
    BY <1>2, <1>3, <2>1, <2>2 DEF Due
  <2>3. CASE r = record
    <3>1. Line(record, FALSE) \in Lines /\ Line(record, FALSE).record = record /\ Due(g, Line(record, FALSE))
      BY NewIsDue
    <3>2. Readable(files) => \A k \in DOMAIN record.parents : FiledBefore(files, record.parents[k], g)
      BY NewIsRooted
    <3> QED BY <1>2, <2>1, <2>3, <3>1, <3>2
  <2> QED BY <2>2, <2>3
<1>5. ASSUME NEW e \in Experiments, UpdateStatus(e) PROVE Rooted'
  <2>1. Updatable(e) /\ files' = Written(FileOf(e), Line(NextVersion(e), TRUE)) /\ mine' = mine
    BY <1>5 DEF UpdateStatus
  <2>2. /\ FileOf(e) \in Files /\ Line(NextVersion(e), TRUE) \in Lines
        /\ Line(NextVersion(e), TRUE).record = NextVersion(e)
        /\ Due(FileOf(e), Line(NextVersion(e), TRUE))
    BY <2>1, NextIsDue
  <2>3. \A k \in DOMAIN NextVersion(e).parents : FiledBefore(files, NextVersion(e).parents[k], FileOf(e))
    BY <2>1, NextIsRooted
  <2> QED BY <2>1, <2>2, <2>3, WriteRoots
<1>6. ASSUME NEW e \in Experiments, DieUpdating(e) PROVE Rooted'
  <2>1. Updatable(e)
    BY <1>6 DEF DieUpdating
  <2>2. PICK r \in {NextVersion(e), NoRecord} : Die(FileOf(e), Line(r, FALSE))
    BY <1>6 DEF DieUpdating
  <2>3. /\ FileOf(e) \in Files /\ Line(NextVersion(e), FALSE) \in Lines
        /\ Line(NextVersion(e), FALSE).record = NextVersion(e)
        /\ Due(FileOf(e), Line(NextVersion(e), FALSE))
    BY <2>1, NextIsDue
  <2>4. CASE r = NoRecord
    BY <1>2, <1>3, <2>2, <2>3, <2>4 DEF Due
  <2>5. CASE r = NextVersion(e)
    <3>1. \A k \in DOMAIN NextVersion(e).parents : FiledBefore(files, NextVersion(e).parents[k], FileOf(e))
      BY <2>1, NextIsRooted
    <3> QED BY <1>2, <2>2, <2>3, <2>5, <3>1
  <2> QED BY <2>4, <2>5
<1>7. CASE DieIdle
  <2>1. files' = files /\ DOMAIN mine' = {}
    BY <1>7 DEF DieIdle
  <2> QED BY <2>1 DEF Rooted
<1>8. CASE Reopen \/ UNCHANGED ledgerVars
  <2>1. files' = files /\ mine' = mine
    BY <1>8 DEF Reopen, ledgerVars
  <2> QED BY <2>1 DEF Rooted
<1> QED BY <1>1, <1>4, <1>5, <1>6, <1>7, <1>8 DEF LedgerNext

\* With parents in earlier files, lineages are in order.
LEMMA RootedInOrder ==
  ASSUME LedgerInv, Rooted
  PROVE  LineageInOrder
<1> DEFINE known == ReadAll(files)
           rank == [e \in DOMAIN known |-> FileOf(e)]
<1> SUFFICES ASSUME Readable(files), NEW e \in DOMAIN known
             PROVE  LET chain == Ancestry(known, e)
                        Before(i) == {chain[j] : j \in 1 .. i - 1}
                    IN  /\ Last(chain) = e
                        /\ IsInjective(chain)
                        /\ \A i \in DOMAIN chain : ToSet(known[chain[i]].parents) \subseteq Before(i)
  BY DEF LineageInOrder
<1>1. files \in [Files -> Seq(Lines)] /\ OneFile(files)
  BY LedgerTypes DEF LedgerInv
<1>2. DOMAIN known = Known(files)
  BY DEF ReadAll
<1>3. \A x \in Known(files) : x \in Experiments
  <2> SUFFICES ASSUME NEW x \in Known(files) PROVE x \in Experiments
    OBVIOUS
  <2>1. PICK p \in Places(files) : LineAt(files, p).record.id = x
    BY DEF Known
  <2>2. PICK f \in Files : \E i \in DOMAIN files[f] : p = <<f, i>>
    BY PlacesAre
  <2>3. PICK i \in DOMAIN files[f] : p = <<f, i>>
    BY <2>2
  <2>4. LineAt(files, p) = files[f][i] /\ ~Garbled(files[f][i]) /\ files[f][i] \in Lines
    BY <1>1, <2>3, PlacesAre DEF Readable
  <2> QED BY <2>1, <2>4, LinesTell
<1>4. \A x \in DOMAIN known :
        /\ FileOf(x) \in Files
        /\ \E i \in DOMAIN files[FileOf(x)] : files[FileOf(x)][i].record = known[x]
        /\ \A g \in Files : \A j \in DOMAIN files[g] : files[g][j].record.id = x => g = FileOf(x)
  BY <1>1, <1>2, <1>3, LastIsFiled
<1>5. \A x \in DOMAIN known : known[x] \in Records
  BY <1>1, <1>2, <1>3, VersionRead
<1> HIDE DEF known
<1>6. rank \in [DOMAIN known -> 0 .. LastGeneration] /\ LastGeneration \in Nat
  BY <1>4, LedgerAssumption DEF Files
<1>7. ASSUME NEW x \in DOMAIN known, NEW k \in DOMAIN known[x].parents
      PROVE  known[x].parents[k] \in DOMAIN known /\ FileOf(known[x].parents[k]) < FileOf(x)
  <2> DEFINE p == known[x].parents[k]
  <2>1. PICK i \in DOMAIN files[FileOf(x)] : files[FileOf(x)][i].record = known[x]
    BY <1>4
  <2>2. FiledBefore(files, p, FileOf(x))
    BY <1>4, <1>7, <2>1 DEF Rooted
  <2>3. PICK g \in Files : g < FileOf(x) /\ \E j \in DOMAIN files[g] : files[g][j].record.id = p
    BY <2>2 DEF FiledBefore
  <2>4. PICK j \in DOMAIN files[g] : files[g][j].record.id = p
    BY <2>3
  <2> HIDE DEF p
  <2>5. <<g, j>> \in Places(files) /\ LineAt(files, <<g, j>>).record.id = p
    BY <2>4, PlacesAre
  <2>6. p \in DOMAIN known
    BY <1>2, <2>5 DEF Known
  <2>7. g = FileOf(p)
    BY <1>4, <2>4, <2>6
  <2> QED BY <2>3, <2>6, <2>7 DEF p
<1>8. BredEarlier(known, rank)
  <2> SUFFICES ASSUME NEW x \in DOMAIN known
               PROVE  /\ known[x].parents \in Seq(DOMAIN known)
                      /\ \A k \in DOMAIN known[x].parents : rank[known[x].parents[k]] < rank[x]
    BY DEF BredEarlier
  <2>1. known[x].parents \in Seq(Experiments)
    BY <1>5 DEF Records
  <2>2. \A k \in DOMAIN known[x].parents : known[x].parents[k] \in DOMAIN known
    BY <1>7
  <2>3. known[x].parents \in Seq(DOMAIN known)
    <3>1. /\ Len(known[x].parents) \in Nat
          /\ known[x].parents = [k \in 1 .. Len(known[x].parents) |-> known[x].parents[k]]
          /\ DOMAIN known[x].parents = 1 .. Len(known[x].parents)
      BY <2>1
    <3>2. known[x].parents \in [1 .. Len(known[x].parents) -> DOMAIN known]
      BY <2>2, <3>1
    <3> QED BY <3>1, <3>2
  <2> QED BY <1>7, <2>3
<1> HIDE DEF rank
<1>9. Lined(known, Ancestry(known, e), e)
  BY <1>6, <1>8, AncestryLined
<1> DEFINE chain == Ancestry(known, e)
<1> HIDE DEF chain
<1>10. /\ chain # << >> /\ chain[Len(chain)] = e
       /\ \A i, j \in DOMAIN chain : i # j => chain[i] # chain[j]
       /\ \A i \in DOMAIN chain : \A k \in DOMAIN known[chain[i]].parents :
            \E j \in 1 .. i - 1 : chain[j] = known[chain[i]].parents[k]
  BY <1>9 DEF Lined, chain
<1>11. Last(chain) = e
  BY <1>10 DEF Last
<1>12. IsInjective(chain)
  BY <1>10 DEF IsInjective
<1>13. \A i \in DOMAIN chain : ToSet(known[chain[i]].parents) \subseteq {chain[j] : j \in 1 .. i - 1}
  BY <1>10 DEF ToSet
<1> QED BY <1>11, <1>12, <1>13 DEF chain

\* ExperimentLedger: however often a status is updated, a process dies in the middle
\* of a line and another one takes over, whoever can read the ledger finds the last
\* version of all that was written, nothing older than anybody has found, and the
\* lineage of every experiment, its ancestors once each and before their descendants.
THEOREM LedgerHolds == LedgerSpec => []LedgerSound
<1>1. LedgerInit => LedgerInv /\ Rooted
  <2>1. LedgerInit => Rooted
    BY DEF LedgerInit, Rooted
  <2> QED BY <2>1, LedgerInitially
<1>2. LedgerInv /\ Rooted /\ [LedgerNext]_ledgerVars => Rooted'
  BY RootedStep
<1>3. LedgerInv /\ Rooted => LedgerSound
  BY RootedInOrder DEF LedgerInv, LedgerSound
<1> QED BY <1>1, <1>2, <1>3, LedgerInvariance, PTL DEF LedgerSpec

-----------------------------------------------------------------------------
(***************************************************************************)
(* Selection.  The survivors are ranked without gaps and without ties, so  *)
(* that the best of them is always among the k best.                       *)
(***************************************************************************)

\* Survivors are finitely many.
LEMMA SurvivorsFinite ==
  ASSUME NEW cs \in Seq(Assessed)
  PROVE  /\ IsFiniteSet(Survivors(cs)) /\ Cardinality(Survivors(cs)) \in Nat
         /\ Survivors(cs) \subseteq 1 .. Len(cs)
         /\ \A i \in Survivors(cs) : /\ i \in DOMAIN cs /\ i \in Nat
                                     /\ cs[i] \in Assessed /\ cs[i].score \in Nat
<1>1. Len(cs) \in Int /\ 1 \in Int /\ DOMAIN cs = 1 .. Len(cs)
  OBVIOUS
<1>2. Survivors(cs) \subseteq 1 .. Len(cs)
  BY <1>1 DEF Survivors
<1>3. IsFiniteSet(Survivors(cs))
  BY <1>1, <1>2, FS_Interval, FS_Subset
<1>4. \A i \in Survivors(cs) : i \in DOMAIN cs /\ i \in Nat /\ cs[i] \in Assessed
  BY <1>1 DEF Survivors
<1>5. \A c \in Assessed : c.score \in Nat
  BY LoopAssumption DEF Assessed
<1> QED BY <1>2, <1>3, <1>4, <1>5, FS_CardinalityType

LEMMA BetterMeans ==
  ASSUME NEW cs, NEW i \in Survivors(cs), NEW j \in Survivors(cs)
  PROVE  <<i, j>> \in Better(cs) <=> \/ cs[i].score > cs[j].score
                                    \/ (cs[i].score = cs[j].score /\ i < j)
BY DEF Better

\* No two survivors tie: of equal scores the one met first is the better.
LEMMA BetterOrders ==
  ASSUME NEW cs \in Seq(Assessed)
  PROVE  Enumerates(InOrder(Survivors(cs), Better(cs)), Survivors(cs), Better(cs))
<1>1. /\ IsFiniteSet(Survivors(cs))
      /\ \A i \in Survivors(cs) : i \in Nat /\ cs[i].score \in Nat
  BY SurvivorsFinite
<1>2. \A i, j \in Survivors(cs) :
        <<i, j>> \in Better(cs) <=> \/ cs[i].score > cs[j].score
                                  \/ (cs[i].score = cs[j].score /\ i < j)
  BY BetterMeans
<1>3. \A i \in Survivors(cs) : <<i, i>> \notin Better(cs)
  BY <1>1, <1>2
<1>4. \A i, j, k \in Survivors(cs) :
        (<<i, j>> \in Better(cs) /\ <<j, k>> \in Better(cs)) => <<i, k>> \in Better(cs)
  <2> SUFFICES ASSUME NEW i \in Survivors(cs), NEW j \in Survivors(cs), NEW k \in Survivors(cs),
                      <<i, j>> \in Better(cs), <<j, k>> \in Better(cs)
               PROVE  <<i, k>> \in Better(cs)
    OBVIOUS
  <2>1. /\ i \in Nat /\ j \in Nat /\ k \in Nat
        /\ cs[i].score \in Nat /\ cs[j].score \in Nat /\ cs[k].score \in Nat
    BY <1>1
  <2>2. /\ cs[i].score > cs[j].score \/ (cs[i].score = cs[j].score /\ i < j)
        /\ cs[j].score > cs[k].score \/ (cs[j].score = cs[k].score /\ j < k)
    BY <1>2
  <2>3. cs[i].score > cs[k].score \/ (cs[i].score = cs[k].score /\ i < k)
    BY <2>1, <2>2
  <2> QED BY <1>2, <2>3
<1>5. \A i, j \in Survivors(cs) : i # j => (<<i, j>> \in Better(cs) \/ <<j, i>> \in Better(cs))
  BY <1>1, <1>2
<1>6. StrictOrder(Survivors(cs), Better(cs))
  BY <1>3, <1>4, <1>5 DEF StrictOrder
<1> QED BY <1>1, <1>6, InOrderEnumerates

\* Selection keeps at most k, each of them a survivor, and a survivor that no
\* other one beats.
LEMMA BestKept ==
  ASSUME NEW cs \in Seq(Assessed), NEW k \in Nat \ {0}
  PROVE  /\ Best(cs, k) \in Seq(Assessed) /\ Len(Best(cs, k)) <= k
         /\ \A n \in DOMAIN Best(cs, k) : \E i \in Survivors(cs) : Best(cs, k)[n] = cs[i]
         /\ Survivors(cs) # {} =>
              \E n \in DOMAIN Best(cs, k) :
                \A i \in Survivors(cs) : cs[i].score <= Best(cs, k)[n].score
<1> DEFINE alive == Survivors(cs)
           ranked == InOrder(alive, Better(cs))
           most == Min({k, Len(ranked)})
           best == Best(cs, k)
<1>1. /\ IsFiniteSet(alive)
      /\ \A i \in alive : i \in Nat /\ cs[i] \in Assessed /\ cs[i].score \in Nat
  BY SurvivorsFinite
<1>2. Enumerates(ranked, alive, Better(cs))
  BY BetterOrders
<1>3. best = [n \in 1 .. most |-> cs[ranked[n]]]
  BY DEF Best
<1> HIDE DEF alive, ranked, best
<1>4. /\ ranked \in Seq(alive) /\ DOMAIN ranked = 1 .. Len(ranked)
      /\ \A i \in alive : \E n \in DOMAIN ranked : ranked[n] = i
      /\ \A m, n \in DOMAIN ranked : m < n => <<ranked[m], ranked[n]>> \in Better(cs)
  BY <1>2 DEF Enumerates
<1>5. most \in Nat /\ most <= k /\ most <= Len(ranked) /\ (Len(ranked) > 0 => most > 0)
  <2>1. Len(ranked) \in Nat /\ Len(ranked) \in Int /\ k \in Int
    BY <1>4
  <2>2. most = IF k <= Len(ranked) THEN k ELSE Len(ranked)
    BY <2>1, MinOfTwo
  <2> HIDE DEF most
  <2> QED BY <2>1, <2>2
<1> HIDE DEF most
<1>6. \A n \in 1 .. most : ranked[n] \in alive /\ best[n] = cs[ranked[n]] /\ best[n] \in Assessed
  BY <1>1, <1>3, <1>4, <1>5
<1>7. DOMAIN best = 1 .. most /\ best \in [1 .. most -> Assessed]
  BY <1>3, <1>6
<1>8. best \in Seq(Assessed) /\ Len(best) = most
  BY <1>5, <1>7
<1>9. ASSUME alive # {}
      PROVE  \E n \in DOMAIN best : \A i \in alive : cs[i].score <= best[n].score
  <2>1. Len(ranked) > 0
    BY <1>4, <1>9
  <2>2. 1 \in DOMAIN best /\ 1 \in DOMAIN ranked /\ best[1] = cs[ranked[1]]
    BY <1>4, <1>5, <1>6, <1>7, <2>1
  <2>3. ASSUME NEW i \in alive PROVE cs[i].score <= best[1].score
    <3>1. PICK n \in DOMAIN ranked : ranked[n] = i
      BY <1>4
    <3>2. CASE n = 1
      BY <1>1, <2>2, <3>1, <3>2
    <3>3. CASE n # 1
      <4>1. 1 < n
        BY <1>4, <3>1, <3>3
      <4>2. <<ranked[1], i>> \in Better(cs)
        BY <1>4, <2>2, <3>1, <4>1
      <4>3. ranked[1] \in alive
        BY <1>4, <2>2
      <4>4. \/ cs[ranked[1]].score > cs[i].score
            \/ (cs[ranked[1]].score = cs[i].score /\ ranked[1] < i)
        BY <4>2, <4>3, BetterMeans DEF alive
      <4>5. cs[ranked[1]].score \in Nat /\ cs[i].score \in Nat
        BY <1>1, <4>3
      <4> QED BY <2>2, <4>4, <4>5
    <3> QED BY <3>2, <3>3
  <2> QED BY <2>2, <2>3
<1> QED BY <1>5, <1>6, <1>7, <1>8, <1>9 DEF alive, best

-----------------------------------------------------------------------------
(***************************************************************************)
(* The inductive invariant.  The properties speak of complete generations  *)
(* and of books in order; in the middle of a batch the best score may be   *)
(* of a candidate that is not in the population yet, a breach may have     *)
(* gone unnoticed for the candidates since, and the generation under way   *)
(* has not been ticked.                                                    *)
(***************************************************************************)

\* What awaits its assessment.
Unborn == [id : CandidateNames, parents : SUBSET CandidateNames]

AliveScores(cs) == {cs[i].score : i \in Survivors(cs)}

\* A score that tops others, or -1 where there are none.
Tops(x, scores) == x \in {-1} \cup scores /\ \A y \in {-1} \cup scores : y <= x

\* The best score is one of the population or of the batch.
FinestTracked == Tops(finest, AliveScores(population) \cup AliveScores(assessed))

\* Between generations no assessment is open.
NoneOpen == pc \in {"poll", "completed", "budget_exhausted"} => assessed = << >>

\* Generation 0 is assessed as a whole, before there is a population.
SeedingWhole ==
  pc = "assess" /\ gen = 0 =>
    Len(batch) + Len(assessed) = PopulationSize /\ population = << >>

AssessedOnFile ==
  pc = "assess" => \A i \in DOMAIN assessed : assessed[i].id \in recorded

\* What was spent beyond the ceiling was spent on the batch under way.
OvershootOfBatch == pc = "assess" => spent <= RunLimit + Len(assessed) * MaxCost

\* A generation is ticked when it is over.
TicksFollow ==
  trip = "none" => /\ pc = "poll" => started = gen
                   /\ pc = "assess" => started = IF gen = 0 THEN 0 ELSE gen - 1

LoopInv ==
  /\ EvolutionSound
  /\ batch \in Seq(Unborn)
  /\ FinestTracked /\ NoneOpen /\ SeedingWhole /\ AssessedOnFile
  /\ OvershootOfBatch /\ TicksFollow

-----------------------------------------------------------------------------
\* Lemmas about its operators.

LEMMA Products ==
  ASSUME NEW n \in Nat, NEW p \in Nat, NEW c \in Nat, n <= p
  PROVE  n * c <= p * c /\ n * c \in Nat /\ p * c \in Nat /\ (n + 1) * c = n * c + c
<1>1. PICK d \in Nat : p = n + d
  <2>1. p - n \in Nat /\ p = n + (p - n)
    OBVIOUS
  <2> QED BY <2>1
<1>2. p * c = n * c + d * c
  BY <1>1
<1>3. n * c \in Nat /\ d * c \in Nat /\ p * c \in Nat
  OBVIOUS
<1>4. (n + 1) * c = n * c + c
  OBVIOUS
<1> QED BY <1>2, <1>3, <1>4

\* Scores of the living are numbers.
LEMMA AliveAreScores ==
  ASSUME NEW cs \in Seq(Assessed)
  PROVE  AliveScores(cs) \subseteq 0 .. MaxScore
<1>1. \A i \in DOMAIN cs : cs[i] \in Assessed
  OBVIOUS
<1>2. \A i \in DOMAIN cs : cs[i].score \in 0 .. MaxScore
  BY <1>1 DEF Assessed
<1> QED BY <1>2 DEF AliveScores, Survivors

\* A candidate that survives adds its score.
LEMMA AliveAppend ==
  ASSUME NEW cs \in Seq(Assessed), NEW c \in Assessed
  PROVE  /\ Append(cs, c) \in Seq(Assessed) /\ Len(Append(cs, c)) = Len(cs) + 1
         /\ \A i \in DOMAIN Append(cs, c) :
              Append(cs, c)[i] = c \/ (i \in DOMAIN cs /\ Append(cs, c)[i] = cs[i])
         /\ AliveScores(Append(cs, c)) =
              AliveScores(cs) \cup (IF c.verdict = "reject" THEN {} ELSE {c.score})
<1> DEFINE ds == Append(cs, c)
           n == Len(cs)
<1>1. /\ ds \in Seq(Assessed) /\ Len(ds) = n + 1 /\ n \in Nat
      /\ DOMAIN ds = 1 .. n + 1 /\ DOMAIN cs = 1 .. n
      /\ \A i \in 1 .. n : ds[i] = cs[i]
      /\ ds[n + 1] = c
  OBVIOUS
<1> HIDE DEF ds, n
<1>2. \A i \in DOMAIN ds : ds[i] = c \/ (i \in DOMAIN cs /\ ds[i] = cs[i])
  <2> SUFFICES ASSUME NEW i \in 1 .. n + 1 PROVE ds[i] = c \/ (i \in 1 .. n /\ ds[i] = cs[i])
    BY <1>1
  <2>1. i = n + 1 \/ i \in 1 .. n
    BY <1>1
  <2> QED BY <1>1, <2>1
<1>3. Survivors(ds) = Survivors(cs) \cup (IF c.verdict = "reject" THEN {} ELSE {n + 1})
  BY <1>1 DEF Survivors
<1>4. \A i \in Survivors(cs) : ds[i] = cs[i]
  BY <1>1 DEF Survivors
<1>5. AliveScores(ds) = AliveScores(cs) \cup (IF c.verdict = "reject" THEN {} ELSE {c.score})
  <2>1. CASE c.verdict = "reject"
    BY <1>3, <1>4, <2>1 DEF AliveScores
  <2>2. CASE c.verdict # "reject"
    <3>1. Survivors(ds) = Survivors(cs) \cup {n + 1}
      BY <1>3, <2>2
    <3> QED BY <1>1, <1>4, <2>2, <3>1 DEF AliveScores
  <2> QED BY <2>1, <2>2
<1> QED BY <1>1, <1>2, <1>5 DEF ds, n

\* Population and batch have the living of both.
LEMMA AliveConcat ==
  ASSUME NEW cs \in Seq(Assessed), NEW ds \in Seq(Assessed)
  PROVE  /\ cs \o ds \in Seq(Assessed)
         /\ \A i \in DOMAIN (cs \o ds) :
              \/ \E j \in DOMAIN cs : (cs \o ds)[i] = cs[j]
              \/ \E j \in DOMAIN ds : (cs \o ds)[i] = ds[j]
         /\ AliveScores(cs \o ds) = AliveScores(cs) \cup AliveScores(ds)
<1> DEFINE all == cs \o ds
           m == Len(cs)
           n == Len(ds)
<1>1. /\ all \in Seq(Assessed) /\ m \in Nat /\ n \in Nat
      /\ DOMAIN all = 1 .. m + n /\ DOMAIN cs = 1 .. m /\ DOMAIN ds = 1 .. n
      /\ \A i \in 1 .. m : all[i] = cs[i]
      /\ \A i \in 1 .. m + n : i > m => all[i] = ds[i - m]
  OBVIOUS
<1> HIDE DEF all, m, n
<1>2. \A j \in 1 .. n : j + m \in 1 .. m + n /\ all[j + m] = ds[j]
  BY <1>1
<1>3. \A i \in DOMAIN all : \/ i \in DOMAIN cs /\ all[i] = cs[i]
                            \/ i - m \in DOMAIN ds /\ all[i] = ds[i - m]
  BY <1>1
<1>4. AliveScores(all) \subseteq AliveScores(cs) \cup AliveScores(ds)
  BY <1>3 DEF AliveScores, Survivors
<1>5. AliveScores(cs) \subseteq AliveScores(all)
  <2> SUFFICES ASSUME NEW i \in Survivors(cs) PROVE cs[i].score \in AliveScores(all)
    BY DEF AliveScores
  <2>1. i \in 1 .. m /\ i \in 1 .. m + n /\ cs[i].verdict # "reject"
    BY <1>1 DEF Survivors
  <2>2. i \in DOMAIN all /\ all[i] = cs[i]
    BY <1>1, <2>1
  <2> QED BY <2>1, <2>2 DEF AliveScores, Survivors
<1>6. AliveScores(ds) \subseteq AliveScores(all)
  <2> SUFFICES ASSUME NEW j \in Survivors(ds) PROVE ds[j].score \in AliveScores(all)
    BY DEF AliveScores
  <2>1. j \in 1 .. n /\ ds[j].verdict # "reject"
    BY <1>1 DEF Survivors
  <2>2. j + m \in DOMAIN all /\ all[j + m] = ds[j]
    BY <1>1, <1>2, <2>1
  <2> QED BY <2>1, <2>2 DEF AliveScores, Survivors
<1> QED BY <1>1, <1>3, <1>4, <1>5, <1>6 DEF all

\* What tops the living tops the best of them.
LEMMA BestOnTop ==
  ASSUME NEW cs \in Seq(Assessed), NEW x, Tops(x, AliveScores(cs))
  PROVE  Tops(x, AliveScores(Best(cs, PopulationSize)))
<1> DEFINE best == Best(cs, PopulationSize)
<1>1. PopulationSize \in Nat \ {0}
  BY LoopAssumption
<1>2. /\ best \in Seq(Assessed)
      /\ \A n \in DOMAIN best : \E i \in Survivors(cs) : best[n] = cs[i]
      /\ Survivors(cs) # {} =>
           \E n \in DOMAIN best : \A i \in Survivors(cs) : cs[i].score <= best[n].score
  BY <1>1, BestKept
<1> HIDE DEF best
<1>3. \A n \in DOMAIN best : n \in Survivors(best) /\ best[n].score \in AliveScores(cs)
  BY <1>2 DEF Survivors, AliveScores
<1>4. AliveScores(best) \subseteq AliveScores(cs)
  BY <1>3 DEF AliveScores, Survivors
<1>5. AliveScores(cs) \subseteq Int
  BY AliveAreScores, LoopAssumption
<1>6. x \in {-1} \cup AliveScores(best)
  <2>1. CASE x = -1
    BY <2>1
  <2>2. CASE x \in AliveScores(cs)
    <3>1. Survivors(cs) # {}
      BY <2>2 DEF AliveScores
    <3>2. PICK n \in DOMAIN best : \A i \in Survivors(cs) : cs[i].score <= best[n].score
      BY <1>2, <3>1
    <3>3. x <= best[n].score /\ best[n].score \in AliveScores(cs)
      BY <1>3, <2>2, <3>2 DEF AliveScores
    <3>4. best[n].score <= x
      BY <3>3 DEF Tops
    <3>5. x = best[n].score
      BY <1>5, <2>2, <3>3, <3>4
    <3> QED BY <1>3, <3>5 DEF AliveScores
  <2> QED BY <2>1, <2>2 DEF Tops
<1> QED BY <1>4, <1>6 DEF Tops, best

\* The best score is the maximum where no assessment is open.
LEMMA EliteFromTops ==
  ASSUME NEW x, NEW scores \in SUBSET Int, Tops(x, scores)
  PROVE  x = Max({-1} \cup scores)
<1>1. {-1} \cup scores \in SUBSET Int
  OBVIOUS
<1> QED BY <1>1, IsMax DEF Tops

-----------------------------------------------------------------------------
(***************************************************************************)
(* Every action preserves it.                                              *)
(***************************************************************************)

LEMMA Constants ==
  /\ PopulationSize \in Nat /\ PopulationSize > 0 /\ PopulationSize \in Nat \ {0}
  /\ MaxGenerations \in Nat /\ ComputeLimit \in Nat /\ RunLimit \in Nat /\ DailyLimit \in Nat
  /\ MaxScore \in Nat /\ MaxCost \in Nat /\ MaxCompute \in Nat
  /\ \A r \in Requests : r \in Nat /\ r > 0
BY LoopAssumption

\* Whatever is within the first n places of a generation is a candidate.
LEMMA CandidateIds ==
  ASSUME NEW r \in Requests, NEW g \in 0 .. r, NEW place \in 1 .. PopulationSize
  PROVE  [gen |-> g, place |-> place] \in CandidateNames
<1>1. g \in Generations
  BY DEF Generations
<1> QED BY <1>1 DEF CandidateNames

\* The books are in order as long as they are in order for each of their lines.
LEMMA BooksLineByLine ==
  ASSUME spent \in Nat, daySpend \in Nat,
         trip = "none" =>
           /\ runSpend = spent /\ spent <= RunLimit
           /\ daySpend <= spent /\ daySpend <= DailyLimit
           /\ \A g \in DOMAIN genCompute : genCompute[g] <= ComputeLimit
  PROVE  BooksAgree
BY Constants, MinOfTwo DEF BooksAgree

LEMMA LinesOfBooks ==
  ASSUME BooksAgree, spent \in Nat, daySpend \in Nat, trip = "none"
  PROVE  /\ runSpend = spent /\ spent <= RunLimit
         /\ daySpend <= spent /\ daySpend <= DailyLimit
         /\ \A g \in DOMAIN genCompute : genCompute[g] <= ComputeLimit
BY Constants, MinOfTwo DEF BooksAgree

\* A run begins with the books empty and the seeds to be assessed.
LEMMA LoopInit == Init => LoopInv
<1> SUFFICES ASSUME Init PROVE LoopInv
  OBVIOUS
<1>1. /\ requested \in Requests /\ pc = "assess" /\ gen = 0 /\ batch = Seeds
      /\ assessed = <<>> /\ population = <<>> /\ baseline = 0
      /\ trip = "none" /\ started = 0 /\ runSpend = 0 /\ daySpend = 0
      /\ genCompute = [g \in 0 .. MaxGenerations |-> 0]
      /\ recorded = {} /\ spent = 0 /\ finest = -1
  BY DEF Init
<1>2. requested \in Nat /\ requested > 0 /\ 0 \in 0 .. requested
  BY <1>1, Constants
<1>3. batch = [i \in 1 .. PopulationSize |-> [id |-> [gen |-> 0, place |-> i], parents |-> {}]]
  BY <1>1 DEF Seeds
<1>4. \A i \in 1 .. PopulationSize :
        /\ batch[i] = [id |-> [gen |-> 0, place |-> i], parents |-> {}]
        /\ batch[i] \in Unborn /\ batch[i].parents = {}
  <2> SUFFICES ASSUME NEW i \in 1 .. PopulationSize
               PROVE  /\ batch[i] = [id |-> [gen |-> 0, place |-> i], parents |-> {}]
                      /\ batch[i] \in Unborn /\ batch[i].parents = {}
    OBVIOUS
  <2>1. [gen |-> 0, place |-> i] \in CandidateNames
    BY <1>1, <1>2, CandidateIds
  <2>2. batch[i] = [id |-> [gen |-> 0, place |-> i], parents |-> {}]
    BY <1>3
  <2> QED BY <2>1, <2>2 DEF Unborn
<1>5. batch \in Seq(Unborn) /\ Len(batch) = PopulationSize /\ DOMAIN batch = 1 .. PopulationSize
  <2>1. batch \in [1 .. PopulationSize -> Unborn]
    BY <1>3, <1>4
  <2> QED BY <2>1, Constants
<1>6. AliveScores(population) \cup AliveScores(assessed) = {}
  BY <1>1 DEF AliveScores, Survivors
<1>7. FinestTracked
  BY <1>1, <1>6 DEF FinestTracked, Tops
<1>8. TypeOK
  <2>1. \A i \in DOMAIN batch : batch[i].id \in CandidateNames /\ batch[i].parents \subseteq CandidateNames
    BY <1>4, <1>5 DEF Unborn
  <2>2. Len(batch) + Len(assessed) <= PopulationSize + (IF pc = "raised" THEN 1 ELSE 0)
    BY <1>1, <1>5, Constants
  <2>3. genCompute \in [0 .. MaxGenerations -> Nat] /\ 0 \in 0 .. MaxGenerations /\ 0 \in 0 .. MaxScore
    BY <1>1, Constants
  <2>4. finest \in -1 .. MaxScore /\ Len(population) <= PopulationSize
    BY <1>1, Constants
  <2>5. population \in Seq(Assessed) /\ assessed \in Seq(Assessed)
    BY <1>1
  <2>6. {runSpend, daySpend, spent} \subseteq Nat /\ recorded \subseteq CandidateNames
    BY <1>1
  <2>7. /\ pc \in {"assess", "poll"} \cup Over /\ trip \in Ceilings \cup {"none"}
        /\ requested \in Requests /\ gen \in 0 .. requested /\ baseline \in 0 .. MaxScore
        /\ started \in 0 .. MaxGenerations
    BY <1>1, <1>2, <2>3
  <2> QED BY <2>1, <2>2, <2>3, <2>4, <2>5, <2>6, <2>7 DEF TypeOK
<1>9. EliteKept
  BY <1>1 DEF EliteKept
<1>10. BooksAgree
  BY <1>1, BooksLineByLine, Constants
<1>11. OvershootBounded /\ OvershootOfBatch
  <2>1. PopulationSize * MaxCost \in Nat /\ 0 * MaxCost = 0
    BY Constants, Products
  <2> QED BY <1>1, <2>1, Constants DEF OvershootBounded, OvershootOfBatch
<1>12. LineageOnFile
  BY <1>1, <1>4, <1>5 DEF LineageOnFile
<1>13. GenerationsWithinCeiling
  BY <1>1, Constants DEF GenerationsWithinCeiling
<1>14. NoneOpen /\ SeedingWhole /\ AssessedOnFile /\ TicksFollow
  BY <1>1, <1>5, Constants DEF NoneOpen, SeedingWhole, AssessedOnFile, TicksFollow
<1> QED BY <1>5, <1>7, <1>8, <1>9, <1>10, <1>11, <1>12, <1>13, <1>14 DEF LoopInv, EvolutionSound

\* A charge is booked in full until one breaches a ceiling, which trips the
\* guard for good.
LEMMA ChargeKeeps ==
  ASSUME LoopInv, NEW cost \in 0 .. MaxCost, NEW compute \in {0, MaxCompute},
         Charge(cost, compute), spent' = spent + cost
  PROVE  /\ {runSpend', daySpend', spent'} \subseteq Nat
         /\ genCompute' \in [0 .. MaxGenerations -> Nat]
         /\ trip' \in Ceilings \cup {"none"} /\ started' = started
         /\ trip' = "none" => trip = "none"
         /\ BooksAgree'
<1>1. /\ runSpend \in Nat /\ daySpend \in Nat /\ spent \in Nat
      /\ genCompute \in [0 .. MaxGenerations -> Nat] /\ started \in 0 .. MaxGenerations
      /\ trip \in Ceilings \cup {"none"} /\ BooksAgree
  BY DEF LoopInv, EvolutionSound, TypeOK
<1>2. cost \in Nat /\ compute \in Nat /\ spent' \in Nat
  BY <1>1, Constants
<1>3. CASE trip # "none"
  <2>1. UNCHANGED guard
    BY <1>3 DEF Charge
  <2>2. BooksAgree'
    BY <1>3, <2>1 DEF guard, BooksAgree
  <2> QED BY <1>1, <1>2, <1>3, <2>1, <2>2 DEF guard
<1>4. CASE trip = "none"
  <2> DEFINE overspent == cost > 0 /\ runSpend + cost > RunLimit
             overday == cost > 0 /\ daySpend + cost > DailyLimit
             overworked == compute > 0 /\ genCompute[started] + compute > ComputeLimit
  <2>1. /\ runSpend' = runSpend + cost /\ daySpend' = daySpend + cost
        /\ genCompute' = IF overspent \/ overday THEN genCompute
                         ELSE [genCompute EXCEPT ![started] = @ + compute]
        /\ trip' = IF overspent THEN "max_usd_per_run"
                   ELSE IF overday THEN "daily_usd_ceiling"
                   ELSE IF overworked THEN "max_compute_hours_per_gen"
                   ELSE "none"
        /\ started' = started
    BY <1>4 DEF Charge
  <2>2. /\ runSpend = spent /\ spent <= RunLimit
        /\ daySpend <= spent /\ daySpend <= DailyLimit
        /\ \A g \in DOMAIN genCompute : genCompute[g] <= ComputeLimit
    BY <1>1, <1>4, LinesOfBooks
  <2>3. runSpend' \in Nat /\ daySpend' \in Nat
    BY <1>1, <1>2, <2>1
  <2>4. genCompute[started] \in Nat /\ genCompute[started] + compute \in Nat
    BY <1>1, <1>2
  <2>5. genCompute' \in [0 .. MaxGenerations -> Nat]
    <3>1. [genCompute EXCEPT ![started] = genCompute[started] + compute] \in [0 .. MaxGenerations -> Nat]
      BY <1>1, <2>4
    <3> QED BY <1>1, <2>1, <3>1
  <2>6. trip' \in Ceilings \cup {"none"}
    BY <2>1 DEF Ceilings
  <2>7. ASSUME trip' = "none"
        PROVE  /\ runSpend' = spent' /\ spent' <= RunLimit
               /\ daySpend' <= spent' /\ daySpend' <= DailyLimit
               /\ \A g \in DOMAIN genCompute' : genCompute'[g] <= ComputeLimit
    <3>1. ~overspent /\ ~overday /\ ~overworked
      BY <2>1, <2>7
    <3>2. runSpend' = spent' /\ spent' <= RunLimit
      BY <1>1, <1>2, <2>1, <2>2, <3>1, Constants
    <3>3. daySpend' <= spent' /\ daySpend' <= DailyLimit
      BY <1>1, <1>2, <2>1, <2>2, <3>1, Constants
    <3>4. genCompute[started] + compute <= ComputeLimit
      BY <1>1, <1>2, <2>2, <2>4, <3>1, Constants
    <3>5. ASSUME NEW g \in DOMAIN genCompute' PROVE genCompute'[g] <= ComputeLimit
      <4>1. g \in 0 .. MaxGenerations /\ genCompute[g] <= ComputeLimit
        BY <1>1, <2>2, <2>5
      <4>2. genCompute'[g] = IF g = started THEN genCompute[started] + compute ELSE genCompute[g]
        BY <1>1, <2>1, <3>1, <4>1
      <4> QED BY <3>4, <4>1, <4>2
    <3> QED BY <3>2, <3>3, <3>5
  <2> HIDE DEF overspent, overday, overworked
  <2>8. BooksAgree'
    <3>1. /\ spent' \in Nat /\ daySpend' \in Nat
          /\ trip' = "none" =>
               /\ runSpend' = spent' /\ spent' <= RunLimit
               /\ daySpend' <= spent' /\ daySpend' <= DailyLimit
               /\ \A g \in DOMAIN genCompute' : genCompute'[g] <= ComputeLimit
      BY <1>2, <2>3, <2>7
    <3> QED BY <3>1, Constants, MinOfTwo DEF BooksAgree
  <2> QED BY <1>2, <1>4, <2>1, <2>3, <2>5, <2>6, <2>8
<1> QED BY <1>3, <1>4

\* A candidate is scored: it is charged, and its score counts if it survives,
\* before it is on file.
LEMMA Scored ==
  ASSUME LoopInv, NEW o \in Outcomes, ScoreNext(o)
  PROVE  /\ pc = "assess" /\ batch # << >> /\ Head(batch) \in Unborn
         /\ Len(batch) \in Nat /\ Len(batch) > 0 /\ Len(assessed) \in Nat
         /\ assessed' \in Seq(Assessed) /\ Len(assessed') = Len(assessed) + 1
         /\ \A i \in DOMAIN assessed' :
              \/ assessed'[i].id = Head(batch).id
              \/ \E j \in DOMAIN assessed : assessed'[i].id = assessed[j].id
         /\ {runSpend', daySpend', spent'} \subseteq Nat
         /\ genCompute' \in [0 .. MaxGenerations -> Nat]
         /\ trip' \in Ceilings \cup {"none"} /\ started' = started
         /\ trip' = "none" => trip = "none"
         /\ BooksAgree' /\ FinestTracked' /\ finest' \in -1 .. MaxScore
         /\ spent' <= RunLimit + Len(assessed') * MaxCost
         /\ spent' <= RunLimit + PopulationSize * MaxCost
         /\ UNCHANGED <<requested, gen, population, baseline>>
<1> DEFINE c == [id |-> Head(batch).id, score |-> o.score, verdict |-> o.verdict]
<1>1. /\ pc = "assess" /\ batch # << >> /\ assessed' = Append(assessed, c)
      /\ Charge(o.cost, o.compute) /\ spent' = spent + o.cost
      /\ finest' = IF o.verdict = "reject" THEN finest ELSE Max({finest, o.score})
      /\ UNCHANGED <<requested, gen, population, baseline>>
  BY DEF ScoreNext
<1>2. /\ batch \in Seq(Unborn) /\ assessed \in Seq(Assessed) /\ population \in Seq(Assessed)
      /\ finest \in -1 .. MaxScore /\ spent \in Nat
      /\ Len(batch) + Len(assessed) <= PopulationSize
      /\ FinestTracked /\ OvershootOfBatch
  <2>1. Len(batch) + Len(assessed) <= PopulationSize + (IF pc = "raised" THEN 1 ELSE 0)
    BY DEF LoopInv, EvolutionSound, TypeOK
  <2>2. batch \in Seq(Unborn) /\ assessed \in Seq(Assessed)
    BY DEF LoopInv, EvolutionSound, TypeOK
  <2>3. Len(batch) + Len(assessed) <= PopulationSize
    <3>1. pc # "raised"
      BY <1>1
    <3>2. PopulationSize + (IF pc = "raised" THEN 1 ELSE 0) = PopulationSize
      BY <3>1, Constants
    <3> QED BY <2>1, <3>2
  <2> QED BY <2>2, <2>3 DEF LoopInv, EvolutionSound, TypeOK
<1>3. /\ Head(batch) \in Unborn /\ Len(batch) \in Nat /\ Len(batch) > 0 /\ Len(assessed) \in Nat
  BY <1>1, <1>2
<1>4. /\ o.score \in 0 .. MaxScore /\ o.verdict \in Verdicts /\ o.cost \in 0 .. MaxCost
      /\ o.compute \in {0, MaxCompute}
  BY DEF Outcomes
<1>5. c \in Assessed /\ c.score = o.score /\ c.verdict = o.verdict /\ c.id = Head(batch).id
  BY <1>3, <1>4 DEF Assessed, Unborn
<1> HIDE DEF c
<1>6. /\ assessed' \in Seq(Assessed) /\ Len(assessed') = Len(assessed) + 1
      /\ \A i \in DOMAIN assessed' :
           assessed'[i] = c \/ (i \in DOMAIN assessed /\ assessed'[i] = assessed[i])
      /\ AliveScores(assessed') =
           AliveScores(assessed) \cup (IF c.verdict = "reject" THEN {} ELSE {c.score})
  BY <1>1, <1>2, <1>5, AliveAppend
<1>7. /\ {runSpend', daySpend', spent'} \subseteq Nat
      /\ genCompute' \in [0 .. MaxGenerations -> Nat]
      /\ trip' \in Ceilings \cup {"none"} /\ started' = started
      /\ trip' = "none" => trip = "none"
      /\ BooksAgree'
  BY <1>1, <1>4, ChargeKeeps
<1>8. FinestTracked' /\ finest' \in -1 .. MaxScore
  <2> DEFINE known == AliveScores(population) \cup AliveScores(assessed)
  <2>1. Tops(finest, known) /\ known \subseteq Int
    BY <1>2, AliveAreScores, Constants DEF FinestTracked
  <2>2. FinestTracked' <=> Tops(finest', AliveScores(population) \cup AliveScores(assessed'))
    BY <1>1 DEF FinestTracked
  <2>3. CASE o.verdict = "reject"
    <3>1. AliveScores(population) \cup AliveScores(assessed') = known /\ finest' = finest
      BY <1>1, <1>5, <1>6, <2>3
    <3> QED BY <1>2, <2>1, <2>2, <3>1
  <2>4. CASE o.verdict # "reject"
    <3>1. AliveScores(population) \cup AliveScores(assessed') = known \cup {o.score}
      BY <1>5, <1>6, <2>4
    <3>2. finest \in Int /\ o.score \in Int
      BY <1>2, <1>4, Constants
    <3>3. finest' = IF finest <= o.score THEN o.score ELSE finest
      BY <1>1, <2>4, <3>2, MaxOfTwo
    <3> HIDE DEF known
    <3>4. Tops(finest', known \cup {o.score})
      BY <2>1, <3>2, <3>3, <1>4, Constants DEF Tops
    <3>5. finest' \in -1 .. MaxScore
      BY <1>2, <1>4, <3>3, Constants
    <3> QED BY <2>2, <3>1, <3>4, <3>5
  <2> QED BY <2>3, <2>4
<1>9. /\ spent' <= RunLimit + Len(assessed') * MaxCost
      /\ spent' <= RunLimit + PopulationSize * MaxCost
  <2>1. spent <= RunLimit + Len(assessed) * MaxCost
    BY <1>1, <1>2 DEF OvershootOfBatch
  <2>2. /\ (Len(assessed) + 1) * MaxCost = Len(assessed) * MaxCost + MaxCost
        /\ Len(assessed) * MaxCost \in Nat
    BY <1>3, Constants, Products
  <2>3. o.cost <= MaxCost /\ o.cost \in Nat
    BY <1>4, Constants
  <2>4. spent' <= RunLimit + (Len(assessed) + 1) * MaxCost
    BY <1>1, <1>2, <2>1, <2>2, <2>3, Constants
  <2>5. Len(assessed) + 1 <= PopulationSize /\ Len(assessed) + 1 \in Nat
    BY <1>2, <1>3, Constants
  <2>6. /\ (Len(assessed) + 1) * MaxCost <= PopulationSize * MaxCost
        /\ (Len(assessed) + 1) * MaxCost \in Nat /\ PopulationSize * MaxCost \in Nat
    BY <2>5, Constants, Products
  <2>7. spent' \in Nat
    BY <1>7
  <2>8. spent' <= RunLimit + PopulationSize * MaxCost
    BY <2>4, <2>6, <2>7, Constants
  <2> QED BY <1>6, <2>4, <2>8
<1>10. \A i \in DOMAIN assessed' :
         \/ assessed'[i].id = Head(batch).id
         \/ \E j \in DOMAIN assessed : assessed'[i].id = assessed[j].id
  BY <1>5, <1>6
<1> QED BY <1>1, <1>3, <1>6, <1>7, <1>8, <1>9, <1>10

\* It goes on file.
LEMMA LoopAssess ==
  ASSUME LoopInv, NEW o \in Outcomes, Assess(o)
  PROVE  LoopInv'
<1>1. ScoreNext(o) /\ recorded' = recorded \cup {Head(batch).id} /\ batch' = Tail(batch) /\ pc' = pc
  BY DEF Assess
<1>2. /\ pc = "assess" /\ batch # << >> /\ Head(batch) \in Unborn
      /\ Len(batch) \in Nat /\ Len(batch) > 0 /\ Len(assessed) \in Nat
      /\ assessed' \in Seq(Assessed) /\ Len(assessed') = Len(assessed) + 1
      /\ \A i \in DOMAIN assessed' :
           \/ assessed'[i].id = Head(batch).id
           \/ \E j \in DOMAIN assessed : assessed'[i].id = assessed[j].id
      /\ {runSpend', daySpend', spent'} \subseteq Nat
      /\ genCompute' \in [0 .. MaxGenerations -> Nat]
      /\ trip' \in Ceilings \cup {"none"} /\ started' = started
      /\ trip' = "none" => trip = "none"
      /\ BooksAgree' /\ FinestTracked' /\ finest' \in -1 .. MaxScore
      /\ spent' <= RunLimit + Len(assessed') * MaxCost
      /\ spent' <= RunLimit + PopulationSize * MaxCost
      /\ UNCHANGED <<requested, gen, population, baseline>>
  BY <1>1, Scored
<1>3. /\ batch \in Seq(Unborn) /\ batch' \in Seq(Unborn) /\ Len(batch') = Len(batch) - 1
      /\ \A i \in DOMAIN batch' : i + 1 \in DOMAIN batch /\ batch'[i] = batch[i + 1]
  <2>1. batch \in Seq(Unborn)
    BY DEF LoopInv
  <2> QED BY <1>1, <1>2, <2>1, HeadTailProperties
<1>4. Head(batch).id \in CandidateNames
  BY <1>2 DEF Unborn
<1>12. Len(batch') + Len(assessed') = Len(batch) + Len(assessed)
  BY <1>2, <1>3
<1>5. TypeOK'
  <2>1. \A i \in DOMAIN batch' : batch'[i].id \in CandidateNames /\ batch'[i].parents \subseteq CandidateNames
    <3>1. \A i \in DOMAIN batch : batch[i] \in Unborn
      BY <1>3
    <3> QED BY <1>3, <3>1 DEF Unborn
  <2>2. Len(batch') + Len(assessed') <= PopulationSize + (IF pc' = "raised" THEN 1 ELSE 0)
    <3>1. Len(batch) + Len(assessed) <= PopulationSize + (IF pc = "raised" THEN 1 ELSE 0)
      BY DEF LoopInv, EvolutionSound, TypeOK
    <3> QED BY <1>1, <3>1, <1>12
  <2>3. recorded' \subseteq CandidateNames
    BY <1>1, <1>4 DEF LoopInv, EvolutionSound, TypeOK
  <2> QED BY <1>1, <1>2, <2>1, <2>2, <2>3 DEF LoopInv, EvolutionSound, TypeOK
<1>6. EliteKept' /\ NoneOpen'
  BY <1>1, <1>2 DEF EliteKept, NoneOpen
<1>7. OvershootBounded' /\ OvershootOfBatch'
  BY <1>2 DEF OvershootBounded, OvershootOfBatch
<1>8. LineageOnFile'
  BY <1>1, <1>2, <1>3 DEF LoopInv, EvolutionSound, LineageOnFile
<1>9. GenerationsWithinCeiling' /\ TicksFollow'
  BY <1>1, <1>2 DEF LoopInv, EvolutionSound, GenerationsWithinCeiling, TicksFollow
<1>10. SeedingWhole'
  BY <1>1, <1>2, <1>12 DEF LoopInv, SeedingWhole
<1>11. AssessedOnFile'
  BY <1>1, <1>2 DEF LoopInv, AssessedOnFile
<1> QED BY <1>2, <1>3, <1>5, <1>6, <1>7, <1>8, <1>9, <1>10, <1>11 DEF LoopInv, EvolutionSound

\* Or it cannot, and the run raises.
LEMMA LoopAppendFails ==
  ASSUME LoopInv, NEW o \in Outcomes, AppendFails(o)
  PROVE  LoopInv'
<1>1. ScoreNext(o) /\ pc' = "raised" /\ UNCHANGED <<batch, recorded>>
  BY DEF AppendFails
<1>2. /\ pc = "assess" /\ Len(batch) \in Nat /\ Len(assessed) \in Nat
      /\ assessed' \in Seq(Assessed) /\ Len(assessed') = Len(assessed) + 1
      /\ {runSpend', daySpend', spent'} \subseteq Nat
      /\ genCompute' \in [0 .. MaxGenerations -> Nat]
      /\ trip' \in Ceilings \cup {"none"} /\ started' = started
      /\ trip' = "none" => trip = "none"
      /\ BooksAgree' /\ FinestTracked' /\ finest' \in -1 .. MaxScore
      /\ spent' <= RunLimit + PopulationSize * MaxCost
      /\ UNCHANGED <<requested, gen, population, baseline>>
  BY <1>1, Scored
<1>3. TypeOK'
  <2>1. Len(batch') + Len(assessed') <= PopulationSize + (IF pc' = "raised" THEN 1 ELSE 0)
    BY <1>1, <1>2, Constants DEF LoopInv, EvolutionSound, TypeOK
  <2>2. pc' \in {"assess", "poll"} \cup Over
    BY <1>1 DEF Over
  <2> QED BY <1>1, <1>2, <2>1, <2>2 DEF LoopInv, EvolutionSound, TypeOK
<1>4. EliteKept' /\ NoneOpen' /\ OvershootOfBatch' /\ TicksFollow' /\ SeedingWhole' /\ AssessedOnFile'
  BY <1>1 DEF EliteKept, NoneOpen, OvershootOfBatch, TicksFollow, SeedingWhole, AssessedOnFile
<1>5. OvershootBounded' /\ LineageOnFile' /\ GenerationsWithinCeiling' /\ batch' \in Seq(Unborn)
  BY <1>1, <1>2 DEF LoopInv, EvolutionSound, OvershootBounded, LineageOnFile,
     GenerationsWithinCeiling
<1> QED BY <1>2, <1>3, <1>4, <1>5 DEF LoopInv, EvolutionSound

\* Evaluator or reviewer raise before a candidate of the batch is scored.
LEMMA LoopBatchFails ==
  ASSUME LoopInv, BatchFails
  PROVE  LoopInv'
<1>1. /\ pc = "assess" /\ pc' = "raised"
      /\ UNCHANGED <<requested, gen, batch, assessed, population, baseline, guard, recorded,
                     history>>
  BY DEF BatchFails
<1>2. UNCHANGED <<trip, started, runSpend, daySpend, genCompute, spent, finest>>
  BY <1>1 DEF guard, history
<1>3. TypeOK'
  <2>1. Len(batch) + Len(assessed) <= PopulationSize + (IF pc = "raised" THEN 1 ELSE 0)
    BY DEF LoopInv, EvolutionSound, TypeOK
  <2>2. Len(batch) \in Nat /\ Len(assessed) \in Nat
    BY DEF LoopInv, EvolutionSound, TypeOK
  <2>3. Len(batch') + Len(assessed') <= PopulationSize + (IF pc' = "raised" THEN 1 ELSE 0)
    BY <1>1, <2>1, <2>2, Constants
  <2>4. pc' \in {"assess", "poll"} \cup Over
    BY <1>1 DEF Over
  <2> QED BY <1>1, <1>2, <2>3, <2>4 DEF LoopInv, EvolutionSound, TypeOK
<1>4. EliteKept' /\ NoneOpen' /\ OvershootOfBatch' /\ TicksFollow' /\ SeedingWhole' /\ AssessedOnFile'
  BY <1>1 DEF EliteKept, NoneOpen, OvershootOfBatch, TicksFollow, SeedingWhole, AssessedOnFile
<1>5. OvershootBounded' /\ LineageOnFile' /\ GenerationsWithinCeiling' /\ batch' \in Seq(Unborn)
  BY <1>1, <1>2 DEF LoopInv, EvolutionSound, OvershootBounded, LineageOnFile,
     GenerationsWithinCeiling
<1>6. BooksAgree' /\ FinestTracked'
  BY <1>1, <1>2 DEF LoopInv, EvolutionSound, BooksAgree, FinestTracked
<1> QED BY <1>3, <1>4, <1>5, <1>6 DEF LoopInv, EvolutionSound

\* What is common to the two ends of a generation.
LEMMA NothingAlive == AliveScores(<< >>) = {}
BY DEF AliveScores, Survivors

\* The best score is the maximum of the population where no assessment is open.
LEMMA EliteWhenDone ==
  ASSUME NEW cs \in Seq(Assessed), NEW x,
         Tops(x, AliveScores(cs) \cup AliveScores(<< >>))
  PROVE  x = Max({-1} \cup {cs[i].score : i \in Survivors(cs)})
<1>1. AliveScores(cs) \in SUBSET Int
  BY AliveAreScores, Constants
<1>2. AliveScores(cs) \cup AliveScores(<< >>) = AliveScores(cs)
  BY NothingAlive
<1>3. Tops(x, AliveScores(cs))
  BY <1>2
<1>4. x = Max({-1} \cup AliveScores(cs))
  BY <1>1, <1>3, EliteFromTops
<1> QED BY <1>4 DEF AliveScores

\* Generation 0 is complete: all of it is the population.
LEMMA LoopSeeded ==
  ASSUME LoopInv, Seeded
  PROVE  LoopInv'
<1>1. /\ pc = "assess" /\ batch = << >> /\ gen = 0
      /\ population' = assessed
      /\ baseline' = Max({assessed[i].score : i \in DOMAIN assessed})
      /\ assessed' = << >> /\ pc' = "poll"
      /\ UNCHANGED <<requested, gen, batch, guard, recorded, history>>
  BY DEF Seeded
<1>2. UNCHANGED <<trip, started, runSpend, daySpend, genCompute, spent, finest>>
  BY <1>1 DEF guard, history
<1>3. /\ assessed \in Seq(Assessed) /\ FinestTracked /\ population = << >>
      /\ Len(batch) + Len(assessed) = PopulationSize
  BY <1>1 DEF LoopInv, EvolutionSound, TypeOK, SeedingWhole
<1>4. Len(assessed) = PopulationSize /\ Len(batch) = 0
  BY <1>1, <1>3, Constants
<1>5. baseline' \in 0 .. MaxScore
  <2> DEFINE scores == {assessed[i].score : i \in DOMAIN assessed}
  <2>1. 1 \in DOMAIN assessed
    BY <1>3, <1>4, Constants
  <2>2. \A i \in DOMAIN assessed : assessed[i] \in Assessed
    BY <1>3
  <2>3. scores \in SUBSET (0 .. MaxScore) /\ scores # {}
    BY <2>1, <2>2 DEF Assessed
  <2>4. IsFiniteSet(0 .. MaxScore)
    BY Constants, FS_Interval
  <2> HIDE DEF scores
  <2>5. scores \in SUBSET Int /\ IsFiniteSet(scores)
    <3>1. IsFiniteSet(scores)
      BY <2>3, <2>4, FS_Subset, Zenon
    <3> QED BY <2>3, <3>1
  <2>6. Max(scores) \in scores
    BY <2>3, <2>5, FiniteMax
  <2>7. baseline' = Max(scores)
    BY <1>1 DEF scores
  <2> QED BY <2>3, <2>6, <2>7
<1>6. Tops(finest', AliveScores(population') \cup AliveScores(assessed'))
  <2>1. Tops(finest, AliveScores(population) \cup AliveScores(assessed))
    BY <1>3 DEF FinestTracked
  <2>2. AliveScores(population') \cup AliveScores(assessed')
          = AliveScores(population) \cup AliveScores(assessed)
    BY <1>1, <1>3
  <2> QED BY <1>2, <2>1, <2>2
<1>7. FinestTracked'
  BY <1>6 DEF FinestTracked
<1>8. EliteKept'
  <2>1. finest' = Max({-1} \cup {population'[i].score : i \in Survivors(population')})
    BY <1>1, <1>3, <1>6, EliteWhenDone
  <2> QED BY <2>1 DEF EliteKept
<1>9. TypeOK'
  <2>1. Len(batch') + Len(assessed') <= PopulationSize + (IF pc' = "raised" THEN 1 ELSE 0)
    BY <1>1, <1>4, Constants
  <2>2. pc' \in {"assess", "poll"} \cup Over
    BY <1>1
  <2>3. population' \in Seq(Assessed) /\ Len(population') <= PopulationSize
        /\ assessed' \in Seq(Assessed)
    BY <1>1, <1>3, <1>4, Constants
  <2>4. \A i \in DOMAIN batch' : batch'[i].id \in CandidateNames /\ batch'[i].parents \subseteq CandidateNames
    BY <1>1
  <2> QED BY <1>1, <1>2, <1>5, <2>1, <2>2, <2>3, <2>4 DEF LoopInv, EvolutionSound, TypeOK
<1>10. NoneOpen' /\ OvershootOfBatch' /\ SeedingWhole' /\ AssessedOnFile'
  BY <1>1 DEF NoneOpen, OvershootOfBatch, SeedingWhole, AssessedOnFile
<1>11. TicksFollow'
  BY <1>1, <1>2 DEF LoopInv, TicksFollow
<1>12. OvershootBounded' /\ BooksAgree' /\ GenerationsWithinCeiling' /\ batch' \in Seq(Unborn)
  BY <1>1, <1>2 DEF LoopInv, EvolutionSound, OvershootBounded, BooksAgree,
     GenerationsWithinCeiling
<1>13. LineageOnFile'
  BY <1>1, <1>2 DEF LoopInv, LineageOnFile, AssessedOnFile
<1> QED BY <1>7, <1>8, <1>9, <1>10, <1>11, <1>12, <1>13 DEF LoopInv, EvolutionSound

\* The tick at the end of a generation leaves the books as they are.
LEMMA Ticked ==
  ASSUME LoopInv, TickGeneration, spent' = spent
  PROVE  /\ {runSpend', daySpend', spent'} \subseteq Nat
         /\ genCompute' \in [0 .. MaxGenerations -> Nat]
         /\ trip' \in Ceilings \cup {"none"} /\ started' \in 0 .. MaxGenerations
         /\ trip' = "none" => (trip = "none" /\ started' = started + 1)
         /\ BooksAgree'
<1>1. /\ started' = IF trip = "none" /\ started < MaxGenerations THEN started + 1 ELSE started
      /\ trip' = IF trip = "none" /\ started = MaxGenerations THEN "max_generations" ELSE trip
      /\ UNCHANGED <<runSpend, daySpend, genCompute>>
  BY DEF TickGeneration
<1>2. /\ {runSpend, daySpend, spent} \subseteq Nat /\ started \in 0 .. MaxGenerations
      /\ genCompute \in [0 .. MaxGenerations -> Nat] /\ trip \in Ceilings \cup {"none"}
      /\ BooksAgree
  BY DEF LoopInv, EvolutionSound, TypeOK
<1>3. trip' \in Ceilings \cup {"none"} /\ (trip' = "none" => trip = "none")
  BY <1>1, <1>2 DEF Ceilings
<1>4. started' \in 0 .. MaxGenerations /\ (trip' = "none" => started' = started + 1)
  BY <1>1, <1>2, Constants
<1>5. BooksAgree'
  BY <1>1, <1>2, <1>3 DEF BooksAgree
<1> QED BY <1>1, <1>2, <1>3, <1>4, <1>5

\* Another generation is complete: the best of it and of the population stay.
LEMMA LoopSelect ==
  ASSUME LoopInv, Select
  PROVE  LoopInv'
<1> DEFINE cs == population \o assessed
<1>1. /\ pc = "assess" /\ batch = << >> /\ gen > 0
      /\ population' = Best(cs, PopulationSize)
      /\ assessed' = << >> /\ TickGeneration /\ pc' = "poll"
      /\ UNCHANGED <<requested, gen, batch, baseline, recorded, history>>
  BY DEF Select
<1>2. spent' = spent /\ finest' = finest
  BY <1>1 DEF history
<1>3. /\ assessed \in Seq(Assessed) /\ population \in Seq(Assessed)
      /\ Tops(finest, AliveScores(population) \cup AliveScores(assessed))
      /\ gen \in Nat /\ requested \in Nat
  BY <1>1, Constants DEF LoopInv, EvolutionSound, TypeOK, FinestTracked
<1>4. /\ {runSpend', daySpend', spent'} \subseteq Nat
      /\ genCompute' \in [0 .. MaxGenerations -> Nat]
      /\ trip' \in Ceilings \cup {"none"} /\ started' \in 0 .. MaxGenerations
      /\ trip' = "none" => (trip = "none" /\ started' = started + 1)
      /\ BooksAgree'
  BY <1>1, <1>2, Ticked
<1>5. /\ cs \in Seq(Assessed)
      /\ \A i \in DOMAIN cs : \/ \E j \in DOMAIN population : cs[i] = population[j]
                              \/ \E j \in DOMAIN assessed : cs[i] = assessed[j]
      /\ AliveScores(cs) = AliveScores(population) \cup AliveScores(assessed)
  BY <1>3, AliveConcat
<1> HIDE DEF cs
<1>6. /\ population' \in Seq(Assessed) /\ Len(population') <= PopulationSize
      /\ \A n \in DOMAIN population' : \E i \in Survivors(cs) : population'[n] = cs[i]
  BY <1>1, <1>5, BestKept, Constants
<1>7. Tops(finest', AliveScores(population'))
  BY <1>1, <1>2, <1>3, <1>5, BestOnTop
<1>8. Tops(finest', AliveScores(population') \cup AliveScores(assessed'))
  BY <1>1, <1>7, NothingAlive
<1>9. FinestTracked'
  BY <1>8 DEF FinestTracked
<1>10. EliteKept'
  <2>1. finest' = Max({-1} \cup {population'[i].score : i \in Survivors(population')})
    BY <1>1, <1>6, <1>8, EliteWhenDone
  <2> QED BY <2>1 DEF EliteKept
<1>11. TypeOK'
  <2>1. Len(batch') + Len(assessed') <= PopulationSize + (IF pc' = "raised" THEN 1 ELSE 0)
    BY <1>1, Constants
  <2>2. pc' \in {"assess", "poll"} \cup Over /\ assessed' \in Seq(Assessed)
    BY <1>1
  <2>3. \A i \in DOMAIN batch' : batch'[i].id \in CandidateNames /\ batch'[i].parents \subseteq CandidateNames
    BY <1>1
  <2> QED BY <1>1, <1>2, <1>4, <1>6, <2>1, <2>2, <2>3 DEF LoopInv, EvolutionSound, TypeOK
<1>12. NoneOpen' /\ OvershootOfBatch' /\ SeedingWhole' /\ AssessedOnFile'
  BY <1>1 DEF NoneOpen, OvershootOfBatch, SeedingWhole, AssessedOnFile
<1>13. TicksFollow'
  <2>1. trip' = "none" => started' = gen
    BY <1>1, <1>3, <1>4 DEF LoopInv, TicksFollow
  <2> QED BY <1>1, <2>1 DEF TicksFollow
<1>14. OvershootBounded' /\ GenerationsWithinCeiling' /\ batch' \in Seq(Unborn)
  BY <1>1, <1>2 DEF LoopInv, EvolutionSound, OvershootBounded, GenerationsWithinCeiling
<1>15. LineageOnFile'
  <2>1. \A i \in DOMAIN cs : cs[i].id \in recorded
    BY <1>1, <1>5 DEF LoopInv, EvolutionSound, LineageOnFile, AssessedOnFile
  <2>2. \A n \in DOMAIN population' : population'[n].id \in recorded
    BY <1>6, <2>1 DEF Survivors
  <2> QED BY <1>1, <2>2 DEF LineageOnFile
<1> QED BY <1>4, <1>9, <1>10, <1>11, <1>12, <1>13, <1>14, <1>15 DEF LoopInv, EvolutionSound

\* The next generation descends from the population.
LEMMA Descends ==
  ASSUME LoopInv, NEW next \in 0 .. requested, NEW bred \in Offspring(next)
  PROVE  /\ bred \in Seq(Unborn) /\ Len(bred) <= PopulationSize
         /\ \A i \in DOMAIN bred : bred[i].parents \subseteq recorded
<1> DEFINE members == DOMAIN population
           ids == {population[i].id : i \in members}
           Parents(i) == {{population[i].id, mate} : mate \in ids}
           Matings == {p \in [members -> SUBSET ids] : \A i \in members : p[i] \in Parents(i)}
<1>1. /\ population \in Seq(Assessed) /\ Len(population) <= PopulationSize
      /\ requested \in Requests /\ LineageOnFile /\ recorded \subseteq CandidateNames
  BY DEF LoopInv, EvolutionSound, TypeOK
<1>2. ids \subseteq recorded
  BY <1>1 DEF LineageOnFile
<1>3. PICK mating \in Matings :
        bred = [i \in members |-> [id |-> [gen |-> next, place |-> i], parents |-> mating[i]]]
  BY DEF Offspring
<1>4. mating \in [members -> SUBSET ids]
  OBVIOUS
<1>5. members = 1 .. Len(population) /\ Len(population) \in Nat
  BY <1>1
<1> HIDE DEF members, ids, Matings
<1>6. ASSUME NEW i \in members
      PROVE  bred[i] \in Unborn /\ bred[i].parents \subseteq recorded
  <2>1. i \in 1 .. PopulationSize
    BY <1>1, <1>5, Constants
  <2>2. [gen |-> next, place |-> i] \in CandidateNames
    BY <1>1, <2>1, CandidateIds
  <2>3. mating[i] \subseteq recorded /\ mating[i] \subseteq CandidateNames
    BY <1>1, <1>2, <1>4
  <2>4. bred[i] = [id |-> [gen |-> next, place |-> i], parents |-> mating[i]]
    BY <1>3
  <2> QED BY <2>2, <2>3, <2>4 DEF Unborn
<1>7. DOMAIN bred = members /\ bred \in [members -> Unborn]
  BY <1>3, <1>6
<1>8. bred \in Seq(Unborn) /\ Len(bred) = Len(population)
  BY <1>5, <1>7
<1> QED BY <1>1, <1>6, <1>7, <1>8

LEMMA LoopBreed ==
  ASSUME LoopInv, Breed
  PROVE  LoopInv'
<1>1. /\ pc = "poll" /\ trip = "none" /\ gen < requested /\ gen' = gen + 1
      /\ batch' \in Offspring(gen + 1) /\ pc' = "assess"
      /\ UNCHANGED <<requested, assessed, population, baseline, guard, recorded, history>>
  BY DEF Breed
<1>2. UNCHANGED <<trip, started, runSpend, daySpend, genCompute, spent, finest>>
  BY <1>1 DEF guard, history
<1>3. /\ requested \in Nat /\ gen \in Nat /\ started \in Nat /\ started <= MaxGenerations
      /\ spent \in Nat /\ daySpend \in Nat /\ BooksAgree
  <2>1. requested \in Requests /\ gen \in 0 .. requested /\ started \in 0 .. MaxGenerations
        /\ {runSpend, daySpend, spent} \subseteq Nat /\ BooksAgree
    BY DEF LoopInv, EvolutionSound, TypeOK
  <2> QED BY <2>1, Constants
<1>4. gen + 1 \in 0 .. requested /\ gen + 1 # 0
  BY <1>1, <1>3
<1>5. assessed = << >> /\ started = gen
  BY <1>1 DEF LoopInv, NoneOpen, TicksFollow
<1>6. /\ batch' \in Seq(Unborn) /\ Len(batch') <= PopulationSize
      /\ \A i \in DOMAIN batch' : batch'[i].parents \subseteq recorded
  BY <1>1, <1>4, Descends
<1>7. TypeOK'
  <2>1. Len(batch') + Len(assessed') <= PopulationSize + (IF pc' = "raised" THEN 1 ELSE 0)
    <3>1. Len(batch') \in Nat /\ Len(assessed') = 0
      BY <1>1, <1>5, <1>6
    <3>2. Len(batch') + Len(assessed') <= PopulationSize
      BY <1>6, <3>1, Constants
    <3> QED BY <1>1, <3>2, Constants
  <2>2. pc' \in {"assess", "poll"} \cup Over
    BY <1>1
  <2>3. \A i \in DOMAIN batch' : batch'[i].id \in CandidateNames /\ batch'[i].parents \subseteq CandidateNames
    <3>1. \A i \in DOMAIN batch' : batch'[i] \in Unborn
      BY <1>6
    <3> QED BY <3>1 DEF Unborn
  <2> QED BY <1>1, <1>2, <1>4, <2>1, <2>2, <2>3 DEF LoopInv, EvolutionSound, TypeOK
<1>8. EliteKept' /\ NoneOpen'
  BY <1>1 DEF EliteKept, NoneOpen
<1>9. SeedingWhole' /\ AssessedOnFile' /\ TicksFollow'
  <2>1. DOMAIN assessed' = {}
    BY <1>1, <1>5
  <2>2. started' = gen' - 1 /\ gen' # 0
    BY <1>1, <1>2, <1>3, <1>4, <1>5
  <2> QED BY <1>1, <2>1, <2>2 DEF SeedingWhole, AssessedOnFile, TicksFollow
<1>10. OvershootBounded' /\ OvershootOfBatch'
  <2>1. spent <= RunLimit
    BY <1>1, <1>3, LinesOfBooks
  <2>2. OvershootBounded'
    BY <1>2 DEF LoopInv, EvolutionSound, OvershootBounded
  <2>3. Len(assessed') * MaxCost = 0
    BY <1>1, <1>5, Constants
  <2>4. spent' <= RunLimit + Len(assessed') * MaxCost
    BY <1>2, <1>3, <2>1, <2>3, Constants
  <2> QED BY <2>2, <2>4 DEF OvershootOfBatch
<1>11. GenerationsWithinCeiling'
  BY <1>1, <1>3, <1>5, Constants DEF GenerationsWithinCeiling
<1>12. BooksAgree' /\ FinestTracked'
  BY <1>1, <1>2 DEF LoopInv, EvolutionSound, BooksAgree, FinestTracked
<1>13. LineageOnFile'
  BY <1>1, <1>6 DEF LoopInv, EvolutionSound, LineageOnFile
<1> QED BY <1>6, <1>7, <1>8, <1>9, <1>10, <1>11, <1>12, <1>13 DEF LoopInv, EvolutionSound

LEMMA LoopFinish ==
  ASSUME LoopInv, Finish
  PROVE  LoopInv'
<1>1. /\ pc = "poll" /\ pc' = IF trip # "none" THEN "budget_exhausted" ELSE "completed"
      /\ UNCHANGED <<requested, gen, batch, assessed, population, baseline, guard, recorded,
                     history>>
  BY DEF Finish
<1>2. UNCHANGED <<trip, started, runSpend, daySpend, genCompute, spent, finest>>
  BY <1>1 DEF guard, history
<1>3. pc' \in Over /\ pc' # "raised" /\ pc' # "assess" /\ pc' # "poll"
  BY <1>1 DEF Over
<1>4. TypeOK'
  <2>1. Len(batch') + Len(assessed') <= PopulationSize + (IF pc' = "raised" THEN 1 ELSE 0)
    <3>1. Len(batch) + Len(assessed) <= PopulationSize + (IF pc = "raised" THEN 1 ELSE 0)
      BY DEF LoopInv, EvolutionSound, TypeOK
    <3>2. pc # "raised"
      BY <1>1
    <3> QED BY <1>1, <1>3, <3>1, <3>2
  <2> QED BY <1>1, <1>2, <1>3, <2>1 DEF LoopInv, EvolutionSound, TypeOK
<1>5. EliteKept' /\ NoneOpen'
  BY <1>1, <1>2 DEF LoopInv, EvolutionSound, EliteKept, NoneOpen
<1>6. OvershootOfBatch' /\ TicksFollow' /\ SeedingWhole' /\ AssessedOnFile'
  BY <1>3 DEF OvershootOfBatch, TicksFollow, SeedingWhole, AssessedOnFile
<1>7. OvershootBounded' /\ LineageOnFile' /\ GenerationsWithinCeiling' /\ batch' \in Seq(Unborn)
  BY <1>1, <1>2 DEF LoopInv, EvolutionSound, OvershootBounded, LineageOnFile,
     GenerationsWithinCeiling
<1>8. BooksAgree' /\ FinestTracked'
  BY <1>1, <1>2 DEF LoopInv, EvolutionSound, BooksAgree, FinestTracked
<1> QED BY <1>4, <1>5, <1>6, <1>7, <1>8 DEF LoopInv, EvolutionSound

\* The day turns: today's spend is nothing.
LEMMA LoopMidnight ==
  ASSUME LoopInv, Midnight
  PROVE  LoopInv'
<1>1. /\ daySpend' = 0
      /\ UNCHANGED <<loop, trip, started, runSpend, genCompute, recorded, history>>
  BY DEF Midnight
<1>2. UNCHANGED <<requested, pc, gen, batch, assessed, population, baseline, spent, finest>>
  BY <1>1 DEF loop, history
<1>3. TypeOK'
  BY <1>1, <1>2 DEF LoopInv, EvolutionSound, TypeOK
<1>4. EliteKept' /\ NoneOpen' /\ OvershootBounded' /\ FinestTracked'
  BY <1>1, <1>2 DEF LoopInv, EvolutionSound, EliteKept, NoneOpen, OvershootBounded, FinestTracked
<1>5. OvershootOfBatch' /\ TicksFollow' /\ SeedingWhole' /\ AssessedOnFile'
  BY <1>1, <1>2 DEF LoopInv, OvershootOfBatch, TicksFollow, SeedingWhole, AssessedOnFile
<1>6. LineageOnFile' /\ GenerationsWithinCeiling' /\ batch' \in Seq(Unborn)
  BY <1>1, <1>2 DEF LoopInv, EvolutionSound, LineageOnFile, GenerationsWithinCeiling
<1>7. BooksAgree'
  <2>1. BooksAgree /\ spent \in Nat /\ daySpend \in Nat
    BY DEF LoopInv, EvolutionSound, TypeOK
  <2>2. trip = "none" =>
          /\ runSpend = spent /\ spent <= RunLimit
          /\ \A g \in DOMAIN genCompute : genCompute[g] <= ComputeLimit
    BY <2>1, LinesOfBooks
  <2>3. 0 <= Min({spent, DailyLimit})
    BY <2>1, MinOfTwo, Constants
  <2> QED BY <1>1, <1>2, <2>2, <2>3 DEF BooksAgree
<1> QED BY <1>3, <1>4, <1>5, <1>6, <1>7 DEF LoopInv, EvolutionSound

-----------------------------------------------------------------------------

THEOREM LoopInvariance == Spec => []LoopInv
<1>1. Init => LoopInv
  BY LoopInit
<1>2. LoopInv /\ [Next]_vars => LoopInv'
  <2> SUFFICES ASSUME LoopInv, [Next]_vars PROVE LoopInv'
    OBVIOUS
  <2>1. CASE \E o \in Outcomes : Assess(o)
    BY <2>1, LoopAssess
  <2>2. CASE \E o \in Outcomes : AppendFails(o)
    BY <2>2, LoopAppendFails
  <2>3. CASE BatchFails
    BY <2>3, LoopBatchFails
  <2>4. CASE Seeded
    BY <2>4, LoopSeeded
  <2>5. CASE Select
    BY <2>5, LoopSelect
  <2>6. CASE Breed
    BY <2>6, LoopBreed
  <2>7. CASE Finish
    BY <2>7, LoopFinish
  <2>8. CASE Midnight
    BY <2>8, LoopMidnight
  <2>9. CASE UNCHANGED vars
    BY <2>9 DEF vars, loop, guard, history, LoopInv, EvolutionSound, TypeOK, EliteKept,
       OvershootBounded, BooksAgree, LineageOnFile, GenerationsWithinCeiling, FinestTracked,
       NoneOpen, SeedingWhole, AssessedOnFile, OvershootOfBatch, TicksFollow
  <2> QED BY <2>1, <2>2, <2>3, <2>4, <2>5, <2>6, <2>7, <2>8, <2>9 DEF Next, Step, Raise
<1> QED BY <1>1, <1>2, PTL DEF Spec

\* EvolutionaryLoop.run with its guard and its ledger: however batches break off and
\* whatever candidates score and cost, the best candidate of the run stays in the
\* population, guard and ledger agree with it, every parent is on file, and spend and
\* generations pass their ceilings by no more than the batch under way.
THEOREM EvolutionHolds == Spec => []EvolutionSound
<1>1. LoopInv => EvolutionSound
  BY DEF LoopInv
<1> QED BY <1>1, LoopInvariance, PTL
-----------------------------------------------------------------------------
(***************************************************************************)
(* The reviewer.  A verdict is never milder than the machine's, so what is *)
(* accepted has passed every check.  The baseline is the strongest of the  *)
(* ancestors, and a gain beyond twice the deviation of two or three seeds  *)
(* is beyond what any two of them differ: with a and b two of the scores,  *)
(* the spread of two is (a - b)^2, and that of three, whose third score is *)
(* c, is the sum of the squares of their three differences, which is at    *)
(* least half as much again.                                               *)
(***************************************************************************)

\* The square of a difference beyond a gain is beyond the gain's.
LEMMA SquaresOrdered ==
  ASSUME NEW g \in Int, NEW d \in Int, g > 0, g * g > d * d
  PROVE  g > d
<1> SUFFICES ASSUME g <= d PROVE FALSE
  OBVIOUS
<1>1. d > 0 /\ g * g <= g * d /\ g * d <= d * d
  OBVIOUS
<1>2. g * g \in Int /\ g * d \in Int /\ d * d \in Int
  OBVIOUS
<1> QED BY <1>1, <1>2

\* Two seeds: half of what the deviation is measured by.
LEMMA BandOfTwo ==
  ASSUME NEW g \in Int, NEW a \in Int, NEW b \in Int, NEW s \in Nat, g > 0, s >= 2,
         g * g * (2 * 1) > s * s * (2 * (a * a + b * b) - (a + b) * (a + b))
  PROVE  g > a - b
<1> DEFINE d == a - b
           square == d * d
<1>1. 2 * (a * a + b * b) - (a + b) * (a + b) = square
  OBVIOUS
<1>2. d \in Int /\ square \in Int /\ square >= 0
  OBVIOUS
<1>3. s * s >= 4 /\ s * s \in Int
  OBVIOUS
<1>4. (s * s) * square >= 4 * square
  <2> DEFINE f == s * s
  <2>1. f \in Int /\ f >= 4 /\ square \in Int /\ square >= 0
    BY <1>2, <1>3
  <2> HIDE DEF f, square
  <2>2. f * square >= 4 * square
    BY <2>1
  <2> QED BY <2>2 DEF f
<1>5. g * g * (2 * 1) > (s * s) * square
  BY <1>1
<1>6. g * g > d * d
  <2> DEFINE f == (s * s) * square
             gg == g * g
  <2>1. f \in Int /\ gg \in Int
    BY <1>2, <1>3
  <2>2. gg * (2 * 1) > f /\ f >= 4 * square
    BY <1>4, <1>5
  <2> HIDE DEF f, gg, square
  <2>3. gg > square
    BY <1>2, <2>1, <2>2
  <2> QED BY <2>3 DEF gg, square
<1> HIDE DEF d
<1>7. g > d
  BY <1>2, <1>6, SquaresOrdered
<1> QED BY <1>7 DEF d

\* Three seeds: the spread is at least half as much again as that of any two.
LEMMA BandOfThree ==
  ASSUME NEW g \in Int, NEW a \in Int, NEW b \in Int, NEW c \in Int, NEW s \in Nat, g > 0, s >= 2,
         g * g * (3 * 2) > s * s * (3 * (a * a + b * b + c * c) - (a + b + c) * (a + b + c))
  PROVE  g > a - b
<1> DEFINE d == a - b
           e == a + b - 2 * c
           square == d * d
           other == e * e
           spread == 3 * (a * a + b * b + c * c) - (a + b + c) * (a + b + c)
<1>1. 2 * spread = 3 * square + other
  OBVIOUS
<1>2. d \in Int /\ square \in Int /\ square >= 0 /\ other \in Int /\ other >= 0 /\ spread \in Int
  OBVIOUS
<1>3. s * s >= 4 /\ s * s \in Int
  OBVIOUS
<1>4. (s * s) * spread >= 4 * spread
  <2> DEFINE f == s * s
  <2>1. f \in Int /\ f >= 4
    BY <1>3
  <2> HIDE DEF f, spread, square, other
  <2>2. spread >= 0
    BY <1>1, <1>2
  <2>3. f * spread >= 4 * spread
    BY <1>2, <2>1, <2>2
  <2> QED BY <2>3 DEF f
<1>5. g * g * (3 * 2) > (s * s) * spread
  OBVIOUS
<1>6. g * g > d * d
  <2> DEFINE f == (s * s) * spread
             gg == g * g
  <2>1. f \in Int /\ gg \in Int
    BY <1>2, <1>3
  <2>2. gg * (3 * 2) > f /\ f >= 4 * spread
    BY <1>4, <1>5
  <2> HIDE DEF f, gg, square, spread, other
  <2>3. gg > square
    BY <1>1, <1>2, <2>1, <2>2
  <2> QED BY <2>3 DEF gg, square
<1> HIDE DEF d
<1>7. g > d
  BY <1>2, <1>6, SquaresOrdered
<1> QED BY <1>7 DEF d

\* Of up to three places two are all there are, or all but one.
LEMMA TwoOrThree ==
  ASSUME NEW S, IsFiniteSet(S), NEW j \in S, NEW k \in S, j # k, Cardinality(S) <= 3
  PROVE  \/ Cardinality(S) = 2 /\ \A f \in [S -> Nat] : Total(f, S) = f[j] + f[k]
         \/ /\ Cardinality(S) = 3
            /\ \E l \in S : \A f \in [S -> Nat] : Total(f, S) = f[j] + f[k] + f[l]
<1> DEFINE R == S \ {j}
           Q == R \ {k}
<1>1. IsFiniteSet(R) /\ Cardinality(R) = Cardinality(S) - 1 /\ R \in SUBSET S /\ k \in R
  BY FS_RemoveElement
<1>2. IsFiniteSet(Q) /\ Cardinality(Q) = Cardinality(R) - 1 /\ Q \in SUBSET S
  BY <1>1, FS_RemoveElement
<1>3. Cardinality(S) \in Nat /\ Cardinality(Q) \in Nat
  BY <1>2, FS_CardinalityType
<1>4. ASSUME NEW f \in [S -> Nat] PROVE Total(f, S) = Total(f, Q) + f[k] + f[j]
  <2>1. Total(f, S) = Total(f, R) + f[j]
    BY TotalRemove
  <2>2. Total(f, R) = Total(f, Q) + f[k]
    BY <1>1, TotalRemove
  <2> QED BY <2>1, <2>2
<1>5. CASE Q = {}
  <2>1. Cardinality(Q) = 0
    BY <1>5, FS_EmptySet
  <2>2. ASSUME NEW f \in [S -> Nat] PROVE Total(f, S) = f[j] + f[k]
    <3>1. Total(f, Q) = 0
      BY <1>5, TotalEmpty
    <3>2. f[j] \in Nat /\ f[k] \in Nat
      OBVIOUS
    <3> HIDE DEF R, Q
    <3> QED BY <1>4, <3>1, <3>2
  <2> HIDE DEF R, Q
  <2>3. Cardinality(S) = 2
    BY <1>1, <1>2, <1>3, <2>1
  <2> QED BY <2>2, <2>3
<1>6. CASE Q # {}
  <2>1. PICK l \in Q : TRUE
    BY <1>6
  <2> DEFINE rest == Q \ {l}
  <2>2. IsFiniteSet(rest) /\ Cardinality(rest) = Cardinality(Q) - 1
    BY <1>2, FS_RemoveElement
  <2>3. Cardinality(rest) \in Nat
    BY <2>2, FS_CardinalityType
  <2>4. Cardinality(rest) = 0 /\ Cardinality(S) = 3
    <3> HIDE DEF R, Q, rest
    <3> QED BY <1>1, <1>2, <1>3, <2>2, <2>3
  <2>5. rest = {}
    <3> HIDE DEF rest
    <3> QED BY <2>2, <2>4, FS_EmptySet
  <2>6. l \in S
    BY <1>2
  <2>7. ASSUME NEW f \in [S -> Nat] PROVE Total(f, S) = f[j] + f[k] + f[l]
    <3>1. Total(f, Q) = Total(f, rest) + f[l]
      BY <1>2, TotalRemove
    <3>2. Total(f, rest) = 0
      BY <2>5, TotalEmpty
    <3>3. f[j] \in Nat /\ f[k] \in Nat /\ f[l] \in Nat
      BY <2>6
    <3> HIDE DEF R, Q, rest
    <3> QED BY <1>4, <3>1, <3>2, <3>3
  <2> QED BY <2>4, <2>6, <2>7
<1> QED BY <1>5, <1>6

\* A gain beyond the band of two or three seeds is more than any two differ.
LEMMA BeyondBand ==
  ASSUME NEW S, IsFiniteSet(S), NEW seeds \in [S -> Nat], Cardinality(S) \in {2, 3},
         Sigmas \in Nat, Sigmas >= 2, NEW gain \in Int, gain > 0,
         ~(gain * gain * (Cardinality(S) * (Cardinality(S) - 1)) <= Sigmas * Sigmas * Spread(seeds)),
         NEW j \in S, NEW k \in S
  PROVE  gain > seeds[j] - seeds[k]
<1>1. CASE j = k
  BY <1>1
<1>2. CASE j # k
  <2> DEFINE squared == [i \in S |-> seeds[i] * seeds[i]]
             n == Cardinality(S)
             spread == n * Total(squared, S) - Total(seeds, S) * Total(seeds, S)
  <2>1. squared \in [S -> Nat] /\ \A i \in S : squared[i] = seeds[i] * seeds[i]
    <3>1. \A x \in Nat : x * x \in Nat
      OBVIOUS
    <3> QED BY <3>1
  <2>2. DOMAIN seeds = S /\ Spread(seeds) = spread
    BY DEF Spread
  <2> HIDE DEF squared
  <2>3. \/ n = 2 /\ \A f \in [S -> Nat] : Total(f, S) = f[j] + f[k]
        \/ /\ n = 3
           /\ \E l \in S : \A f \in [S -> Nat] : Total(f, S) = f[j] + f[k] + f[l]
    <3>1. Cardinality(S) <= 3
      OBVIOUS
    <3> QED BY <1>2, <3>1, TwoOrThree
  <2> DEFINE a == seeds[j]
             b == seeds[k]
  <2>4. a \in Int /\ b \in Int
    OBVIOUS
  <2>5. CASE n = 2 /\ \A f \in [S -> Nat] : Total(f, S) = f[j] + f[k]
    <3>1. Total(seeds, S) = a + b /\ Total(squared, S) = a * a + b * b
      BY <2>1, <2>5
    <3>2. ~(gain * gain * (2 * 1) <= Sigmas * Sigmas * (2 * (a * a + b * b) - (a + b) * (a + b)))
      BY <2>2, <2>5, <3>1
    <3> HIDE DEF a, b
    <3>3. gain * gain * (2 * 1) > Sigmas * Sigmas * (2 * (a * a + b * b) - (a + b) * (a + b))
      BY <2>4, <3>2
    <3>4. gain > a - b
      BY <2>4, <3>3, BandOfTwo, Zenon
    <3> QED BY <3>4 DEF a, b
  <2>6. CASE n = 3 /\ \E l \in S : \A f \in [S -> Nat] : Total(f, S) = f[j] + f[k] + f[l]
    <3>1. PICK l \in S : \A f \in [S -> Nat] : Total(f, S) = f[j] + f[k] + f[l]
      BY <2>6
    <3> DEFINE c == seeds[l]
    <3>2. Total(seeds, S) = a + b + c /\ Total(squared, S) = a * a + b * b + c * c /\ c \in Int
      BY <2>1, <3>1
    <3>3. ~(gain * gain * (3 * 2)
              <= Sigmas * Sigmas * (3 * (a * a + b * b + c * c) - (a + b + c) * (a + b + c)))
      BY <2>2, <2>6, <3>2
    <3> HIDE DEF a, b, c
    <3>4. gain * gain * (3 * 2)
            > Sigmas * Sigmas * (3 * (a * a + b * b + c * c) - (a + b + c) * (a + b + c))
      BY <2>4, <3>2, <3>3
    <3>5. gain > a - b
      BY <2>4, <3>2, <3>4, BandOfThree, Zenon
    <3> QED BY <3>5 DEF a, b
  <2> QED BY <2>3, <2>5, <2>6
<1> QED BY <1>1, <1>2

\* A primary metric is a number of the scale's units.
LEMMA PrimaryIsNumber ==
  ASSUME NEW r \in Reports
  PROVE  Primary(r) \in Nat
<1> DEFINE D == DOMAIN r.metric
<1>1. /\ IsFiniteSet(D) /\ r.metric \in [D -> Nat] /\ D # {} /\ Scale \in Nat
  BY ReviewerAssumption
<1> HIDE DEF D
<1>2. Total(r.metric, D) \in Nat
  BY <1>1, TotalNat
<1>3. Cardinality(D) \in Nat \ {0}
  BY <1>1, FS_CardinalityType, FS_EmptySet
<1>4. Total(r.metric, D) * Scale \in Nat
  BY <1>1, <1>2
<1>5. (Total(r.metric, D) * Scale) \div Cardinality(D) \in Nat
  BY <1>3, <1>4
<1> QED BY <1>5 DEF Primary, Count, D

\* What a lineage is.
LEMMA LineageTyped ==
  ASSUME NEW lineage \in SeqOf(Entries, MaxLineage)
  PROVE  /\ IsFiniteSet(DOMAIN lineage) /\ DOMAIN lineage \in SUBSET Nat
         /\ lineage # << >> => DOMAIN lineage # {}
         /\ \A i \in DOMAIN lineage : lineage[i] \in Entries /\ Primary(lineage[i].report) \in Nat
<1>1. PICK n \in 0 .. MaxLineage : lineage \in [1 .. n -> Entries]
  BY DEF SeqOf
<1>2. n \in Nat /\ 1 \in Int /\ n \in Int /\ DOMAIN lineage = 1 .. n
  BY <1>1, ReviewerAssumption
<1>3. IsFiniteSet(1 .. n)
  BY <1>2, FS_Interval
<1>4. lineage # << >> => n # 0
  BY <1>1, <1>2
<1>5. \A i \in 1 .. n : Primary(lineage[i].report) \in Nat
  <2>1. \A i \in 1 .. n : lineage[i].report \in Reports
    BY <1>1 DEF Entries
  <2> QED BY <2>1, PrimaryIsNumber
<1>6. \A i \in 1 .. n : lineage[i] \in Entries
  BY <1>1
<1>7. lineage # << >> => DOMAIN lineage # {}
  BY <1>2, <1>4
<1>8. DOMAIN lineage \in SUBSET Nat
  BY <1>2
<1> QED BY <1>2, <1>3, <1>5, <1>6, <1>7, <1>8

\* The baseline is the strongest ancestor.
LEMMA BaselineIsStrongest ==
  ASSUME NEW lineage \in SeqOf(Entries, MaxLineage), lineage # << >>
  PROVE  \E i \in DOMAIN lineage :
           /\ Baseline(lineage) = lineage[i].report
           /\ \A j \in DOMAIN lineage : Primary(lineage[j].report) <= Primary(lineage[i].report)
<1> DEFINE places == DOMAIN lineage
           Score == [i \in places |-> Primary(lineage[i].report)]
           scores == {Primary(lineage[i].report) : i \in places}
           best == Max(scores)
           bests == {i \in places : Primary(lineage[i].report) = best}
           at == Min(bests)
<1>1. /\ IsFiniteSet(places) /\ places \in SUBSET Nat /\ places # {}
      /\ \A i \in places : Primary(lineage[i].report) \in Nat
  BY LineageTyped
<1>2. scores \in SUBSET Int /\ scores # {} /\ IsFiniteSet(scores)
  <2>1. Score \in Surjection(places, scores)
    BY DEF Surjection
  <2>2. IsFiniteSet(scores)
    BY <1>1, <2>1, FS_Surjection
  <2>3. scores # {} /\ scores \in SUBSET Int
    BY <1>1
  <2> QED BY <2>2, <2>3
<1>3. best \in scores /\ \A x \in scores : x <= best
  <2> HIDE DEF scores
  <2> QED BY <1>2, FiniteMax
<1>4. bests # {} /\ bests \in SUBSET places
  BY <1>3
<1>5. at \in bests
  <2>1. IsFiniteSet(bests) /\ bests \in SUBSET Int
    <3> HIDE DEF bests
    <3> QED BY <1>1, <1>4, FS_Subset
  <2> HIDE DEF bests
  <2> QED BY <1>4, <2>1, FiniteMin
<1>6. Baseline(lineage) = lineage[at].report
  BY DEF Baseline
<1>7. at \in places /\ Primary(lineage[at].report) = best
  BY <1>5
<1>8. \A j \in places : Primary(lineage[j].report) <= best
  BY <1>3
<1> HIDE DEF at, best, places
<1> QED BY <1>6, <1>7, <1>8 DEF places

\* The scores of the seeds are numbers.
LEMMA SeedsTyped ==
  ASSUME NEW lineage \in SeqOf(Entries, MaxLineage)
  PROVE  /\ IsFiniteSet(DOMAIN SeedScores(lineage))
         /\ SeedScores(lineage) \in [DOMAIN SeedScores(lineage) -> Nat]
<1> DEFINE places == {j \in DOMAIN lineage : lineage[j].isSeed}
<1>1. /\ IsFiniteSet(DOMAIN lineage) /\ places \in SUBSET DOMAIN lineage
      /\ \A i \in places : Primary(lineage[i].report) \in Nat
  BY LineageTyped
<1>2. IsFiniteSet(places)
  <2> HIDE DEF places
  <2> QED BY <1>1, FS_Subset
<1>3. SeedScores(lineage) = [i \in places |-> Primary(lineage[i].report)]
  BY DEF SeedScores
<1> QED BY <1>1, <1>2, <1>3

\* Whatever the language model answers, what it does not stop has passed the
\* machine's checks.
LEMMA AcceptedByMachine ==
  ASSUME NEW r, NEW answer, Verdict(r, answer) = "accept"
  PROVE  /\ ~Leaks(r.candidate, r.train) /\ r.lineage # << >>
         /\ Cardinality(DOMAIN SeedScores(r.lineage)) > 1
         /\ ~WithinBand(r.candidate, Baseline(r.lineage), SeedScores(r.lineage))
         /\ ~Slower(r.candidate, Baseline(r.lineage))
<1> DEFINE strongest == Baseline(r.lineage)
           seeds == SeedScores(r.lineage)
           known == r.lineage # << >>
           sampled == Cardinality(DOMAIN seeds) > 1
           critical == \/ Leaks(r.candidate, r.train)
                       \/ known /\ sampled /\ WithinBand(r.candidate, strongest, seeds)
                       \/ known /\ Slower(r.candidate, strongest)
           open == ~known \/ ~sampled \/ Narrow(r.candidate, strongest)
           machine == MachineVerdict(r)
<1>1. machine = CASE critical -> "reject"
                  [] ~critical /\ open -> "needs_more_evidence"
                  [] OTHER -> "accept"
  BY DEF MachineVerdict
<1>2. machine \in {"reject", "needs_more_evidence", "accept"}
      /\ (machine = "accept" => ~critical /\ ~open)
  <2> HIDE DEF machine, critical, open
  <2> QED BY <1>1
<1>3. machine = "accept"
  <2>1. Verdict(r, answer) = IF answer = "unparseable" \/ Severity(answer) < Severity(machine)
                             THEN machine ELSE answer
    BY DEF Verdict
  <2>2. /\ Severity("accept") = 0 /\ Severity("needs_more_evidence") = 1
        /\ Severity("reject") = 2
    BY DEF Severity
  <2> HIDE DEF machine
  <2> QED BY <1>2, <2>1, <2>2
<1>4. ~critical /\ ~open
  BY <1>2, <1>3
<1> HIDE DEF machine
<1> QED BY <1>4

\* A candidate that the machine accepts has proven its gain.
LEMMA AcceptedIsProven == review \in Reviews => AcceptMeansProven
<1> SUFFICES ASSUME review \in Reviews,
                    NEW answer \in Answers, Verdict(review, answer) = "accept"
             PROVE  LET c == review.candidate
                        seeds == SeedScores(review.lineage)
                    IN
                    /\ Cardinality(DOMAIN seeds) >= 2
                    /\ \A i \in DOMAIN review.lineage :
                         LET gain == Primary(c) - Primary(review.lineage[i].report) IN
                         /\ gain > 0
                         /\ Cardinality(DOMAIN seeds) <= 3 /\ Sigmas >= 2 =>
                              \A j, k \in DOMAIN seeds : gain > seeds[j] - seeds[k]
                    /\ DOMAIN c.metric \cap review.train = {}
                    /\ \E i \in DOMAIN review.lineage :
                         LET a == review.lineage[i].report IN
                         /\ \A j \in DOMAIN review.lineage :
                              Primary(review.lineage[j].report) <= Primary(a)
                         /\ a.latency > 0 => 100 * c.latency <= (100 + SlowdownPercent) * a.latency
  BY DEF AcceptMeansProven
<1> DEFINE c == review.candidate
           lineage == review.lineage
           seeds == SeedScores(lineage)
           S == DOMAIN seeds
           n == Cardinality(S)
<1>1. /\ c \in Reports /\ lineage \in SeqOf(Entries, MaxLineage)
  BY DEF Reviews
<1>2. /\ ~Leaks(c, review.train) /\ lineage # << >> /\ n > 1
      /\ ~WithinBand(c, Baseline(lineage), seeds) /\ ~Slower(c, Baseline(lineage))
  BY AcceptedByMachine
<1>3. IsFiniteSet(S) /\ seeds \in [S -> Nat]
  BY <1>1, SeedsTyped
<1>4. n \in Nat /\ n >= 2
  <2>1. n \in Nat
    BY <1>3, FS_CardinalityType
  <2> HIDE DEF n
  <2> QED BY <1>2, <2>1
<1> HIDE DEF seeds, c, lineage
<1>5. PICK top \in DOMAIN lineage :
        /\ Baseline(lineage) = lineage[top].report
        /\ \A j \in DOMAIN lineage : Primary(lineage[j].report) <= Primary(lineage[top].report)
  BY <1>1, <1>2, BaselineIsStrongest
<1> DEFINE a == lineage[top].report
           won == Primary(c) - Primary(a)
<1>6. a \in Reports /\ \A i \in DOMAIN lineage : Primary(lineage[i].report) \in Nat
  BY <1>1, LineageTyped DEF Entries
<1>7. Primary(c) \in Nat /\ Primary(a) \in Nat
  BY <1>1, <1>6, PrimaryIsNumber
<1> HIDE DEF n
<1>8. /\ won \in Int /\ won > 0
      /\ ~(won * won * (n * (n - 1)) <= Sigmas * Sigmas * Spread(seeds))
  <2>1. ~(won <= 0 \/ won * won * (n * (n - 1)) <= Sigmas * Sigmas * Spread(seeds))
    BY <1>2, <1>5 DEF WithinBand, n
  <2>2. won \in Int
    BY <1>7
  <2> HIDE DEF won
  <2> QED BY <2>1, <2>2
<1>9. n <= 3 /\ Sigmas >= 2 => \A j, k \in S : won > seeds[j] - seeds[k]
  <2> SUFFICES ASSUME n <= 3, Sigmas >= 2, NEW j \in S, NEW k \in S
               PROVE  won > seeds[j] - seeds[k]
    OBVIOUS
  <2>1. n \in {2, 3} /\ Sigmas \in Nat
    BY <1>4, ReviewerAssumption
  <2> HIDE DEF won, S
  <2> QED BY <1>3, <1>8, <2>1, BeyondBand DEF n
<1>10. ASSUME NEW i \in DOMAIN lineage
       PROVE  LET gain == Primary(c) - Primary(lineage[i].report) IN
              /\ gain > 0
              /\ n <= 3 /\ Sigmas >= 2 => \A j, k \in S : gain > seeds[j] - seeds[k]
  <2> DEFINE gain == Primary(c) - Primary(lineage[i].report)
  <2>1. gain \in Int /\ gain >= won
    BY <1>5, <1>6, <1>7
  <2>2. \A j, k \in S : seeds[j] - seeds[k] \in Int
    BY <1>3
  <2> HIDE DEF gain, won, S
  <2>3. gain > 0
    BY <1>8, <2>1
  <2>4. n <= 3 /\ Sigmas >= 2 => \A j, k \in S : gain > seeds[j] - seeds[k]
    BY <1>8, <1>9, <2>1, <2>2
  <2> QED BY <2>3, <2>4 DEF gain
<1>11. DOMAIN c.metric \cap review.train = {}
  BY <1>2 DEF Leaks
<1>12. a.latency > 0 => 100 * c.latency <= (100 + SlowdownPercent) * a.latency
  <2>1. c.latency \in Nat /\ a.latency \in Nat /\ SlowdownPercent \in Nat
    BY <1>1, <1>6, ReviewerAssumption
  <2>2. a.latency > 0 => ~(100 * (c.latency - a.latency) > SlowdownPercent * a.latency)
    BY <1>2, <1>5 DEF Slower
  <2> DEFINE x == c.latency
             y == a.latency
             t == SlowdownPercent * y
  <2>3. t \in Nat /\ (100 + SlowdownPercent) * y = 100 * y + t
    BY <2>1
  <2>4. y > 0 => ~(100 * (x - y) > t)
    BY <2>2
  <2>5. x \in Nat /\ y \in Nat
    BY <2>1
  <2> HIDE DEF x, y, t
  <2>6. y > 0 => 100 * x <= (100 + SlowdownPercent) * y
    BY <2>3, <2>4, <2>5
  <2> QED BY <2>6 DEF x, y
<1>13. \E i \in DOMAIN lineage :
         /\ \A j \in DOMAIN lineage : Primary(lineage[j].report) <= Primary(lineage[i].report)
         /\ lineage[i].report.latency > 0 =>
              100 * c.latency <= (100 + SlowdownPercent) * lineage[i].report.latency
  BY <1>5, <1>12
<1> QED BY <1>4, <1>10, <1>11, <1>13 DEF c, lineage, seeds, n

\* Whatever a language model answers, and whatever the reports, the number of
\* sigmas and the length of the lineage, an accepted candidate gains on all of
\* its ancestors, on each by more than any two of up to three seeds differ, has
\* seen none of its queries in training and is no slower than tolerated.
THEOREM AcceptHolds == ReviewSpec => []AcceptMeansProven
<1>1. review \in Reviews /\ UNCHANGED review => (review \in Reviews)'
  OBVIOUS
<1> QED BY <1>1, AcceptedIsProven, PTL DEF ReviewSpec
-----------------------------------------------------------------------------
(***************************************************************************)
(* The registry.  A component fails for its own reason alone, and a        *)
(* realisation for the reason of the first that fails: the places of a     *)
(* request's four parts follow each other, so that a place tells of which  *)
(* part it is.                                                             *)
(***************************************************************************)

\* A failure is told from a pipeline.
LEMMA FailuresFail ==
  ASSUME NEW why, NEW a, NEW b
  PROVE  /\ HasFailed(Failed(why)) /\ Failed(why).error = why
         /\ ~HasFailed([components |-> a, fusion |-> b]) /\ [components |-> a, fusion |-> b].components = a
BY DEF HasFailed, Failed

\* What is required is required in order.
LEMMA RequireNothing ==
  ASSUME NEW wiring, NEW built
  PROVE  Require(<< >>, wiring, built) = built
BY DEF Require

LEMMA RequireOne ==
  ASSUME NEW wiring, NEW built, NEW x
  PROVE  Require(<<x>>, wiring, built) =
           IF x \in wiring THEN built ELSE Failed(<<"wiring", x>>)
<1> DEFINE needs == <<x>>
           missing == {i \in DOMAIN needs : needs[i] \notin wiring}
<1>1. Require(needs, wiring, built) =
        IF missing = {} THEN built ELSE Failed(<<"wiring", needs[Min(missing)]>>)
  BY DEF Require
<1>2. CASE x \in wiring
  <2>1. missing = {}
    BY <1>2
  <2> QED BY <1>1, <1>2, <2>1
<1>3. CASE x \notin wiring
  <2>1. missing = {1} /\ missing \in SUBSET Int
    BY <1>3
  <2>2. Min(missing) = 1
    <3> HIDE DEF missing
    <3> QED BY <2>1, IsMin
  <2> QED BY <1>1, <1>3, <2>1, <2>2
<1> QED BY <1>2, <1>3

LEMMA RequireTwo ==
  ASSUME NEW wiring, NEW built, NEW x, NEW y
  PROVE  Require(<<x, y>>, wiring, built) =
           IF x \notin wiring THEN Failed(<<"wiring", x>>)
           ELSE IF y \notin wiring THEN Failed(<<"wiring", y>>) ELSE built
<1> DEFINE needs == <<x, y>>
           missing == {i \in DOMAIN needs : needs[i] \notin wiring}
<1>1. Require(needs, wiring, built) =
        IF missing = {} THEN built ELSE Failed(<<"wiring", needs[Min(missing)]>>)
  BY DEF Require
<1>2. DOMAIN needs = {1, 2} /\ needs[1] = x /\ needs[2] = y
  OBVIOUS
<1>3. missing \in SUBSET Int
  BY <1>2
<1>4. CASE x \notin wiring
  <2>1. 1 \in missing /\ \A i \in missing : 1 <= i
    BY <1>2, <1>4
  <2>2. Min(missing) = 1
    <3> HIDE DEF missing
    <3> QED BY <1>3, <2>1, IsMin
  <2> HIDE DEF missing, needs
  <2> QED BY <1>1, <1>2, <1>4, <2>1, <2>2 DEF needs
<1>5. CASE x \in wiring /\ y \notin wiring
  <2>1. 2 \in missing /\ \A i \in missing : 2 <= i
    BY <1>2, <1>5
  <2>2. Min(missing) = 2
    <3> HIDE DEF missing
    <3> QED BY <1>3, <2>1, IsMin
  <2> HIDE DEF missing, needs
  <2> QED BY <1>1, <1>2, <1>5, <2>1, <2>2 DEF needs
<1>6. CASE x \in wiring /\ y \in wiring
  <2>1. missing = {}
    BY <1>2, <1>6
  <2> QED BY <1>1, <1>6, <2>1
<1> QED BY <1>4, <1>5, <1>6

\* What the builders of a pipeline's parts require.
LEMMA NeedsAre ==
  /\ DOMAIN NeedsOfRetriever = {"dense", "sparse_bm25", "hybrid_rrf", "iterative"}
  /\ NeedsOfRetriever["dense"] = <<"index", "embedder">>
  /\ NeedsOfRetriever["iterative"] = <<"index", "embedder">>
  /\ NeedsOfRetriever["sparse_bm25"] = <<"index">>
  /\ NeedsOfRetriever["hybrid_rrf"] = << >>
  /\ NeedsOfPost["mmr"] = <<"embedder">> /\ NeedsOfPost["parent_expander"] = <<"fetch_parent">>
  /\ \A name \in DOMAIN NeedsOfPost \ {"mmr", "parent_expander"} : NeedsOfPost[name] = << >>
  /\ "bm42" \notin DOMAIN NeedsOfReranker
  /\ \A name \in DOMAIN NeedsOfReranker : NeedsOfReranker[name] = << >>
  /\ \A name \in DOMAIN NeedsOfQueryOp : NeedsOfQueryOp[name] = << >> /\ name # "mmr"
BY DEF NeedsOfRetriever, NeedsOfPost, NeedsOfReranker, NeedsOfQueryOp

LEMMA BuildersAre ==
  /\ Builders["retrievers"] = NeedsOfRetriever /\ Builders["rerankers"] = NeedsOfReranker
  /\ Builders["post_processors"] = NeedsOfPost /\ Builders["query_ops"] = NeedsOfQueryOp
BY DEF Builders

\* The names that are declared are names that the builders know.
LEMMA NamesKnown ==
  /\ Names("retrievers") \subseteq DOMAIN NeedsOfRetriever
  /\ Names("rerankers") \subseteq DOMAIN NeedsOfReranker
  /\ Names("post_processors") \subseteq DOMAIN NeedsOfPost
  /\ Names("query_ops") \subseteq DOMAIN NeedsOfQueryOp
BY RegistryAssumption, BuildersAre

\* What a declared component becomes, its defaults being valid.
Component(category, name, params) == [category |-> category, name |-> name, params |-> params]

LEMMA ComponentStands ==
  \A category, name, params :
    LET whole == Component(category, name, params) IN
    ~HasFailed(whole) /\ whole.name = name /\ whole.params = params
<1> SUFFICES ASSUME NEW category, NEW name, NEW params
             PROVE  LET whole == Component(category, name, params) IN
                    ~HasFailed(whole) /\ whole.name = name /\ whole.params = params
  OBVIOUS
<1> DEFINE whole == Component(category, name, params)
<1>1. DOMAIN whole = {"category", "name", "params"}
  BY DEF Component
<1>2. ~HasFailed(whole)
  <2> HIDE DEF whole
  <2> QED BY <1>1 DEF HasFailed
<1>3. whole.name = name /\ whole.params = params
  BY DEF Component
<1> QED BY <1>2, <1>3

LEMMA DefaultsBuilt ==
  ASSUME NEW category \in {"retrievers", "rerankers", "post_processors", "query_ops"},
         NEW name \in Names(category), NEW wiring
  PROVE  \E params : Instantiate(category, name, << >>, wiring)
                       = Require(Builders[category][name], wiring, Component(category, name, params))
<1> DEFINE params == Declared[category][name]
           resolved == [p \in DOMAIN params |-> params[p].default]
           valid == ValidateParams(params, << >>)
<1>1. /\ category \in DOMAIN Declared /\ category \in DOMAIN Builders
      /\ name \in DOMAIN Declared[category] /\ name \in DOMAIN Builders[category]
      /\ \A p \in DOMAIN params : params[p].default \in params[p].lo .. params[p].hi
  BY RegistryAssumption DEF Names
<1>2. valid = [params |-> resolved]
  <2>1. DOMAIN << >> = {}
    OBVIOUS
  <2>2. [p \in DOMAIN params |-> IF p \in DOMAIN << >> THEN << >>[p] ELSE params[p].default] = resolved
    BY <2>1
  <2>3. \A p \in DOMAIN params : resolved[p] \in params[p].lo .. params[p].hi
    BY <1>1
  <2> HIDE DEF params, resolved
  <2> QED BY <2>1, <2>2, <2>3 DEF ValidateParams
<1>3. ~HasFailed(valid) /\ valid.params = resolved
  <2> HIDE DEF valid, resolved
  <2> QED BY <1>2 DEF HasFailed
<1>4. Instantiate(category, name, << >>, wiring)
        = Require(Builders[category][name], wiring, Component(category, name, valid.params))
  <2> HIDE DEF valid, resolved
  <2> QED BY <1>1, <1>3 DEF Instantiate, Component, valid
<1> QED BY <1>4

\* A retriever fails for lack of the index, or then of the embedder.
LEMMA RetrieverBuilt ==
  ASSUME NEW name \in Names("retrievers"), NEW wiring
  PROVE  LET b == Instantiate("retrievers", name, << >>, wiring) IN
         \/ HasFailed(b) /\ b.error = <<"wiring", "index">> /\ name # "hybrid_rrf" /\ "index" \notin wiring
         \/ HasFailed(b) /\ b.error = <<"wiring", "embedder">> /\ name \in {"dense", "iterative"}
              /\ "index" \in wiring /\ "embedder" \notin wiring
         \/ ~HasFailed(b) /\ b.name = name /\ (name # "hybrid_rrf" => "index" \in wiring)
              /\ (name \in {"dense", "iterative"} => "embedder" \in wiring)
<1>1. PICK params :
        Instantiate("retrievers", name, << >>, wiring)
          = Require(NeedsOfRetriever[name], wiring, Component("retrievers", name, params))
  BY DefaultsBuilt, BuildersAre
<1> DEFINE whole == Component("retrievers", name, params)
           b == Instantiate("retrievers", name, << >>, wiring)
<1>2. ~HasFailed(whole) /\ whole.name = name
  BY ComponentStands
<1>3. name \in {"dense", "sparse_bm25", "hybrid_rrf", "iterative"}
  BY NamesKnown, NeedsAre
<1>4. \A x : HasFailed(Failed(<<"wiring", x>>)) /\ Failed(<<"wiring", x>>).error = <<"wiring", x>>
  BY FailuresFail
<1> HIDE DEF whole, b
<1>5. CASE name \in {"dense", "iterative"}
  <2>1. b = Require(<<"index", "embedder">>, wiring, whole)
    BY <1>1, <1>5, NeedsAre DEF b, whole
  <2>2. b = IF "index" \notin wiring THEN Failed(<<"wiring", "index">>)
            ELSE IF "embedder" \notin wiring THEN Failed(<<"wiring", "embedder">>) ELSE whole
    BY <2>1, RequireTwo
  <2> QED BY <1>2, <1>4, <1>5, <2>2 DEF b
<1>6. CASE name = "sparse_bm25"
  <2>1. b = Require(<<"index">>, wiring, whole)
    BY <1>1, <1>6, NeedsAre DEF b, whole
  <2>2. b = IF "index" \in wiring THEN whole ELSE Failed(<<"wiring", "index">>)
    BY <2>1, RequireOne
  <2> QED BY <1>2, <1>4, <1>6, <2>2 DEF b
<1>7. CASE name = "hybrid_rrf"
  <2>1. b = Require(<< >>, wiring, whole)
    BY <1>1, <1>7, NeedsAre DEF b, whole
  <2>2. b = whole
    BY <2>1, RequireNothing
  <2> QED BY <1>2, <1>7, <2>2 DEF b
<1> QED BY <1>3, <1>5, <1>6, <1>7

\* A declared reranker or query operation is built whatever there is, and an
\* undeclared reranker never.
LEMMA RerankerBuilt ==
  ASSUME NEW name \in Names("rerankers") \cup {"bm42"}, NEW wiring
  PROVE  LET b == Instantiate("rerankers", name, << >>, wiring) IN
         \/ HasFailed(b) /\ b.error = <<"unknown", "component">> /\ name = "bm42"
         \/ ~HasFailed(b) /\ b.name = name /\ name # "bm42"
<1>1. "bm42" \notin Names("rerankers")
  BY NamesKnown, NeedsAre
<1>2. CASE name = "bm42"
  <2>1. Instantiate("rerankers", name, << >>, wiring) = Failed(<<"unknown", "component">>)
    BY <1>1, <1>2 DEF Instantiate, Names
  <2> QED BY <1>2, <2>1, FailuresFail
<1>3. CASE name # "bm42"
  <2>1. PICK params :
          Instantiate("rerankers", name, << >>, wiring)
            = Require(NeedsOfReranker[name], wiring, Component("rerankers", name, params))
    BY <1>3, DefaultsBuilt, BuildersAre
  <2>2. NeedsOfReranker[name] = << >>
    BY <1>3, NamesKnown, NeedsAre
  <2>3. Instantiate("rerankers", name, << >>, wiring) = Component("rerankers", name, params)
    BY <2>1, <2>2, RequireNothing
  <2> QED BY <1>3, <2>3, ComponentStands
<1> QED BY <1>2, <1>3

LEMMA QueryOpBuilt ==
  ASSUME NEW name \in Names("query_ops"), NEW wiring
  PROVE  LET b == Instantiate("query_ops", name, << >>, wiring) IN
         ~HasFailed(b) /\ b.name = name /\ name # "mmr"
<1>1. PICK params :
        Instantiate("query_ops", name, << >>, wiring)
          = Require(NeedsOfQueryOp[name], wiring, Component("query_ops", name, params))
  BY DefaultsBuilt, BuildersAre
<1>2. NeedsOfQueryOp[name] = << >> /\ name # "mmr"
  BY NamesKnown, NeedsAre
<1>3. Instantiate("query_ops", name, << >>, wiring) = Component("query_ops", name, params)
  BY <1>1, <1>2, RequireNothing
<1> QED BY <1>2, <1>3, ComponentStands

\* A post-processor fails for a lambda out of range, or for lack of what it needs.
LEMMA PostBuilt ==
  ASSUME NEW name \in Names("post_processors"), NEW config, NEW wiring
  PROVE  LET b == Instantiate("post_processors", name, ParamsFor(config, "post_processors", name), wiring)
             range == Declared["post_processors"]["mmr"].lambda
             lambda == config.mmr_lambda
         IN
         \/ HasFailed(b) /\ b.error = <<"range", "parameter">> /\ name = "mmr" /\ lambda \notin range.lo .. range.hi
         \/ HasFailed(b) /\ b.error = <<"wiring", "embedder">> /\ name = "mmr" /\ "embedder" \notin wiring
         \/ HasFailed(b) /\ b.error = <<"wiring", "fetch_parent">> /\ name = "parent_expander"
              /\ "fetch_parent" \notin wiring
         \/ /\ ~HasFailed(b) /\ b.name = name
            /\ name = "mmr" => /\ lambda \in range.lo .. range.hi /\ "embedder" \in wiring
                               /\ b.params.lambda = lambda
            /\ name = "parent_expander" => "fetch_parent" \in wiring
<1> DEFINE b == Instantiate("post_processors", name, ParamsFor(config, "post_processors", name), wiring)
           range == Declared["post_processors"]["mmr"].lambda
           lambda == config.mmr_lambda
<1>1. \A x : HasFailed(Failed(x)) /\ Failed(x).error = x
  BY FailuresFail
<1>2. CASE name # "mmr"
  <2>1. ParamsFor(config, "post_processors", name) = << >>
    BY <1>2 DEF ParamsFor
  <2>2. PICK params : b = Require(NeedsOfPost[name], wiring, Component("post_processors", name, params))
    BY <2>1, DefaultsBuilt, BuildersAre
  <2> DEFINE whole == Component("post_processors", name, params)
  <2>3. ~HasFailed(whole) /\ whole.name = name
    BY ComponentStands
  <2> HIDE DEF b, whole
  <2>4. CASE name = "parent_expander"
    <3>1. b = Require(<<"fetch_parent">>, wiring, whole)
      BY <2>2, <2>4, NeedsAre DEF whole
    <3>2. b = IF "fetch_parent" \in wiring THEN whole ELSE Failed(<<"wiring", "fetch_parent">>)
      BY <3>1, RequireOne
    <3> QED BY <1>1, <1>2, <2>3, <2>4, <3>2 DEF b
  <2>5. CASE name # "parent_expander"
    <3>1. NeedsOfPost[name] = << >>
      BY <1>2, <2>5, NamesKnown, NeedsAre
    <3>2. b = whole
      BY <2>2, <3>1, RequireNothing DEF whole
    <3> QED BY <1>2, <2>3, <2>5, <3>2 DEF b
  <2> QED BY <2>4, <2>5
<1>3. CASE name = "mmr"
  <2> DEFINE params == Declared["post_processors"]["mmr"]
             given == [lambda |-> lambda]
             resolved == [p \in DOMAIN params |-> IF p \in DOMAIN given THEN given[p] ELSE params[p].default]
             valid == ValidateParams(params, given)
  <2>1. /\ "post_processors" \in DOMAIN Declared /\ "post_processors" \in DOMAIN Builders
        /\ "mmr" \in DOMAIN Declared["post_processors"] /\ "mmr" \in DOMAIN Builders["post_processors"]
        /\ \A p \in DOMAIN params : params[p].default \in params[p].lo .. params[p].hi
        /\ "lambda" \in DOMAIN params
    BY RegistryAssumption DEF Names
  <2>2. ParamsFor(config, "post_processors", name) = given
    BY <1>3 DEF ParamsFor
  <2>3. DOMAIN given = {"lambda"} /\ given["lambda"] = lambda
    OBVIOUS
  <2>4. resolved["lambda"] = lambda /\ \A p \in DOMAIN params \ {"lambda"} : resolved[p] = params[p].default
    BY <2>1, <2>3
  <2>5. range = params["lambda"]
    OBVIOUS
  <2>6. valid = IF ~(DOMAIN given \subseteq DOMAIN params) THEN Failed(<<"unknown", "parameter">>)
                ELSE IF \E p \in DOMAIN params : resolved[p] \notin params[p].lo .. params[p].hi
                THEN Failed(<<"range", "parameter">>) ELSE [params |-> resolved]
    BY DEF ValidateParams
  <2>7. b = IF HasFailed(valid) THEN valid
            ELSE Require(Builders["post_processors"]["mmr"], wiring,
                         Component("post_processors", "mmr", valid.params))
    <3>1. b = Instantiate("post_processors", "mmr", given, wiring)
      BY <1>3, <2>2
    <3> HIDE DEF given, b
    <3> QED BY <2>1, <3>1 DEF Instantiate, Component
  <2>8. CASE lambda \notin range.lo .. range.hi
    <3>1. \E p \in DOMAIN params : resolved[p] \notin params[p].lo .. params[p].hi
      BY <2>1, <2>4, <2>5, <2>8
    <3>2. valid = Failed(<<"range", "parameter">>)
      <4> HIDE DEF valid, resolved, given, params
      <4> QED BY <2>1, <2>3, <2>6, <3>1
    <3>3. b = Failed(<<"range", "parameter">>)
      <4> HIDE DEF valid, b
      <4> QED BY <1>1, <2>7, <3>2
    <3> HIDE DEF b, lambda, range
    <3> QED BY <1>1, <1>3, <2>8, <3>3 DEF b, lambda, range
  <2>9. CASE lambda \in range.lo .. range.hi
    <3>1. ~\E p \in DOMAIN params : resolved[p] \notin params[p].lo .. params[p].hi
      <4> SUFFICES ASSUME NEW p \in DOMAIN params
                   PROVE  resolved[p] \in params[p].lo .. params[p].hi
        OBVIOUS
      <4>1. CASE p = "lambda"
        BY <2>4, <2>5, <2>9, <4>1
      <4>2. CASE p # "lambda"
        BY <2>1, <2>4, <4>2
      <4> QED BY <4>1, <4>2
    <3>2. valid = [params |-> resolved]
      <4> HIDE DEF valid, resolved, given, params
      <4> QED BY <2>1, <2>3, <2>6, <3>1
    <3>3. ~HasFailed(valid) /\ valid.params = resolved
      <4> HIDE DEF valid, resolved
      <4> QED BY <3>2 DEF HasFailed
    <3> DEFINE whole == Component("post_processors", "mmr", resolved)
    <3>4. b = Require(<<"embedder">>, wiring, whole)
      <4> HIDE DEF valid, b, resolved
      <4> QED BY <2>7, <3>3, NeedsAre, BuildersAre
    <3>5. b = IF "embedder" \in wiring THEN whole ELSE Failed(<<"wiring", "embedder">>)
      <4> HIDE DEF b, whole
      <4> QED BY <3>4, RequireOne
    <3>6. ~HasFailed(whole) /\ whole.name = "mmr" /\ whole.params = resolved
      BY ComponentStands
    <3>7. whole.params.lambda = lambda
      <4> HIDE DEF whole, resolved
      <4> QED BY <2>4, <3>6
    <3> HIDE DEF b, whole, lambda, range
    <3> QED BY <1>1, <1>3, <2>9, <3>5, <3>6, <3>7 DEF b, lambda, range
  <2> QED BY <2>8, <2>9
<1> QED BY <1>2, <1>3

\* A sequence of two parts.
LEMMA TwoParts ==
  ASSUME NEW T, NEW s \in Seq(T), NEW t \in Seq(T)
  PROVE  /\ s \o t \in Seq(T) /\ Len(s \o t) = Len(s) + Len(t)
         /\ \A i \in 1 .. Len(s) : (s \o t)[i] = s[i]
         /\ \A i \in 1 .. Len(t) : (s \o t)[Len(s) + i] = t[i]
<1> DEFINE u == s \o t
           p == Len(s)
           n == Len(t)
<1>1. /\ u \in Seq(T) /\ Len(u) = p + n
      /\ \A i \in 1 .. p + n : u[i] = IF i <= p THEN s[i] ELSE t[i - p]
  BY ConcatProperties
<1>2. p \in Nat /\ n \in Nat
  OBVIOUS
<1> HIDE DEF u, p, n
<1>3. ASSUME NEW i \in 1 .. p PROVE u[i] = s[i]
  <2>1. i \in 1 .. p + n /\ i <= p
    BY <1>2
  <2> QED BY <1>1, <2>1
<1>4. ASSUME NEW i \in 1 .. n PROVE u[p + i] = t[i]
  <2> DEFINE j == p + i
  <2>1. j \in 1 .. p + n /\ ~(j <= p) /\ j - p = i
    BY <1>2
  <2> HIDE DEF j
  <2>2. u[j] = t[i]
    BY <1>1, <2>1
  <2> QED BY <2>2 DEF j
<1> QED BY <1>1, <1>3, <1>4 DEF u, p, n

\* A sequence of four parts, the second of which is one element.
HasParts(s, a, x, c, d) ==
  /\ DOMAIN s = 1 .. Len(a) + 1 + Len(c) + Len(d)
  /\ \A i \in 1 .. Len(a) : s[i] = a[i]
  /\ s[Len(a) + 1] = x
  /\ \A i \in 1 .. Len(c) : s[Len(a) + 1 + i] = c[i]
  /\ \A i \in 1 .. Len(d) : s[Len(a) + 1 + Len(c) + i] = d[i]

LEMMA FourParts ==
  ASSUME NEW T, NEW a \in Seq(T), NEW x \in T, NEW c \in Seq(T), NEW d \in Seq(T)
  PROVE  HasParts(a \o <<x>> \o c \o d, a, x, c, d)
<1> DEFINE u == a \o <<x>>
           v == u \o c
           s == v \o d
           p == Len(a)
           m == Len(c)
           n == Len(d)
<1>1. p \in Nat /\ m \in Nat /\ n \in Nat
  OBVIOUS
<1>2. /\ u \in Seq(T) /\ Len(u) = p + 1
      /\ \A i \in 1 .. p : u[i] = a[i]
      /\ u[p + 1] = x
  <2>1. <<x>> \in Seq(T) /\ Len(<<x>>) = 1 /\ <<x>>[1] = x /\ 1 \in 1 .. 1
    OBVIOUS
  <2> QED BY <2>1, TwoParts
<1>3. /\ v \in Seq(T) /\ Len(v) = Len(u) + m
      /\ \A i \in 1 .. Len(u) : v[i] = u[i]
      /\ \A i \in 1 .. m : v[Len(u) + i] = c[i]
  <2>1. u \in Seq(T)
    BY <1>2
  <2> QED BY <2>1, TwoParts
<1>4. /\ s \in Seq(T) /\ Len(s) = Len(v) + n
      /\ \A i \in 1 .. Len(v) : s[i] = v[i]
      /\ \A i \in 1 .. n : s[Len(v) + i] = d[i]
  <2>1. v \in Seq(T)
    BY <1>3
  <2> QED BY <2>1, TwoParts
<1> HIDE DEF s, v, u, p, m, n
<1>5. Len(u) = p + 1 /\ Len(v) = p + 1 + m /\ Len(s) = p + 1 + m + n
  BY <1>2, <1>3, <1>4
<1>6. DOMAIN s = 1 .. p + 1 + m + n
  BY <1>4, <1>5
<1>7. ASSUME NEW i \in 1 .. p PROVE s[i] = a[i]
  <2>1. i \in 1 .. Len(u) /\ i \in 1 .. Len(v)
    BY <1>1, <1>5
  <2> QED BY <1>2, <1>3, <1>4, <2>1
<1>8. s[p + 1] = x
  <2> DEFINE j == p + 1
  <2>1. j \in 1 .. Len(u) /\ j \in 1 .. Len(v) /\ u[j] = x
    <3>1. j \in 1 .. p + 1 /\ j \in 1 .. p + 1 + m
      BY <1>1
    <3> QED BY <1>2, <1>5, <3>1
  <2> HIDE DEF j
  <2>2. s[j] = x
    BY <1>3, <1>4, <2>1
  <2> QED BY <2>2 DEF j
<1>9. ASSUME NEW i \in 1 .. m PROVE s[p + 1 + i] = c[i]
  <2> DEFINE j == p + 1 + i
  <2>1. j \in 1 .. Len(v) /\ j = Len(u) + i
    BY <1>1, <1>5
  <2> HIDE DEF j
  <2>2. s[j] = v[j] /\ v[j] = c[i]
    BY <1>3, <1>4, <2>1
  <2> QED BY <2>2 DEF j
<1>10. ASSUME NEW i \in 1 .. n PROVE s[p + 1 + m + i] = d[i]
  <2> DEFINE j == p + 1 + m + i
  <2>1. j = Len(v) + i
    BY <1>1, <1>5
  <2> HIDE DEF j
  <2>2. s[j] = d[i]
    BY <1>4, <2>1
  <2> QED BY <2>2 DEF j
<1> QED BY <1>6, <1>7, <1>8, <1>9, <1>10 DEF HasParts, s, v, u, p, m, n

\* A place of such a sequence is in one of its parts.
LEMMA PlaceOfFour ==
  ASSUME NEW p \in Nat, NEW m \in Nat, NEW n \in Nat, NEW i \in 1 .. p + 1 + m + n
  PROVE  \/ i \in 1 .. p
         \/ i = p + 1
         \/ i - (p + 1) \in 1 .. m /\ i = p + 1 + (i - (p + 1))
         \/ i - (p + 1 + m) \in 1 .. n /\ i = p + 1 + m + (i - (p + 1 + m))
OBVIOUS

\* Names told by the part they are of.
LEMMA PartOfNames ==
  ASSUME NEW A, NEW P, NEW part \in P, NEW s \in Seq(A)
  PROVE  LET t == [i \in DOMAIN s |-> <<part, s[i]>>] IN
         /\ t \in Seq(P \X A) /\ Len(t) = Len(s)
         /\ \A i \in 1 .. Len(s) : t[i] = <<part, s[i]>>
<1> DEFINE t == [i \in DOMAIN s |-> <<part, s[i]>>]
<1>1. Len(s) \in Nat /\ DOMAIN s = 1 .. Len(s) /\ \A i \in DOMAIN s : s[i] \in A
  OBVIOUS
<1>2. t \in [1 .. Len(s) -> P \X A]
  BY <1>1
<1>3. t \in Seq(P \X A) /\ Len(t) = Len(s)
  <2> HIDE DEF t
  <2> QED BY <1>1, <1>2
<1> QED BY <1>1, <1>3

AllNames == Names("retrievers") \cup Names("rerankers") \cup {"bm42"}
              \cup Names("post_processors") \cup Names("query_ops")

\* What instantiating the components of a request yields, place by place.
BuiltFor(r) ==
  [i \in DOMAIN Ordered(r.config) |->
     Instantiate(Ordered(r.config)[i][1], Ordered(r.config)[i][2],
                 ParamsFor(r.config, Ordered(r.config)[i][1], Ordered(r.config)[i][2]), r.wiring)]

NamesOf(config) == config.retrievers \o <<config.reranker>> \o config.post_processors \o config.query_ops

\* The parts of a request, of what is instantiated for it and of its names.
LEMMA PlacesBuilt ==
  ASSUME NEW r \in Wanted
  PROVE  LET config == r.config
             p == Len(config.retrievers)
             m == Len(config.post_processors)
             n == Len(config.query_ops)
             built == BuiltFor(r)
             names == NamesOf(config)
         IN
         /\ p \in Nat \ {0} /\ m \in Nat /\ n \in Nat
         /\ DOMAIN built = 1 .. p + 1 + m + n /\ DOMAIN names = 1 .. p + 1 + m + n
         /\ \A i \in 1 .. p :
              /\ names[i] = config.retrievers[i] /\ names[i] \in Names("retrievers")
              /\ built[i] = Instantiate("retrievers", names[i], << >>, r.wiring)
         /\ names[p + 1] = config.reranker /\ names[p + 1] \in Names("rerankers") \cup {"bm42"}
         /\ built[p + 1] = Instantiate("rerankers", names[p + 1], << >>, r.wiring)
         /\ \A i \in 1 .. m :
              /\ names[p + 1 + i] = config.post_processors[i]
              /\ names[p + 1 + i] \in Names("post_processors")
              /\ built[p + 1 + i] = Instantiate("post_processors", names[p + 1 + i],
                   ParamsFor(config, "post_processors", names[p + 1 + i]), r.wiring)
         /\ \A i \in 1 .. n :
              /\ names[p + 1 + m + i] = config.query_ops[i]
              /\ names[p + 1 + m + i] \in Names("query_ops")
              /\ built[p + 1 + m + i] = Instantiate("query_ops", names[p + 1 + m + i], << >>, r.wiring)
<1> DEFINE config == r.config
           w == r.wiring
           p == Len(config.retrievers)
           m == Len(config.post_processors)
           n == Len(config.query_ops)
           built == BuiltFor(r)
           names == NamesOf(config)
           Parts == {"retrievers", "rerankers", "post_processors", "query_ops"}
           a == [i \in DOMAIN config.retrievers |-> <<"retrievers", config.retrievers[i]>>]
           x == <<"rerankers", config.reranker>>
           c == [i \in DOMAIN config.post_processors |-> <<"post_processors", config.post_processors[i]>>]
           d == [i \in DOMAIN config.query_ops |-> <<"query_ops", config.query_ops[i]>>]
           ordered == Ordered(config)
<1>1. /\ config.retrievers \in Seq(Names("retrievers")) /\ config.retrievers # << >>
      /\ config.reranker \in Names("rerankers") \cup {"bm42"}
      /\ config.post_processors \in Seq(Names("post_processors"))
      /\ config.query_ops \in Seq(Names("query_ops"))
  BY DEF Wanted
<1> HIDE DEF config
<1>2. p \in Nat \ {0} /\ m \in Nat /\ n \in Nat
  BY <1>1
<1>3. /\ config.retrievers \in Seq(AllNames) /\ config.reranker \in AllNames
      /\ config.post_processors \in Seq(AllNames) /\ config.query_ops \in Seq(AllNames)
  BY <1>1 DEF AllNames
<1>4. /\ DOMAIN names = 1 .. p + 1 + m + n
      /\ \A i \in 1 .. p : names[i] = config.retrievers[i]
      /\ names[p + 1] = config.reranker
      /\ \A i \in 1 .. m : names[p + 1 + i] = config.post_processors[i]
      /\ \A i \in 1 .. n : names[p + 1 + m + i] = config.query_ops[i]
  <2>1. HasParts(config.retrievers \o <<config.reranker>> \o config.post_processors \o config.query_ops,
                 config.retrievers, config.reranker, config.post_processors, config.query_ops)
    BY <1>3, FourParts
  <2>2. names = config.retrievers \o <<config.reranker>> \o config.post_processors \o config.query_ops
    BY DEF NamesOf, config
  <2>3. HasParts(names, config.retrievers, config.reranker, config.post_processors, config.query_ops)
    <3> HIDE DEF names
    <3> QED BY <2>1, <2>2
  <2> HIDE DEF names
  <2> QED BY <2>3 DEF HasParts
<1>5. /\ a \in Seq(Parts \X AllNames) /\ x \in Parts \X AllNames
      /\ c \in Seq(Parts \X AllNames) /\ d \in Seq(Parts \X AllNames)
      /\ Len(a) = p /\ Len(c) = m /\ Len(d) = n
  <2>1. /\ "retrievers" \in Parts /\ "rerankers" \in Parts
        /\ "post_processors" \in Parts /\ "query_ops" \in Parts
    OBVIOUS
  <2>2. a \in Seq(Parts \X AllNames) /\ Len(a) = p
    BY <1>3, <2>1, PartOfNames
  <2>3. c \in Seq(Parts \X AllNames) /\ Len(c) = m
    BY <1>3, <2>1, PartOfNames
  <2>4. d \in Seq(Parts \X AllNames) /\ Len(d) = n
    BY <1>3, <2>1, PartOfNames
  <2> QED BY <1>3, <2>1, <2>2, <2>3, <2>4
<1>6. /\ \A i \in 1 .. p : a[i] = <<"retrievers", config.retrievers[i]>>
      /\ \A i \in 1 .. m : c[i] = <<"post_processors", config.post_processors[i]>>
      /\ \A i \in 1 .. n : d[i] = <<"query_ops", config.query_ops[i]>>
  BY <1>3
<1>7. ordered = a \o <<x>> \o c \o d
  BY DEF Ordered, config
<1>8. HasParts(a \o <<x>> \o c \o d, a, x, c, d)
  BY <1>5, FourParts
<1> HIDE DEF ordered, a, c, d, x, Parts
<1>9. /\ DOMAIN ordered = 1 .. p + 1 + m + n
      /\ \A i \in 1 .. p : ordered[i] = a[i]
      /\ ordered[p + 1] = x
      /\ \A i \in 1 .. m : ordered[p + 1 + i] = c[i]
      /\ \A i \in 1 .. n : ordered[p + 1 + m + i] = d[i]
  <2>1. HasParts(ordered, a, x, c, d)
    BY <1>7, <1>8
  <2> HIDE DEF p, m, n
  <2> QED BY <1>5, <2>1 DEF HasParts
<1>10. /\ DOMAIN built = 1 .. p + 1 + m + n
       /\ \A i \in 1 .. p + 1 + m + n :
            built[i] = Instantiate(ordered[i][1], ordered[i][2],
                                   ParamsFor(config, ordered[i][1], ordered[i][2]), w)
  BY <1>9 DEF BuiltFor, ordered, config
<1>11. \A part \in {"retrievers", "rerankers", "query_ops"} : \A name : ParamsFor(config, part, name) = << >>
  BY DEF ParamsFor
<1> HIDE DEF p, m, n, built, names, w
<1>12. ASSUME NEW i \in 1 .. p
       PROVE  /\ names[i] = config.retrievers[i] /\ names[i] \in Names("retrievers")
              /\ built[i] = Instantiate("retrievers", names[i], << >>, w)
  <2>1. i \in 1 .. p + 1 + m + n
    BY <1>2
  <2>2. names[i] \in Names("retrievers")
    <3> DEFINE first == config.retrievers
    <3>1. first \in Seq(Names("retrievers")) /\ i \in 1 .. Len(first)
      BY <1>1 DEF p
    <3>2. names[i] = first[i]
      BY <1>4
    <3> HIDE DEF first
    <3> QED BY <3>1, <3>2
  <2>3. ordered[i] = <<"retrievers", names[i]>>
    BY <1>4, <1>6, <1>9
  <2> QED BY <1>4, <1>10, <1>11, <2>1, <2>2, <2>3
<1>13. /\ names[p + 1] = config.reranker /\ names[p + 1] \in Names("rerankers") \cup {"bm42"}
       /\ built[p + 1] = Instantiate("rerankers", names[p + 1], << >>, w)
  <2>1. p + 1 \in 1 .. p + 1 + m + n
    BY <1>2
  <2>2. ordered[p + 1] = <<"rerankers", names[p + 1]>>
    BY <1>4, <1>9 DEF x
  <2> QED BY <1>1, <1>4, <1>10, <1>11, <2>1, <2>2
<1>14. ASSUME NEW i \in 1 .. m
       PROVE  /\ names[p + 1 + i] = config.post_processors[i]
              /\ names[p + 1 + i] \in Names("post_processors")
              /\ built[p + 1 + i] = Instantiate("post_processors", names[p + 1 + i],
                   ParamsFor(config, "post_processors", names[p + 1 + i]), w)
  <2>1. p + 1 + i \in 1 .. p + 1 + m + n
    BY <1>2
  <2>2. names[p + 1 + i] = config.post_processors[i]
    BY <1>4
  <2>3. config.post_processors[i] \in Names("post_processors")
    BY <1>1 DEF m
  <2>4. ordered[p + 1 + i] = <<"post_processors", names[p + 1 + i]>>
    BY <1>6, <1>9, <2>2
  <2> QED BY <1>10, <2>1, <2>2, <2>3, <2>4
<1>15. ASSUME NEW i \in 1 .. n
       PROVE  /\ names[p + 1 + m + i] = config.query_ops[i]
              /\ names[p + 1 + m + i] \in Names("query_ops")
              /\ built[p + 1 + m + i] = Instantiate("query_ops", names[p + 1 + m + i], << >>, w)
  <2>1. p + 1 + m + i \in 1 .. p + 1 + m + n
    BY <1>2
  <2>2. names[p + 1 + m + i] = config.query_ops[i]
    BY <1>4
  <2>3. config.query_ops[i] \in Names("query_ops")
    BY <1>1 DEF n
  <2>4. ordered[p + 1 + m + i] = <<"query_ops", names[p + 1 + m + i]>>
    BY <1>6, <1>9, <2>2
  <2> QED BY <1>10, <1>11, <2>1, <2>2, <2>3, <2>4
<1>16. /\ p \in Nat \ {0} /\ m \in Nat /\ n \in Nat
       /\ DOMAIN built = 1 .. p + 1 + m + n /\ DOMAIN names = 1 .. p + 1 + m + n
  BY <1>2, <1>4, <1>10
<1> QED BY <1>12, <1>13, <1>14, <1>15, <1>16, Zenon DEF config, p, m, n, built, names, w

\* A realisation is the pipeline of what was built, or the first failure.
LEMMA FirstFailureDecides ==
  ASSUME NEW r \in Wanted
  PROVE  LET built == BuiltFor(r)
             result == PipelineFromRegistry(r.config, r.wiring)
         IN
         \/ \E i \in DOMAIN built :
              /\ HasFailed(built[i]) /\ result = built[i]
              /\ \A j \in DOMAIN built : HasFailed(built[j]) => i <= j
         \/ /\ \A i \in DOMAIN built : ~HasFailed(built[i])
            /\ \/ /\ r.config.fusion = "max" /\ HasFailed(result)
                  /\ result.error = <<"unknown", "fusion">>
               \/ /\ r.config.fusion # "max" /\ ~HasFailed(result)
                  /\ result.components = built
<1> DEFINE built == BuiltFor(r)
           result == PipelineFromRegistry(r.config, r.wiring)
           failed == {i \in DOMAIN built : HasFailed(built[i])}
           size == Len(r.config.retrievers) + 1 + Len(r.config.post_processors) + Len(r.config.query_ops)
<1>1. result = IF failed # {} THEN built[Min(failed)]
               ELSE IF r.config.fusion \notin {"rrf", "hybrid_rrf", "weighted"}
                    THEN Failed(<<"unknown", "fusion">>)
                    ELSE [components |-> built, fusion |-> r.config.fusion]
  BY DEF PipelineFromRegistry, BuiltFor
<1>2. DOMAIN built = 1 .. size /\ size \in Nat
  <2>1. /\ Len(r.config.retrievers) \in Nat /\ Len(r.config.post_processors) \in Nat
        /\ Len(r.config.query_ops) \in Nat
    BY PlacesBuilt
  <2>2. size \in Nat
    <3> DEFINE x == Len(r.config.retrievers)
               y == Len(r.config.post_processors)
               z == Len(r.config.query_ops)
    <3>1. x \in Nat /\ y \in Nat /\ z \in Nat
      BY <2>1
    <3> HIDE DEF x, y, z
    <3>2. x + 1 + y + z \in Nat
      BY <3>1
    <3> QED BY <3>2 DEF x, y, z
  <2>3. DOMAIN built = 1 .. size
    BY PlacesBuilt, Zenon
  <2> QED BY <2>2, <2>3
<1> HIDE DEF built, result, size
<1>3. failed \in SUBSET Int /\ IsFiniteSet(failed)
  <2>1. 1 \in Int /\ size \in Int
    BY <1>2
  <2>2. IsFiniteSet(1 .. size)
    BY <2>1, FS_Interval
  <2>3. failed \in SUBSET (1 .. size)
    BY <1>2
  <2> HIDE DEF failed
  <2>4. IsFiniteSet(failed)
    BY <2>2, <2>3, FS_Subset
  <2> QED BY <2>1, <2>3, <2>4
<1>4. CASE failed # {}
  <2>1. Min(failed) \in failed /\ \A j \in failed : Min(failed) <= j
    <3> HIDE DEF failed
    <3> QED BY <1>3, <1>4, FiniteMin
  <2>2. result = built[Min(failed)]
    BY <1>1, <1>4
  <2> DEFINE i == Min(failed)
  <2>3. i \in DOMAIN built /\ HasFailed(built[i]) /\ result = built[i]
        /\ \A j \in DOMAIN built : HasFailed(built[j]) => i <= j
    BY <2>1, <2>2
  <2> HIDE DEF i
  <2> QED BY <2>3 DEF built, result
<1>5. CASE failed = {}
  <2>1. \A i \in DOMAIN built : ~HasFailed(built[i])
    BY <1>5
  <2>2. r.config.fusion \in {"rrf", "hybrid_rrf", "weighted", "max"}
    BY DEF Wanted
  <2>3. CASE r.config.fusion = "max"
    <3>1. result = Failed(<<"unknown", "fusion">>)
      BY <1>1, <1>5, <2>3
    <3>2. HasFailed(result) /\ result.error = <<"unknown", "fusion">>
      BY <3>1, FailuresFail
    <3> QED BY <2>1, <2>3, <3>2 DEF built, result
  <2>4. CASE r.config.fusion # "max"
    <3>1. result = [components |-> built, fusion |-> r.config.fusion]
      <4> HIDE DEF failed
      <4> QED BY <1>1, <1>5, <2>2, <2>4
    <3>2. ~HasFailed(result) /\ result.components = built
      BY <3>1, FailuresFail
    <3> QED BY <2>1, <2>4, <3>2 DEF built, result
  <2> QED BY <2>3, <2>4
<1> QED BY <1>4, <1>5

\* What becomes of a component, by the part of the request it is of.
RetrieverFate(b, name, w) ==
  \/ HasFailed(b) /\ b.error = <<"wiring", "index">> /\ name # "hybrid_rrf" /\ "index" \notin w
  \/ HasFailed(b) /\ b.error = <<"wiring", "embedder">> /\ name \in {"dense", "iterative"}
       /\ "index" \in w /\ "embedder" \notin w
  \/ ~HasFailed(b) /\ b.name = name /\ (name # "hybrid_rrf" => "index" \in w)
       /\ (name \in {"dense", "iterative"} => "embedder" \in w)
RerankerFate(b, name) ==
  \/ HasFailed(b) /\ b.error = <<"unknown", "component">> /\ name = "bm42"
  \/ ~HasFailed(b) /\ b.name = name /\ name # "bm42"
PostFate(b, name, w, lambda, allowed) ==
  \/ HasFailed(b) /\ b.error = <<"range", "parameter">> /\ name = "mmr" /\ lambda \notin allowed
  \/ HasFailed(b) /\ b.error = <<"wiring", "embedder">> /\ name = "mmr" /\ "embedder" \notin w
  \/ HasFailed(b) /\ b.error = <<"wiring", "fetch_parent">> /\ name = "parent_expander" /\ "fetch_parent" \notin w
  \/ /\ ~HasFailed(b) /\ b.name = name
     /\ name = "mmr" => lambda \in allowed /\ "embedder" \in w /\ b.params.lambda = lambda
     /\ name = "parent_expander" => "fetch_parent" \in w

LambdasAllowed ==
  LET range == Declared["post_processors"]["mmr"].lambda IN range.lo .. range.hi

\* The fates of all components of a request, part after part.
Fates(r, p, m, n, names, built) ==
  /\ p \in Nat \ {0} /\ m \in Nat /\ n \in Nat
  /\ DOMAIN built = 1 .. p + 1 + m + n /\ DOMAIN names = 1 .. p + 1 + m + n
  /\ DOMAIN r.config.retrievers = 1 .. p /\ DOMAIN r.config.post_processors = 1 .. m
  /\ \A i \in 1 .. p :
       /\ names[i] = r.config.retrievers[i]
       /\ names[i] \in {"dense", "sparse_bm25", "hybrid_rrf", "iterative"}
       /\ RetrieverFate(built[i], names[i], r.wiring)
  /\ names[p + 1] = r.config.reranker /\ names[p + 1] # "mmr"
  /\ RerankerFate(built[p + 1], names[p + 1])
  /\ \A i \in 1 .. m :
       /\ names[p + 1 + i] = r.config.post_processors[i]
       /\ PostFate(built[p + 1 + i], names[p + 1 + i], r.wiring, r.config.mmr_lambda, LambdasAllowed)
  /\ \A i \in 1 .. n :
       /\ names[p + 1 + m + i] # "mmr"
       /\ ~HasFailed(built[p + 1 + m + i]) /\ built[p + 1 + m + i].name = names[p + 1 + m + i]

LEMMA FatesDecided ==
  ASSUME NEW r \in Wanted
  PROVE  Fates(r, Len(r.config.retrievers), Len(r.config.post_processors), Len(r.config.query_ops),
               NamesOf(r.config), BuiltFor(r))
<1> DEFINE config == r.config
           w == r.wiring
           p == Len(config.retrievers)
           m == Len(config.post_processors)
           n == Len(config.query_ops)
           built == BuiltFor(r)
           names == NamesOf(config)
<1>1. /\ p \in Nat \ {0} /\ m \in Nat /\ n \in Nat
      /\ DOMAIN built = 1 .. p + 1 + m + n /\ DOMAIN names = 1 .. p + 1 + m + n
      /\ \A i \in 1 .. p :
           /\ names[i] = config.retrievers[i] /\ names[i] \in Names("retrievers")
           /\ built[i] = Instantiate("retrievers", names[i], << >>, w)
      /\ names[p + 1] = config.reranker /\ names[p + 1] \in Names("rerankers") \cup {"bm42"}
      /\ built[p + 1] = Instantiate("rerankers", names[p + 1], << >>, w)
      /\ \A i \in 1 .. m :
           /\ names[p + 1 + i] = config.post_processors[i]
           /\ names[p + 1 + i] \in Names("post_processors")
           /\ built[p + 1 + i] = Instantiate("post_processors", names[p + 1 + i],
                ParamsFor(config, "post_processors", names[p + 1 + i]), w)
      /\ \A i \in 1 .. n :
           /\ names[p + 1 + m + i] = config.query_ops[i]
           /\ names[p + 1 + m + i] \in Names("query_ops")
           /\ built[p + 1 + m + i] = Instantiate("query_ops", names[p + 1 + m + i], << >>, w)
  BY PlacesBuilt, Zenon
<1>2. DOMAIN config.retrievers = 1 .. p /\ DOMAIN config.post_processors = 1 .. m
  BY DEF Wanted
<1> HIDE DEF p, m, n, built, names, w, config
<1>3. ASSUME NEW i \in 1 .. p
      PROVE  /\ names[i] = config.retrievers[i]
             /\ names[i] \in {"dense", "sparse_bm25", "hybrid_rrf", "iterative"}
             /\ RetrieverFate(built[i], names[i], w)
  <2>1. names[i] \in Names("retrievers")
    BY <1>1
  <2>2. RetrieverFate(Instantiate("retrievers", names[i], << >>, w), names[i], w)
    BY <2>1, RetrieverBuilt, Zenon DEF RetrieverFate
  <2>3. names[i] \in {"dense", "sparse_bm25", "hybrid_rrf", "iterative"}
    BY <2>1, NamesKnown, NeedsAre
  <2> QED BY <1>1, <2>2, <2>3
<1>4. names[p + 1] # "mmr" /\ RerankerFate(built[p + 1], names[p + 1])
  <2>1. names[p + 1] \in Names("rerankers") \cup {"bm42"}
    BY <1>1
  <2>2. RerankerFate(Instantiate("rerankers", names[p + 1], << >>, w), names[p + 1])
    BY <2>1, RerankerBuilt, Zenon DEF RerankerFate
  <2>3. names[p + 1] # "mmr"
    BY <2>1, NamesKnown DEF NeedsOfReranker
  <2> QED BY <1>1, <2>2, <2>3
<1>5. ASSUME NEW i \in 1 .. m
      PROVE  /\ names[p + 1 + i] = config.post_processors[i]
             /\ PostFate(built[p + 1 + i], names[p + 1 + i], w, config.mmr_lambda, LambdasAllowed)
  <2> DEFINE name == names[p + 1 + i]
  <2>1. name \in Names("post_processors")
    BY <1>1
  <2> HIDE DEF name
  <2>2. PostFate(Instantiate("post_processors", name, ParamsFor(config, "post_processors", name), w),
                 name, w, config.mmr_lambda, LambdasAllowed)
    BY <2>1, PostBuilt, Zenon DEF PostFate, LambdasAllowed
  <2> QED BY <1>1, <2>2 DEF name
<1>6. ASSUME NEW i \in 1 .. n
      PROVE  /\ names[p + 1 + m + i] # "mmr"
             /\ ~HasFailed(built[p + 1 + m + i]) /\ built[p + 1 + m + i].name = names[p + 1 + m + i]
  <2> DEFINE name == names[p + 1 + m + i]
  <2>1. name \in Names("query_ops") /\ built[p + 1 + m + i] = Instantiate("query_ops", name, << >>, w)
    BY <1>1
  <2> HIDE DEF name
  <2> QED BY <2>1, QueryOpBuilt DEF name
<1>7. Fates(r, p, m, n, names, built)
  BY <1>1, <1>2, <1>3, <1>4, <1>5, <1>6, Zenon DEF Fates, config, w
<1> QED BY <1>7 DEF p, m, n, names, built, config

\* A request is realised whole or not at all, and fails for its first reason.
LEMMA RequestsRealised == wanted \in Wanted => RealisationSound
<1> SUFFICES ASSUME wanted \in Wanted PROVE RealisedWhole /\ FirstErrorFirst
  BY DEF RealisationSound
<1> DEFINE config == wanted.config
           w == wanted.wiring
           p == Len(config.retrievers)
           m == Len(config.post_processors)
           n == Len(config.query_ops)
           built == BuiltFor(wanted)
           names == NamesOf(config)
           result == PipelineFromRegistry(config, w)
<1>1. Fates(wanted, p, m, n, names, built)
  BY FatesDecided
<1>2. \/ \E i \in DOMAIN built :
           /\ HasFailed(built[i]) /\ result = built[i]
           /\ \A j \in DOMAIN built : HasFailed(built[j]) => i <= j
      \/ /\ \A i \in DOMAIN built : ~HasFailed(built[i])
         /\ \/ config.fusion = "max" /\ HasFailed(result) /\ result.error = <<"unknown", "fusion">>
            \/ config.fusion # "max" /\ ~HasFailed(result) /\ result.components = built
  BY FirstFailureDecides
<1> HIDE DEF p, m, n, built, names, result
<1> DEFINE Retrieves(those) == \E i \in DOMAIN config.retrievers : config.retrievers[i] \in those
           Processes(name) == \E i \in DOMAIN config.post_processors : config.post_processors[i] = name
           wired == /\ Retrieves({"dense", "sparse_bm25", "iterative"}) => "index" \in w
                    /\ Retrieves({"dense", "iterative"}) \/ Processes("mmr") => "embedder" \in w
                    /\ Processes("parent_expander") => "fetch_parent" \in w
           known == config.reranker # "bm42" /\ config.fusion # "max"
           inRange == Processes("mmr") => config.mmr_lambda \in LambdasAllowed
<1>3. /\ p \in Nat \ {0} /\ m \in Nat /\ n \in Nat /\ DOMAIN built = 1 .. p + 1 + m + n
      /\ DOMAIN names = DOMAIN built
      /\ DOMAIN config.retrievers = 1 .. p /\ DOMAIN config.post_processors = 1 .. m
  BY <1>1 DEF Fates
<1>4. \A i \in 1 .. p :
        /\ names[i] = config.retrievers[i]
        /\ names[i] \in {"dense", "sparse_bm25", "hybrid_rrf", "iterative"}
        /\ RetrieverFate(built[i], names[i], w)
  BY <1>1 DEF Fates
<1>5. names[p + 1] = config.reranker /\ names[p + 1] # "mmr" /\ RerankerFate(built[p + 1], names[p + 1])
  BY <1>1 DEF Fates
<1>6. \A i \in 1 .. m :
        /\ names[p + 1 + i] = config.post_processors[i]
        /\ PostFate(built[p + 1 + i], names[p + 1 + i], w, config.mmr_lambda, LambdasAllowed)
  BY <1>1 DEF Fates
<1>7. \A i \in 1 .. n :
        /\ names[p + 1 + m + i] # "mmr"
        /\ ~HasFailed(built[p + 1 + m + i]) /\ built[p + 1 + m + i].name = names[p + 1 + m + i]
  BY <1>1 DEF Fates
<1>8. \A i \in DOMAIN built :
        \/ i \in 1 .. p \/ i = p + 1
        \/ \E k \in 1 .. m : i = p + 1 + k
        \/ \E k \in 1 .. n : i = p + 1 + m + k
  <2> SUFFICES ASSUME NEW i \in 1 .. p + 1 + m + n
               PROVE  \/ i \in 1 .. p \/ i = p + 1
                      \/ \E k \in 1 .. m : i = p + 1 + k
                      \/ \E k \in 1 .. n : i = p + 1 + m + k
    BY <1>3
  <2>1. p \in Nat /\ m \in Nat /\ n \in Nat
    BY <1>3
  <2>2. \/ i \in 1 .. p
        \/ i = p + 1
        \/ i - (p + 1) \in 1 .. m /\ i = p + 1 + (i - (p + 1))
        \/ i - (p + 1 + m) \in 1 .. n /\ i = p + 1 + m + (i - (p + 1 + m))
    BY <2>1, PlaceOfFour
  <2> QED BY <2>2, Zenon
<1>9. /\ \A i \in 1 .. p : i \in DOMAIN built
      /\ p + 1 \in DOMAIN built /\ 1 \in 1 .. p
      /\ \A i \in 1 .. m : p + 1 + i \in DOMAIN built
  BY <1>3
<1> HIDE DEF config, w
<1>10. ASSUME wired, known, inRange, NEW i \in DOMAIN built PROVE ~HasFailed(built[i])
  <2>1. CASE i \in 1 .. p
    <3>1. /\ names[i] # "hybrid_rrf" => "index" \in w
          /\ names[i] \in {"dense", "iterative"} => "embedder" \in w
      BY <1>3, <1>4, <1>10, <2>1
    <3> QED BY <1>4, <2>1, <3>1 DEF RetrieverFate
  <2>2. CASE i = p + 1
    BY <1>5, <1>10, <2>2 DEF RerankerFate
  <2>3. CASE \E k \in 1 .. m : i = p + 1 + k
    <3>1. PICK k \in 1 .. m : i = p + 1 + k
      BY <2>3
    <3>2. /\ names[i] = config.post_processors[k] /\ k \in DOMAIN config.post_processors
          /\ PostFate(built[i], names[i], w, config.mmr_lambda, LambdasAllowed)
      BY <1>3, <1>6, <3>1
    <3>3. /\ names[i] = "mmr" => config.mmr_lambda \in LambdasAllowed /\ "embedder" \in w
          /\ names[i] = "parent_expander" => "fetch_parent" \in w
      BY <1>10, <3>2
    <3> QED BY <3>2, <3>3 DEF PostFate
  <2>4. CASE \E k \in 1 .. n : i = p + 1 + m + k
    BY <1>7, <2>4
  <2> QED BY <1>8, <2>1, <2>2, <2>3, <2>4
<1>11. ASSUME \A i \in DOMAIN built : ~HasFailed(built[i])
       PROVE  wired /\ config.reranker # "bm42" /\ inRange
  <2>1. ASSUME NEW i \in 1 .. p
        PROVE  /\ config.retrievers[i] # "hybrid_rrf" => "index" \in w
               /\ config.retrievers[i] \in {"dense", "iterative"} => "embedder" \in w
    BY <1>4, <1>9, <1>11 DEF RetrieverFate
  <2>2. ASSUME NEW i \in 1 .. m
        PROVE  /\ config.post_processors[i] = "mmr" => "embedder" \in w /\ config.mmr_lambda \in LambdasAllowed
               /\ config.post_processors[i] = "parent_expander" => "fetch_parent" \in w
    BY <1>6, <1>9, <1>11 DEF PostFate
  <2>3. config.reranker # "bm42"
    BY <1>5, <1>9, <1>11 DEF RerankerFate
  <2> QED BY <1>3, <2>1, <2>2, <2>3
<1>12. ~HasFailed(result) <=> wired /\ known /\ inRange
  <2>1. ASSUME ~HasFailed(result) PROVE wired /\ known /\ inRange
    <3>1. (\A i \in DOMAIN built : ~HasFailed(built[i])) /\ config.fusion # "max"
      BY <1>2, <2>1
    <3> HIDE DEF wired, inRange
    <3> QED BY <1>11, <3>1
  <2>2. ASSUME wired, known, inRange PROVE ~HasFailed(result)
    <3>1. \A i \in DOMAIN built : ~HasFailed(built[i])
      BY <1>10, <2>2
    <3> QED BY <1>2, <2>2, <3>1
  <2> HIDE DEF wired, known, inRange
  <2> QED BY <2>1, <2>2
<1>13. ASSUME ~HasFailed(result), NEW i \in DOMAIN names \cup DOMAIN result.components
       PROVE  /\ result.components[i].name = names[i]
              /\ names[i] = "mmr" => result.components[i].params.lambda = config.mmr_lambda
  <2>1. result.components = built /\ (\A j \in DOMAIN built : ~HasFailed(built[j])) /\ i \in DOMAIN built
    BY <1>2, <1>3, <1>13
  <2>2. built[i].name = names[i] /\ (names[i] = "mmr" => built[i].params.lambda = config.mmr_lambda)
    <3>1. CASE i \in 1 .. p
      BY <1>4, <2>1, <3>1 DEF RetrieverFate
    <3>2. CASE i = p + 1
      BY <1>5, <2>1, <3>2 DEF RerankerFate
    <3>3. CASE \E k \in 1 .. m : i = p + 1 + k
      <4>1. PostFate(built[i], names[i], w, config.mmr_lambda, LambdasAllowed)
        BY <1>6, <3>3
      <4> QED BY <2>1, <4>1 DEF PostFate
    <3>4. CASE \E k \in 1 .. n : i = p + 1 + m + k
      BY <1>7, <3>4
    <3> QED BY <1>8, <2>1, <3>1, <3>2, <3>3, <3>4
  <2> QED BY <2>1, <2>2
<1>14. RealisedWhole
  BY <1>12, <1>13, Zenon DEF RealisedWhole, NamesOf, LambdasAllowed, config, w, names, result
<1>15. ASSUME HasFailed(result), "index" \notin w, config.retrievers[1] # "hybrid_rrf"
       PROVE  result.error = <<"wiring", "index">>
  <2>1. HasFailed(built[1]) /\ built[1].error = <<"wiring", "index">>
    BY <1>4, <1>9, <1>15 DEF RetrieverFate
  <2>2. PICK i \in DOMAIN built : result = built[i] /\ \A j \in DOMAIN built : HasFailed(built[j]) => i <= j
    BY <1>2, <1>9, <2>1
  <2>3. i <= 1 /\ i \in 1 .. p + 1 + m + n
    BY <1>3, <1>9, <2>1, <2>2
  <2>4. i = 1
    BY <1>3, <2>3
  <2> QED BY <2>1, <2>2, <2>4
<1>16. ASSUME HasFailed(result), config.reranker = "bm42"
       PROVE  result.error \in {<<"wiring", "index">>, <<"wiring", "embedder">>, <<"unknown", "component">>}
  <2>1. HasFailed(built[p + 1]) /\ built[p + 1].error = <<"unknown", "component">>
    BY <1>5, <1>16 DEF RerankerFate
  <2>2. PICK i \in DOMAIN built : /\ HasFailed(built[i]) /\ result = built[i]
                                  /\ \A j \in DOMAIN built : HasFailed(built[j]) => i <= j
    BY <1>2, <1>9, <2>1
  <2>3. i <= p + 1 /\ i \in 1 .. p + 1 + m + n
    BY <1>3, <1>9, <2>1, <2>2
  <2>4. i \in 1 .. p \/ i = p + 1
    BY <1>3, <2>3
  <2>5. CASE i \in 1 .. p
    BY <1>4, <2>2, <2>5 DEF RetrieverFate
  <2>6. CASE i = p + 1
    BY <2>1, <2>2, <2>6
  <2> QED BY <2>4, <2>5, <2>6
<1>17. ASSUME HasFailed(result), result.error = <<"unknown", "fusion">>
       PROVE  "fetch_parent" \in w \/ ~Processes("parent_expander")
  <2>1. ASSUME NEW i \in DOMAIN built, HasFailed(built[i])
        PROVE  built[i].error # <<"unknown", "fusion">>
    <3>1. CASE i \in 1 .. p
      BY <1>4, <2>1, <3>1 DEF RetrieverFate
    <3>2. CASE i = p + 1
      BY <1>5, <2>1, <3>2 DEF RerankerFate
    <3>3. CASE \E k \in 1 .. m : i = p + 1 + k
      <4>1. PostFate(built[i], names[i], w, config.mmr_lambda, LambdasAllowed)
        BY <1>6, <3>3
      <4> QED BY <2>1, <4>1 DEF PostFate
    <3>4. CASE \E k \in 1 .. n : i = p + 1 + m + k
      BY <1>7, <2>1, <3>4
    <3> QED BY <1>8, <3>1, <3>2, <3>3, <3>4
  <2>2. \A i \in DOMAIN built : ~HasFailed(built[i])
    BY <1>2, <1>17, <2>1
  <2>3. wired
    BY <1>11, <2>2
  <2> QED BY <2>3
<1>18. FirstErrorFirst
  BY <1>15, <1>16, <1>17, Zenon DEF FirstErrorFirst, config, w, result
<1> QED BY <1>14, <1>18

\* What a run asks for are requests.
LEMMA RunsAskRequests == RegistryInit => wanted \in Wanted
<1> SUFFICES ASSUME RegistryInit PROVE wanted \in Wanted
  OBVIOUS
<1>1. ASSUME NEW names, NEW most \in Nat, NEW s \in Subsequences(names, most) PROVE s \in Seq(names)
  BY DEF Subsequences
<1>2. PICK wiring \in SUBSET Wiring, lambda \in Lambdas,
          retrievers \in Subsequences(Names("retrievers"), 2) \ {<< >>}, reranker \in Names("rerankers") \cup {"bm42"},
          posts \in Subsequences(Names("post_processors"), 2), ops \in Subsequences(Names("query_ops"), 1),
          fusion \in {"rrf", "weighted", "max"} :
        wanted = [wiring |-> wiring, config |->
          [retrievers |-> retrievers, reranker |-> reranker, post_processors |-> posts, query_ops |-> ops,
           mmr_lambda |-> lambda, fusion |-> fusion]]
  BY DEF RegistryInit
<1>3. /\ retrievers \in Seq(Names("retrievers")) \ {<< >>} /\ posts \in Seq(Names("post_processors"))
      /\ ops \in Seq(Names("query_ops"))
  BY <1>1
<1> QED BY <1>2, <1>3 DEF Wanted

\* However many components a request names, whatever is declared of them and
\* whatever wiring there is: it is realised whole, in its own order and with its
\* own parameters, or fails with the error of the first thing that is missing.
THEOREM RealisationHolds == RegistrySpec => []RealisationSound
<1>1. wanted \in Wanted /\ UNCHANGED wanted => (wanted \in Wanted)'
  OBVIOUS
<1> QED BY <1>1, RequestsRealised, PTL DEF RegistrySpec

-----------------------------------------------------------------------------
(***************************************************************************)
(* Genomes, for any registry whose parameters have defaults within their   *)
(* ranges, any population and any number of generations: a child has every *)
(* gene within its choices, as its parents have.                           *)
(***************************************************************************)

\* A step of a parameter stays in its range.
LEMMA SteppedInRange ==
  ASSUME NEW spec, WellDeclared(spec), NEW v \in spec.lo .. spec.hi, NEW w \in StepParam(spec, v)
  PROVE  w \in spec.lo .. spec.hi
<1> DEFINE clamp(x) == Max({spec.lo, Min({spec.hi, x})})
<1>1. spec.lo \in Int /\ spec.hi \in Int /\ spec.type \in {"enum", "int", "float"} /\ v \in Int
      /\ spec.lo <= spec.hi
  BY DEF WellDeclared
<1>2. ASSUME NEW x \in Int PROVE clamp(x) \in spec.lo .. spec.hi
  <2> DEFINE least == Min({spec.hi, x})
  <2>1. least \in Int /\ least <= spec.hi
    BY <1>1, MinOfTwo
  <2> HIDE DEF least
  <2>2. Max({spec.lo, least}) \in {spec.lo, least} /\ Max({spec.lo, least}) >= spec.lo
    BY <1>1, <2>1, MaxOfTwo
  <2> QED BY <1>1, <2>1, <2>2 DEF least
<1> HIDE DEF clamp
<1>3. CASE spec.type = "enum"
  <2>1. w \in OtherChoice(v, spec.lo .. spec.hi)
    BY <1>3 DEF StepParam, SampleSpec
  <2> QED BY <2>1 DEF OtherChoice
<1>4. CASE spec.type = "int"
  <2>1. w \in {clamp(v - 1), clamp(v + 1)}
    BY <1>4 DEF StepParam, clamp
  <2> QED BY <1>1, <1>2, <2>1
<1>5. CASE spec.type = "float"
  <2>1. w \in {clamp(v - 1), clamp(v), clamp(v + 1)}
    BY <1>5 DEF StepParam, clamp
  <2> QED BY <1>1, <1>2, <2>1
<1> QED BY <1>1, <1>3, <1>4, <1>5

\* Choosing another keeps to the choices.
LEMMA OtherIsChoice ==
  ASSUME NEW choices, NEW chosen \in choices, NEW other \in OtherChoice(chosen, choices)
  PROVE  other \in choices
BY DEF OtherChoice

\* A list with one element more that it does not have.
LEMMA InsertedInto ==
  ASSUME NEW T, NEW items \in Seq(T), IsInjective(items), NEW i \in 1 .. Len(items) + 1,
         NEW x \in T, x \notin ToSet(items), NEW more, more = InsertAt(items, i, x)
  PROVE  more \in Seq(T) /\ IsInjective(more) /\ more # << >>
<1> DEFINE n == Len(items)
           a == SubSeq(items, 1, i - 1)
           b == SubSeq(items, i, n)
           front == a \o <<x>>
           Item(j) == IF j < i THEN items[j] ELSE IF j = i THEN x ELSE items[j - 1]
<1>1. n \in Nat /\ DOMAIN items = 1 .. n /\ \A j \in 1 .. n : items[j] \in T
  OBVIOUS
<1>2. i \in Nat /\ 1 <= i /\ i <= n + 1
  BY <1>1
<1>3. a \in Seq(T) /\ Len(a) = i - 1 /\ \A j \in 1 .. i - 1 : a[j] = items[j]
  <2>1. \A j \in 1 .. i - 1 : items[j] \in T
    BY <1>1, <1>2
  <2> HIDE DEF n
  <2>2. /\ a \in Seq(T) /\ Len(a) = IF 1 <= i - 1 THEN (i - 1) - 1 + 1 ELSE 0
        /\ \A j \in 1 .. (i - 1) - 1 + 1 : a[j] = items[1 + j - 1]
    BY <1>2, <2>1, SubSeqProperties
  <2>3. \A j \in 1 .. i - 1 : j \in 1 .. (i - 1) - 1 + 1 /\ 1 + j - 1 = j
    BY <1>2
  <2> QED BY <1>2, <2>2, <2>3
<1>4. b \in Seq(T) /\ Len(b) = n - i + 1 /\ \A j \in 1 .. n - i + 1 : b[j] = items[i + j - 1]
  <2>1. \A j \in i .. n : items[j] \in T
    BY <1>1, <1>2
  <2> HIDE DEF n
  <2>2. /\ b \in Seq(T) /\ Len(b) = IF i <= n THEN n - i + 1 ELSE 0
        /\ \A j \in 1 .. n - i + 1 : b[j] = items[i + j - 1]
    BY <1>1, <1>2, <2>1, SubSeqProperties
  <2> QED BY <1>1, <1>2, <2>2
<1> HIDE DEF n, a, b
<1>5. /\ front \in Seq(T) /\ Len(front) = i /\ front[i] = x
      /\ \A j \in 1 .. i - 1 : front[j] = items[j]
  <2>1. <<x>> \in Seq(T) /\ Len(<<x>>) = 1 /\ <<x>>[1] = x /\ 1 \in 1 .. 1
    OBVIOUS
  <2>2. /\ front \in Seq(T) /\ Len(front) = Len(a) + 1
        /\ \A j \in 1 .. Len(a) : front[j] = a[j]
        /\ front[Len(a) + 1] = x
    BY <1>3, <2>1, TwoParts
  <2> HIDE DEF front
  <2>3. Len(a) + 1 = i
    BY <1>2, <1>3
  <2> QED BY <1>3, <2>2, <2>3
<1> HIDE DEF front
<1>6. /\ more \in Seq(T) /\ Len(more) = i + (n - i + 1)
      /\ \A j \in 1 .. i : more[j] = front[j]
      /\ \A j \in 1 .. n - i + 1 : more[i + j] = b[j]
  <2>1. more = front \o b
    BY DEF InsertAt, front, a, b, n
  <2>2. /\ more \in Seq(T) /\ Len(more) = Len(front) + Len(b)
        /\ \A j \in 1 .. Len(front) : more[j] = front[j]
        /\ \A j \in 1 .. Len(b) : more[Len(front) + j] = b[j]
    <3>1. front \in Seq(T) /\ b \in Seq(T)
      BY <1>4, <1>5
    <3> DEFINE both == front \o b
    <3>2. /\ both \in Seq(T) /\ Len(both) = Len(front) + Len(b)
          /\ \A j \in 1 .. Len(front) : both[j] = front[j]
          /\ \A j \in 1 .. Len(b) : both[Len(front) + j] = b[j]
      BY <3>1, TwoParts
    <3> QED BY <2>1, <3>2, Zenon
  <2> HIDE DEF Item
  <2> QED BY <1>4, <1>5, <2>2
<1>7. DOMAIN more = 1 .. n + 1
  <2>1. i + (n - i + 1) = n + 1 /\ n + 1 \in Nat
    BY <1>1, <1>2
  <2> QED BY <1>6, <2>1
<1>8. ASSUME NEW j \in 1 .. n + 1 PROVE more[j] = Item(j)
  <2>1. CASE j < i
    <3>1. j \in 1 .. i /\ j \in 1 .. i - 1
      BY <1>1, <1>2, <2>1
    <3> QED BY <1>5, <1>6, <2>1, <3>1
  <2>2. CASE j = i
    <3>1. i \in 1 .. i /\ ~(i < i)
      BY <1>2
    <3> QED BY <1>5, <1>6, <2>2, <3>1
  <2>3. CASE i < j
    <3> DEFINE k == j - i
    <3>1. k \in 1 .. n - i + 1 /\ i + k = j /\ i + k - 1 = j - 1 /\ ~(j < i) /\ j # i
      BY <1>1, <1>2, <2>3
    <3> HIDE DEF k
    <3>2. more[i + k] = items[i + k - 1]
      BY <1>4, <1>6, <3>1
    <3> QED BY <3>1, <3>2
  <2> QED BY <1>1, <1>2, <2>1, <2>2, <2>3
<1> HIDE DEF Item
<1>9. ASSUME NEW j \in 1 .. n + 1, NEW k \in 1 .. n + 1, j < k PROVE Item(j) # Item(k)
  <2>1. \A p \in 1 .. n : items[p] # x
    BY <1>1 DEF ToSet
  <2>2. \A p, q \in 1 .. n : p # q => items[p] # items[q]
    BY <1>1 DEF IsInjective
  <2>3. CASE k < i
    <3>1. j \in 1 .. n /\ k \in 1 .. n /\ j # k /\ j < i
      BY <1>1, <1>2, <1>9, <2>3
    <3> QED BY <2>2, <2>3, <3>1 DEF Item
  <2>4. CASE k = i
    <3>1. j \in 1 .. n /\ j < i /\ ~(k < i)
      BY <1>1, <1>2, <1>9, <2>4
    <3> QED BY <2>1, <2>4, <3>1 DEF Item
  <2>5. CASE i < k /\ j < i
    <3>1. j \in 1 .. n /\ k - 1 \in 1 .. n /\ j # k - 1 /\ ~(k < i) /\ k # i
      BY <1>1, <1>2, <1>9, <2>5
    <3> QED BY <2>2, <2>5, <3>1 DEF Item
  <2>6. CASE i < k /\ j = i
    <3>1. k - 1 \in 1 .. n /\ ~(k < i) /\ k # i /\ ~(j < i)
      BY <1>1, <1>2, <1>9, <2>6
    <3> QED BY <2>1, <2>6, <3>1 DEF Item
  <2>7. CASE i < k /\ i < j
    <3>1. j - 1 \in 1 .. n /\ k - 1 \in 1 .. n /\ j - 1 # k - 1
          /\ ~(k < i) /\ k # i /\ ~(j < i) /\ j # i
      BY <1>1, <1>2, <1>9, <2>7
    <3> QED BY <2>2, <3>1 DEF Item
  <2> QED BY <1>1, <1>2, <2>3, <2>4, <2>5, <2>6, <2>7
<1>10. \A j, k \in 1 .. n + 1 : j < k => more[j] # more[k]
  BY <1>8, <1>9
<1>11. IsInjective(more)
  <2>1. \A j, k \in 1 .. n + 1 : j = k \/ j < k \/ k < j
    BY <1>1
  <2> QED BY <1>7, <1>10, <2>1 DEF IsInjective
<1>12. more # << >>
  <2>1. 1 \in DOMAIN more
    BY <1>1, <1>7
  <2> QED BY <2>1
<1> QED BY <1>6, <1>11, <1>12

\* A list with one element less.
LEMMA RemovedFrom ==
  ASSUME NEW T, NEW items \in Seq(T), IsInjective(items), Len(items) > 1,
         NEW i \in 1 .. Len(items), NEW less, less = RemoveAt(items, i)
  PROVE  less \in Seq(T) /\ IsInjective(less) /\ less # << >>
<1> DEFINE n == Len(items)
           a == SubSeq(items, 1, i - 1)
           b == SubSeq(items, i + 1, n)
           Item(j) == IF j < i THEN j ELSE j + 1
<1>1. n \in Nat /\ 1 < n /\ DOMAIN items = 1 .. n /\ \A j \in 1 .. n : items[j] \in T
  OBVIOUS
<1>2. i \in Nat /\ 1 <= i /\ i <= n
  BY <1>1
<1>3. a \in Seq(T) /\ Len(a) = i - 1 /\ \A j \in 1 .. i - 1 : a[j] = items[j]
  <2>1. \A j \in 1 .. i - 1 : items[j] \in T
    BY <1>1, <1>2
  <2> HIDE DEF n
  <2>2. /\ a \in Seq(T) /\ Len(a) = IF 1 <= i - 1 THEN (i - 1) - 1 + 1 ELSE 0
        /\ \A j \in 1 .. (i - 1) - 1 + 1 : a[j] = items[1 + j - 1]
    BY <1>2, <2>1, SubSeqProperties
  <2>3. \A j \in 1 .. i - 1 : j \in 1 .. (i - 1) - 1 + 1 /\ 1 + j - 1 = j
    BY <1>2
  <2> QED BY <1>2, <2>2, <2>3
<1>4. b \in Seq(T) /\ Len(b) = n - i /\ \A j \in 1 .. n - i : b[j] = items[i + j]
  <2>1. \A j \in i + 1 .. n : items[j] \in T
    BY <1>1, <1>2
  <2> HIDE DEF n
  <2>2. /\ b \in Seq(T) /\ Len(b) = IF i + 1 <= n THEN n - (i + 1) + 1 ELSE 0
        /\ \A j \in 1 .. n - (i + 1) + 1 : b[j] = items[(i + 1) + j - 1]
    BY <1>1, <1>2, <2>1, SubSeqProperties
  <2>3. \A j \in 1 .. n - i : j \in 1 .. n - (i + 1) + 1 /\ (i + 1) + j - 1 = i + j
    BY <1>1, <1>2
  <2> QED BY <1>1, <1>2, <2>2, <2>3
<1> HIDE DEF n, a, b
<1>5. /\ less \in Seq(T) /\ Len(less) = (i - 1) + (n - i)
      /\ \A j \in 1 .. i - 1 : less[j] = a[j]
      /\ \A j \in 1 .. n - i : less[(i - 1) + j] = b[j]
  <2>1. less = a \o b
    BY DEF RemoveAt, a, b, n
  <2>2. /\ less \in Seq(T) /\ Len(less) = Len(a) + Len(b)
        /\ \A j \in 1 .. Len(a) : less[j] = a[j]
        /\ \A j \in 1 .. Len(b) : less[Len(a) + j] = b[j]
    <3>1. a \in Seq(T) /\ b \in Seq(T)
      BY <1>3, <1>4
    <3> DEFINE both == a \o b
    <3>2. /\ both \in Seq(T) /\ Len(both) = Len(a) + Len(b)
          /\ \A j \in 1 .. Len(a) : both[j] = a[j]
          /\ \A j \in 1 .. Len(b) : both[Len(a) + j] = b[j]
      BY <3>1, TwoParts
    <3> QED BY <2>1, <3>2, Zenon
  <2> QED BY <1>3, <1>4, <2>2
<1>6. DOMAIN less = 1 .. n - 1
  <2>1. (i - 1) + (n - i) = n - 1 /\ n - 1 \in Nat
    BY <1>1, <1>2
  <2> QED BY <1>5, <2>1
<1>7. ASSUME NEW j \in 1 .. n - 1 PROVE less[j] = items[Item(j)] /\ Item(j) \in 1 .. n
  <2>1. CASE j < i
    <3>1. j \in 1 .. i - 1 /\ j \in 1 .. n
      BY <1>1, <1>2, <2>1
    <3> QED BY <1>3, <1>5, <2>1, <3>1
  <2>2. CASE ~(j < i)
    <3> DEFINE k == j - (i - 1)
    <3>1. k \in 1 .. n - i /\ (i - 1) + k = j /\ i + k = j + 1 /\ j + 1 \in 1 .. n
      BY <1>1, <1>2, <2>2
    <3> HIDE DEF k
    <3>2. less[(i - 1) + k] = items[i + k]
      BY <1>4, <1>5, <3>1
    <3> QED BY <2>2, <3>1, <3>2
  <2> QED BY <2>1, <2>2
<1>8. \A j, k \in 1 .. n - 1 : j # k => Item(j) # Item(k)
  BY <1>1, <1>2
<1> HIDE DEF Item
<1>9. \A p, q \in 1 .. n : items[p] = items[q] => p = q
  BY <1>1 DEF IsInjective
<1>10. IsInjective(less)
  BY <1>6, <1>7, <1>8, <1>9 DEF IsInjective
<1>11. less # << >>
  <2>1. 1 \in DOMAIN less
    BY <1>1, <1>6
  <2> QED BY <2>1
<1> QED BY <1>5, <1>10, <1>11

\* Stepping a list keeps to its pool, has nothing twice, and does not empty it.
LEMMA SteppedList ==
  ASSUME NEW pool, NEW items \in Seq(pool), IsInjective(items), NEW new \in StepSubset(items, pool)
  PROVE  new \in Seq(pool) /\ IsInjective(new) /\ (items # << >> => new # << >>)
<1> DEFINE addable == pool \ ToSet(items)
<1>1. Len(items) \in Nat /\ DOMAIN items = 1 .. Len(items)
  OBVIOUS
<1>2. \/ \E i \in 1 .. Len(items) + 1 : \E x \in addable : new = InsertAt(items, i, x)
      \/ Len(items) > 1 /\ \E i \in DOMAIN items : new = RemoveAt(items, i)
      \/ \E i \in DOMAIN items : \E x \in addable : new = [items EXCEPT ![i] = x]
      \/ new = items
  BY DEF StepSubset
<1>3. ASSUME NEW i \in 1 .. Len(items) + 1, NEW x \in addable, new = InsertAt(items, i, x)
      PROVE  new \in Seq(pool) /\ IsInjective(new) /\ new # << >>
  BY <1>3, InsertedInto
<1>4. ASSUME Len(items) > 1, NEW i \in DOMAIN items, new = RemoveAt(items, i)
      PROVE  new \in Seq(pool) /\ IsInjective(new) /\ new # << >>
  BY <1>1, <1>4, RemovedFrom
<1>5. ASSUME NEW i \in DOMAIN items, NEW x \in addable, new = [items EXCEPT ![i] = x]
      PROVE  new \in Seq(pool) /\ IsInjective(new) /\ new # << >>
  <2>1. x \in pool /\ \A j \in DOMAIN items : items[j] # x /\ items[j] \in pool
    BY DEF ToSet
  <2>2. DOMAIN new = DOMAIN items /\ \A j \in DOMAIN items : new[j] = IF j = i THEN x ELSE items[j]
    BY <1>5
  <2>3. new \in Seq(pool)
    BY <1>1, <1>5, <2>1
  <2>4. IsInjective(new)
    BY <2>1, <2>2 DEF IsInjective
  <2>5. new # << >>
    BY <2>2
  <2> QED BY <2>3, <2>4, <2>5
<1> QED BY <1>2, <1>3, <1>4, <1>5

\* Parameters a component may be given.
InRange(params, given) ==
  /\ given \in [DOMAIN given -> Int] /\ DOMAIN given \subseteq DOMAIN params
  /\ \A p \in DOMAIN given : given[p] \in params[p].lo .. params[p].hi

DeclaredParams(params) == \A p \in DOMAIN params : WellDeclared(params[p])

\* With defaults in their ranges, what is built are exactly the parameters in range.
LEMMA BuildsInRange ==
  ASSUME NEW slot \in Slots, NEW name \in DOMAIN Specs[slot], NEW given, given \in [DOMAIN given -> Int]
  PROVE  Buildable(slot, name, given) <=> InRange(Specs[slot][name], given)
<1> DEFINE params == Specs[slot][name]
<1>1. DeclaredParams(params)
  BY GenomeAssumption DEF DeclaredParams
<1>2. \A p \in DOMAIN given : given[p] \in Int
  OBVIOUS
<1>3. Buildable(slot, name, given) <=> ValidParams(params, given)
  BY DEF Buildable
<1> HIDE DEF params
<1>4. ASSUME InRange(params, given) PROVE ValidParams(params, given)
  <2>1. ASSUME NEW p \in DOMAIN params PROVE ValidValue(params[p], Merged(params, given)[p])
    <3>1. /\ params[p].lo \in Int /\ params[p].hi \in Int
          /\ params[p].default \in params[p].lo .. params[p].hi
      BY <1>1 DEF DeclaredParams, WellDeclared
    <3>2. Merged(params, given)[p] = IF p \in DOMAIN given THEN given[p] ELSE params[p].default
      BY DEF Merged
    <3>3. Merged(params, given)[p] \in params[p].lo .. params[p].hi
      BY <1>4, <3>1, <3>2 DEF InRange
    <3> QED BY <3>1, <3>3 DEF ValidValue
  <2> QED BY <1>4, <2>1 DEF ValidParams, InRange
<1>5. ASSUME ValidParams(params, given) PROVE InRange(params, given)
  <2>1. DOMAIN given \subseteq DOMAIN params
    BY <1>5 DEF ValidParams
  <2>2. ASSUME NEW p \in DOMAIN given PROVE given[p] \in params[p].lo .. params[p].hi
    <3>1. params[p].lo \in Int /\ params[p].hi \in Int
      BY <1>1, <2>1 DEF DeclaredParams, WellDeclared
    <3>2. Merged(params, given)[p] = given[p]
      BY DEF Merged
    <3>3. ValidValue(params[p], given[p])
      BY <1>5, <2>1, <3>2 DEF ValidParams
    <3> QED BY <1>2, <3>1, <3>3 DEF ValidValue
  <2> QED BY <2>1, <2>2 DEF InRange
<1> QED BY <1>3, <1>4, <1>5 DEF params

\* A genome all of whose genes are within their choices.
WithinChoices(g) ==
  /\ DOMAIN g = Fields
  /\ \A slot \in Slots : g[slot] \in DOMAIN Specs[slot] /\ InRange(Specs[slot][g[slot]], g[ParamsOf(slot)])
  /\ g["reranker"] \in Rerankers /\ g["fusion"] \in FusionChoices
  /\ \A list \in Lists : g[list] \in Seq(Pools[list]) /\ IsInjective(g[list])
  /\ g["retrievers"] # << >>
  /\ \A p \in Parameters : g[p] \in Numbers[p].lo .. Numbers[p].hi

LEMMA GoodIsChoices ==
  ASSUME NEW g
  PROVE  KnownGood(g) <=> WithinChoices(g)
<1>1. \A p \in Parameters : Numbers[p].lo \in Int /\ Numbers[p].hi \in Int
  BY GenomeAssumption DEF WellDeclared
<1>2. ASSUME NEW slot \in Slots, NEW given
      PROVE  (given \in [DOMAIN given -> Int] /\ Buildable(slot, g[slot], given))
               <=> (g[slot] \in DOMAIN Specs[slot] /\ InRange(Specs[slot][g[slot]], given))
  <2>1. Buildable(slot, g[slot], given) => g[slot] \in DOMAIN Specs[slot]
    BY DEF Buildable
  <2>2. InRange(Specs[slot][g[slot]], given) => given \in [DOMAIN given -> Int]
    BY DEF InRange
  <2> QED BY <2>1, <2>2, BuildsInRange
<1>3. \A slot \in Slots :
        (g[ParamsOf(slot)] \in [DOMAIN g[ParamsOf(slot)] -> Int] /\ Buildable(slot, g[slot], g[ParamsOf(slot)]))
          <=> (g[slot] \in DOMAIN Specs[slot] /\ InRange(Specs[slot][g[slot]], g[ParamsOf(slot)]))
  BY <1>2
<1>4. \A p \in Parameters : (g[p] \in Int /\ ValidValue(Numbers[p], g[p])) <=> g[p] \in Numbers[p].lo .. Numbers[p].hi
  BY <1>1 DEF ValidValue
<1> QED BY <1>3, <1>4 DEF KnownGood, WithinChoices

\* The fields, and which of them are what.
LEMMA FieldNames ==
  /\ Slots \subseteq Fields /\ Lists \subseteq Fields /\ Parameters \subseteq Fields
  /\ \A slot \in Slots : ParamsOf(slot) \in Fields \ (Slots \cup Lists \cup Parameters \cup {"reranker", "fusion"})
  /\ \A slot, other \in Slots : ParamsOf(slot) = ParamsOf(other) => slot = other
  /\ {"reranker", "fusion"} \subseteq Fields \ (Slots \cup Lists \cup Parameters)
  /\ Slots \cap (Lists \cup Parameters) = {} /\ Lists \cap Parameters = {}
  /\ "retrievers" \in Lists
  /\ Fields = Slots \cup Lists \cup Parameters \cup {"reranker", "fusion"} \cup {ParamsOf(slot) : slot \in Slots}
BY DEF Fields, Slots, Lists, Parameters, ParamsOf

\* A list drawn from a pool.
LEMMA RandomList ==
  ASSUME NEW list \in Lists, NEW least \in Nat, NEW s \in RandomSubset(Pools[list], least)
  PROVE  s \in Seq(Pools[list]) /\ IsInjective(s) /\ (least > 0 => s # << >>)
<1>1. Cardinality(Pools[list]) \in Nat
  BY GenomeAssumption, FS_CardinalityType
<1>2. PICK n \in least .. Cardinality(Pools[list]) : s \in [1 .. n -> Pools[list]]
  BY DEF RandomSubset
<1>3. n \in Nat /\ (least > 0 => 1 \in DOMAIN s)
  BY <1>1, <1>2
<1>4. IsInjective(s)
  BY DEF RandomSubset
<1> QED BY <1>2, <1>3, <1>4

\* A seed is drawn from the choices.
LEMMA RandomGood ==
  ASSUME NEW g \in RandomConfigs
  PROVE  WithinChoices(g)
<1> DEFINE Draws(c, e) ==
             [chunker : {c}, chunker_params : SampleParams(Specs["chunker"][c]),
              enricher : {e}, enricher_params : SampleParams(Specs["enricher"][e]),
              retrievers : RandomSubset(Pools["retrievers"], 1),
              fusion : FusionChoices,
              rrf_k : SampleSpec(Numbers["rrf_k"]),
              reranker : Rerankers,
              reranker_top_k : SampleSpec(Numbers["reranker_top_k"]),
              post_processors : RandomSubset(Pools["post_processors"], 0),
              mmr_lambda : SampleSpec(Numbers["mmr_lambda"]),
              query_ops : RandomSubset(Pools["query_ops"], 0)]
<1>1. PICK c \in DOMAIN Specs["chunker"], e \in DOMAIN Specs["enricher"] : g \in Draws(c, e)
  <2>1. g \in UNION {Draws(c, e) : c \in DOMAIN Specs["chunker"], e \in DOMAIN Specs["enricher"]}
    BY DEF RandomConfigs
  <2> HIDE DEF Draws
  <2> QED BY <2>1
<1>2. DOMAIN g = Fields
  BY <1>1 DEF Fields, Slots, Lists, Parameters
<1>3. /\ g["chunker"] = c /\ g["chunker_params"] \in SampleParams(Specs["chunker"][c])
      /\ g["enricher"] = e /\ g["enricher_params"] \in SampleParams(Specs["enricher"][e])
      /\ g["retrievers"] \in RandomSubset(Pools["retrievers"], 1)
      /\ g["fusion"] \in FusionChoices /\ g["reranker"] \in Rerankers
      /\ g["post_processors"] \in RandomSubset(Pools["post_processors"], 0)
      /\ g["query_ops"] \in RandomSubset(Pools["query_ops"], 0)
  BY <1>1
<1>4. \A p \in Parameters : g[p] \in Numbers[p].lo .. Numbers[p].hi
  BY <1>1 DEF Parameters, SampleSpec
<1>5. ASSUME NEW slot \in Slots, NEW name \in DOMAIN Specs[slot], NEW given \in SampleParams(Specs[slot][name])
      PROVE  InRange(Specs[slot][name], given)
  <2> DEFINE params == Specs[slot][name]
  <2>1. DOMAIN given = DOMAIN params /\ given = [p \in DOMAIN params |-> given[p]]
        /\ \A p \in DOMAIN params : given[p] \in params[p].lo .. params[p].hi
    BY DEF SampleParams, SampleSpec
  <2>2. \A p \in DOMAIN params : WellDeclared(params[p])
    BY GenomeAssumption
  <2> HIDE DEF params
  <2>3. \A p \in DOMAIN params : given[p] \in Int
    BY <2>1, <2>2 DEF WellDeclared
  <2>4. InRange(params, given)
    BY <2>1, <2>3 DEF InRange
  <2> QED BY <2>4 DEF params
<1>6. \A slot \in Slots : g[slot] \in DOMAIN Specs[slot] /\ InRange(Specs[slot][g[slot]], g[ParamsOf(slot)])
  BY <1>3, <1>5 DEF Slots, ParamsOf
<1>7. /\ \A list \in Lists : g[list] \in Seq(Pools[list]) /\ IsInjective(g[list])
      /\ g["retrievers"] # << >>
  <2>1. 0 \in Nat /\ 1 \in Nat /\ 1 > 0
    OBVIOUS
  <2>2. "retrievers" \in Lists /\ "post_processors" \in Lists /\ "query_ops" \in Lists
    BY DEF Lists
  <2>3. g["retrievers"] \in Seq(Pools["retrievers"]) /\ IsInjective(g["retrievers"]) /\ g["retrievers"] # << >>
    BY <1>3, <2>1, <2>2, RandomList
  <2>4. g["post_processors"] \in Seq(Pools["post_processors"]) /\ IsInjective(g["post_processors"])
    BY <1>3, <2>1, <2>2, RandomList
  <2>5. g["query_ops"] \in Seq(Pools["query_ops"]) /\ IsInjective(g["query_ops"])
    BY <1>3, <2>1, <2>2, RandomList
  <2> QED BY <2>3, <2>4, <2>5 DEF Lists
<1> QED BY <1>2, <1>3, <1>4, <1>6, <1>7 DEF WithinChoices

\* What a gene may be, in a genome with these components.
Fits(g, gene, v) ==
  /\ gene = "reranker" => v \in Rerankers
  /\ gene = "fusion" => v \in FusionChoices
  /\ gene \in Lists => v \in Seq(Pools[gene]) /\ IsInjective(v)
  /\ gene = "retrievers" => v # << >>
  /\ gene \in Parameters => v \in Numbers[gene].lo .. Numbers[gene].hi
  /\ \A slot \in Slots : gene = ParamsOf(slot) => InRange(Specs[slot][g[slot]], v)

\* One gene that is no component, with something that fits.
LEMMA OneReplaced ==
  ASSUME NEW g, WithinChoices(g), NEW gene \in Fields \ Slots, NEW v, Fits(g, gene, v),
         NEW child, child = [g EXCEPT ![gene] = v]
  PROVE  WithinChoices(child)
<1>1. DOMAIN g = Fields
  BY DEF WithinChoices
<1>2. DOMAIN child = Fields /\ \A f \in Fields : child[f] = IF f = gene THEN v ELSE g[f]
  BY <1>1
<1>3. ASSUME NEW slot \in Slots
      PROVE  child[slot] \in DOMAIN Specs[slot] /\ InRange(Specs[slot][child[slot]], child[ParamsOf(slot)])
  <2>1. slot \in Fields /\ ParamsOf(slot) \in Fields
    BY FieldNames
  <2>2. child[slot] = g[slot]
    BY <1>2, <2>1
  <2>3. g[slot] \in DOMAIN Specs[slot] /\ InRange(Specs[slot][g[slot]], g[ParamsOf(slot)])
    BY DEF WithinChoices
  <2>4. CASE gene = ParamsOf(slot)
    BY <1>2, <2>1, <2>2, <2>3, <2>4 DEF Fits
  <2>5. CASE gene # ParamsOf(slot)
    BY <1>2, <2>1, <2>2, <2>3, <2>5
  <2> QED BY <2>4, <2>5
<1>4. child["reranker"] \in Rerankers /\ child["fusion"] \in FusionChoices
  BY <1>2, FieldNames DEF WithinChoices, Fits
<1>5. \A list \in Lists : child[list] \in Seq(Pools[list]) /\ IsInjective(child[list])
  BY <1>2, FieldNames DEF WithinChoices, Fits
<1>6. child["retrievers"] # << >>
  BY <1>2, FieldNames DEF WithinChoices, Fits
<1>7. \A p \in Parameters : child[p] \in Numbers[p].lo .. Numbers[p].hi
  BY <1>2, FieldNames DEF WithinChoices, Fits
<1> QED BY <1>2, <1>3, <1>4, <1>5, <1>6, <1>7 DEF WithinChoices

\* Another component, with its defaults.
LEMMA ComponentReplaced ==
  ASSUME NEW g, WithinChoices(g), NEW slot \in Slots, NEW n \in DOMAIN Specs[slot],
         NEW child, child = [g EXCEPT ![slot] = n, ![ParamsOf(slot)] = << >>]
  PROVE  WithinChoices(child)
<1>1. DOMAIN g = Fields /\ slot \in Fields /\ ParamsOf(slot) \in Fields /\ ParamsOf(slot) # slot
  BY FieldNames DEF WithinChoices
<1>2. DOMAIN child = Fields
      /\ \A f \in Fields : child[f] = IF f = ParamsOf(slot) THEN << >> ELSE IF f = slot THEN n ELSE g[f]
  BY <1>1
<1>3. ASSUME NEW params PROVE InRange(params, << >>)
  BY DEF InRange
<1>4. ASSUME NEW other \in Slots
      PROVE  child[other] \in DOMAIN Specs[other] /\ InRange(Specs[other][child[other]], child[ParamsOf(other)])
  <2>1. other \in Fields /\ ParamsOf(other) \in Fields /\ other # ParamsOf(slot) /\ ParamsOf(other) # slot
    BY FieldNames
  <2>2. CASE other = slot
    BY <1>1, <1>2, <1>3, <2>2
  <2>3. CASE other # slot
    <3>1. ParamsOf(other) # ParamsOf(slot)
      BY <2>3, FieldNames
    <3>2. child[other] = g[other] /\ child[ParamsOf(other)] = g[ParamsOf(other)]
      BY <1>2, <2>1, <2>3, <3>1
    <3> QED BY <3>2 DEF WithinChoices
  <2> QED BY <2>2, <2>3
<1>5. \A f \in Lists \cup Parameters \cup {"reranker", "fusion"} : child[f] = g[f]
  <2>1. ASSUME NEW f \in Lists \cup Parameters \cup {"reranker", "fusion"}
        PROVE  f \in Fields /\ f # slot /\ f # ParamsOf(slot)
    BY FieldNames
  <2> QED BY <1>2, <2>1
<1>6. /\ child["reranker"] \in Rerankers /\ child["fusion"] \in FusionChoices
      /\ \A list \in Lists : child[list] \in Seq(Pools[list]) /\ IsInjective(child[list])
      /\ child["retrievers"] # << >>
      /\ \A p \in Parameters : child[p] \in Numbers[p].lo .. Numbers[p].hi
  BY <1>5, FieldNames DEF WithinChoices
<1> QED BY <1>2, <1>4, <1>6 DEF WithinChoices

\* Stepped parameters of a component stay in their ranges.
LEMMA SteppedParams ==
  ASSUME NEW slot \in Slots, NEW name \in DOMAIN Specs[slot], NEW given, InRange(Specs[slot][name], given),
         NEW v \in MutateParams(Specs[slot][name], given)
  PROVE  InRange(Specs[slot][name], v)
<1> DEFINE params == Specs[slot][name]
           merged == Merged(params, given)
<1>1. \A p \in DOMAIN params : WellDeclared(params[p])
  BY GenomeAssumption
<1>2. PICK p \in DOMAIN params : \E w \in StepParam(params[p], merged[p]) : v = [merged EXCEPT ![p] = w]
  BY DEF MutateParams
<1>3. PICK w \in StepParam(params[p], merged[p]) : v = [merged EXCEPT ![p] = w]
  BY <1>2
<1> HIDE DEF params
<1>4. DOMAIN merged = DOMAIN params
      /\ \A q \in DOMAIN params : merged[q] = IF q \in DOMAIN given THEN given[q] ELSE params[q].default
  BY DEF Merged, InRange, params
<1>5. \A q \in DOMAIN params : merged[q] \in params[q].lo .. params[q].hi
  BY <1>1, <1>4 DEF WellDeclared, InRange, params
<1> HIDE DEF merged
<1>6. w \in params[p].lo .. params[p].hi
  BY <1>1, <1>3, <1>5, SteppedInRange
<1>7. DOMAIN v = DOMAIN params /\ v = [q \in DOMAIN params |-> v[q]]
      /\ \A q \in DOMAIN params : v[q] = IF q = p THEN w ELSE merged[q]
  BY <1>3, <1>4 DEF merged, Merged
<1>8. \A q \in DOMAIN params : v[q] \in params[q].lo .. params[q].hi /\ v[q] \in Int
  BY <1>1, <1>5, <1>6, <1>7 DEF WellDeclared
<1>9. InRange(params, v)
  BY <1>7, <1>8 DEF InRange
<1> QED BY <1>9 DEF params

\* Genes that differ: one, or a component with its parameters.
OneGene(g, child) ==
  LET changed == {f \in Fields : child[f] # g[f]}
  IN Cardinality(changed) <= 1 \/ \E slot \in Slots : changed \subseteq {slot, ParamsOf(slot)}

LEMMA OneChanged ==
  ASSUME NEW g, DOMAIN g = Fields, NEW gene \in Fields, NEW v, NEW child, child = [g EXCEPT ![gene] = v]
  PROVE  OneGene(g, child)
<1> DEFINE changed == {f \in Fields : child[f] # g[f]}
<1>1. changed \subseteq {gene}
  OBVIOUS
<1>2. changed = {} \/ changed = {gene}
  BY <1>1
<1>3. Cardinality({}) = 0 /\ Cardinality({gene}) = 1
  BY FS_EmptySet, FS_Singleton
<1>4. Cardinality(changed) <= 1
  <2> HIDE DEF changed
  <2> QED BY <1>2, <1>3
<1> QED BY <1>4 DEF OneGene

\* A mutant has its genes within their choices, and one of them is new.
LEMMA MutantGood ==
  ASSUME NEW g, WithinChoices(g), NEW gene \in ApplicableGenes(g), NEW child \in Mutate(g, gene)
  PROVE  WithinChoices(child) /\ OneGene(g, child)
<1>0. DOMAIN g = Fields
  BY DEF WithinChoices
<1>1. gene \in Slots \cup Lists \cup Parameters \cup {"reranker", "fusion"} \cup {ParamsOf(slot) : slot \in Slots}
  BY DEF ApplicableGenes, Lists, Parameters
<1>2. ASSUME gene \in Fields \ Slots, NEW v, Fits(g, gene, v), child = [g EXCEPT ![gene] = v]
      PROVE  WithinChoices(child) /\ OneGene(g, child)
  <2>1. WithinChoices(child)
    BY <1>2, OneReplaced
  <2>2. OneGene(g, child)
    BY <1>0, <1>2, OneChanged
  <2> QED BY <2>1, <2>2
<1>3. CASE gene \in Slots
  <2>1. PICK n \in OtherChoice(g[gene], DOMAIN Specs[gene]) :
          child = [g EXCEPT ![gene] = n, ![ParamsOf(gene)] = << >>]
    <3>1. Mutate(g, gene) = {[g EXCEPT ![gene] = n, ![ParamsOf(gene)] = << >>] :
                               n \in OtherChoice(g[gene], DOMAIN Specs[gene])}
      BY <1>3 DEF Mutate, Slots, Lists, Parameters
    <3> QED BY <3>1
  <2>2. n \in DOMAIN Specs[gene]
    BY <1>3, <2>1, OtherIsChoice DEF WithinChoices
  <2>3. WithinChoices(child)
    BY <1>3, <2>1, <2>2, ComponentReplaced
  <2>4. \A f \in Fields : child[f] # g[f] => f \in {gene, ParamsOf(gene)}
    BY <1>0, <2>1
  <2>5. OneGene(g, child)
    BY <1>3, <2>4 DEF OneGene
  <2> QED BY <2>3, <2>5
<1>4. CASE gene = "reranker"
  <2>1. PICK v \in OtherChoice(g["reranker"], Rerankers) : child = [g EXCEPT ![gene] = v]
    <3>1. Mutate(g, gene) = {[g EXCEPT ![gene] = v] : v \in OtherChoice(g["reranker"], Rerankers)}
      BY <1>4, FieldNames DEF Mutate, Slots
    <3> QED BY <3>1
  <2>2. v \in Rerankers
    BY <2>1, OtherIsChoice DEF WithinChoices
  <2>3. Fits(g, gene, v) /\ gene \in Fields \ Slots
    BY <1>4, <2>2, FieldNames DEF Fits, Lists, Parameters, Slots, ParamsOf
  <2> QED BY <1>2, <2>1, <2>3
<1>5. CASE gene = "fusion"
  <2>1. PICK v \in OtherChoice(g["fusion"], FusionChoices) : child = [g EXCEPT ![gene] = v]
    <3>1. Mutate(g, gene) = {[g EXCEPT ![gene] = v] : v \in OtherChoice(g["fusion"], FusionChoices)}
      BY <1>5, FieldNames DEF Mutate, Slots
    <3> QED BY <3>1
  <2>2. v \in FusionChoices
    BY <2>1, OtherIsChoice DEF WithinChoices
  <2>3. Fits(g, gene, v) /\ gene \in Fields \ Slots
    BY <1>5, <2>2, FieldNames DEF Fits, Lists, Parameters, Slots, ParamsOf
  <2> QED BY <1>2, <2>1, <2>3
<1>6. CASE gene \in Lists
  <2>1. PICK v \in StepSubset(g[gene], Pools[gene]) : child = [g EXCEPT ![gene] = v]
    <3>1. Mutate(g, gene) = {[g EXCEPT ![gene] = v] : v \in StepSubset(g[gene], Pools[gene])}
      BY <1>6, FieldNames DEF Mutate, Slots, Lists
    <3> QED BY <3>1
  <2>2. g[gene] \in Seq(Pools[gene]) /\ IsInjective(g[gene]) /\ g["retrievers"] # << >>
    BY <1>6 DEF WithinChoices
  <2>3. v \in Seq(Pools[gene]) /\ IsInjective(v) /\ (gene = "retrievers" => v # << >>)
    BY <2>1, <2>2, SteppedList
  <2>4. Fits(g, gene, v) /\ gene \in Fields \ Slots
    BY <1>6, <2>3, FieldNames DEF Fits
  <2> QED BY <1>2, <2>1, <2>4
<1>7. CASE gene \in Parameters
  <2>1. PICK v \in StepParam(Numbers[gene], g[gene]) : child = [g EXCEPT ![gene] = v]
    BY <1>7 DEF Mutate, Slots, Lists, Parameters
  <2>2. g[gene] \in Numbers[gene].lo .. Numbers[gene].hi /\ WellDeclared(Numbers[gene])
    BY <1>7, GenomeAssumption DEF WithinChoices
  <2>3. v \in Numbers[gene].lo .. Numbers[gene].hi
    BY <2>1, <2>2, SteppedInRange
  <2>4. Fits(g, gene, v) /\ gene \in Fields \ Slots
    BY <1>7, <2>3, FieldNames DEF Fits
  <2> QED BY <1>2, <2>1, <2>4
<1>8. ASSUME NEW slot \in Slots, gene = ParamsOf(slot) PROVE WithinChoices(child) /\ OneGene(g, child)
  <2>1. PICK v \in MutateParams(Specs[slot][g[slot]], g[gene]) : child = [g EXCEPT ![gene] = v]
    BY <1>8 DEF Mutate, Slots, Lists, Parameters, ParamsOf
  <2>2. g[slot] \in DOMAIN Specs[slot] /\ InRange(Specs[slot][g[slot]], g[gene])
    BY <1>8 DEF WithinChoices
  <2>3. InRange(Specs[slot][g[slot]], v)
    BY <2>1, <2>2, SteppedParams
  <2>4. Fits(g, gene, v) /\ gene \in Fields \ Slots
    BY <1>8, <2>3, FieldNames DEF Fits
  <2> QED BY <1>2, <2>1, <2>4
<1> QED BY <1>1, <1>3, <1>4, <1>5, <1>6, <1>7, <1>8

\* A child of two parents has each field from one of them, and a component's
\* parameters with the component.
LEMMA CrossedGood ==
  ASSUME NEW a, NEW b, WithinChoices(a), WithinChoices(b), NEW child \in Crossover(a, b)
  PROVE  WithinChoices(child) /\ \A f \in Fields : child[f] \in {a[f], b[f]}
<1>1. PICK fromB \in SUBSET (Fields \ {"chunker_params", "enricher_params"}) :
        child = [f \in Fields |-> IF \E c \in fromB : f \in Carried(c) THEN b[f] ELSE a[f]]
  BY DEF Crossover
<1>2. DOMAIN child = Fields /\ \A f \in Fields : child[f] \in {a[f], b[f]}
  BY <1>1
<1>3. ASSUME NEW slot \in Slots
      PROVE  \/ child[slot] = a[slot] /\ child[ParamsOf(slot)] = a[ParamsOf(slot)]
             \/ child[slot] = b[slot] /\ child[ParamsOf(slot)] = b[ParamsOf(slot)]
  <2>1. slot \in Fields /\ ParamsOf(slot) \in Fields
    BY FieldNames
  <2>2. (\E c \in fromB : slot \in Carried(c)) <=> slot \in fromB
    BY <1>1 DEF Carried, Slots, ParamsOf
  <2>3. (\E c \in fromB : ParamsOf(slot) \in Carried(c)) <=> slot \in fromB
    BY <1>1 DEF Carried, Slots, ParamsOf
  <2> QED BY <1>1, <2>1, <2>2, <2>3
<1>4. \A slot \in Slots :
        child[slot] \in DOMAIN Specs[slot] /\ InRange(Specs[slot][child[slot]], child[ParamsOf(slot)])
  BY <1>3 DEF WithinChoices
<1>5. \A f \in Lists \cup Parameters \cup {"reranker", "fusion"} : child[f] \in {a[f], b[f]}
  BY <1>2, FieldNames
<1>6. /\ child["reranker"] \in Rerankers /\ child["fusion"] \in FusionChoices
      /\ child["retrievers"] # << >>
  BY <1>5, FieldNames DEF WithinChoices
<1>7. \A list \in Lists : child[list] \in Seq(Pools[list]) /\ IsInjective(child[list])
  BY <1>5 DEF WithinChoices
<1>8. \A p \in Parameters : child[p] \in Numbers[p].lo .. Numbers[p].hi
  BY <1>5 DEF WithinChoices
<1> QED BY <1>2, <1>4, <1>6, <1>7, <1>8 DEF WithinChoices

GenomesInv ==
  /\ genomes = [i \in Members |-> genomes[i]]
  /\ \A i \in Members : WithinChoices(genomes[i])

\* What a step of breeding does: one place gets a child, a mutant of one genome or
\* a cross of two.
Bred(i, child) ==
  /\ \/ \E parent \in Members : \E gene \in ApplicableGenes(genomes[parent]) : child \in Mutate(genomes[parent], gene)
     \/ \E parent, mate \in Members : child \in Crossover(genomes[parent], genomes[mate])
  /\ genomes' = [genomes EXCEPT ![i] = child]

LEMMA ChildGood ==
  ASSUME GenomesInv, NEW i \in Members, NEW child, Bred(i, child)
  PROVE  /\ WithinChoices(child)
         /\ \/ \E parent \in Members : OneGene(genomes[parent], child)
            \/ \E a, b \in Members : \A f \in Fields : child[f] \in {genomes[a][f], genomes[b][f]}
         /\ genomes' = [j \in Members |-> IF j = i THEN child ELSE genomes[j]]
<1>1. ASSUME NEW parent \in Members, NEW gene \in ApplicableGenes(genomes[parent]),
             child \in Mutate(genomes[parent], gene)
      PROVE  WithinChoices(child) /\ OneGene(genomes[parent], child)
  BY <1>1, MutantGood DEF GenomesInv
<1>2. ASSUME NEW parent \in Members, NEW mate \in Members,
             child \in Crossover(genomes[parent], genomes[mate])
      PROVE  WithinChoices(child) /\ \A f \in Fields : child[f] \in {genomes[parent][f], genomes[mate][f]}
  BY <1>2, CrossedGood DEF GenomesInv
<1>3. /\ WithinChoices(child)
      /\ \/ \E parent \in Members : OneGene(genomes[parent], child)
         \/ \E a, b \in Members : \A f \in Fields : child[f] \in {genomes[a][f], genomes[b][f]}
  BY <1>1, <1>2 DEF Bred
<1>4. genomes' = [j \in Members |-> IF j = i THEN child ELSE genomes[j]]
  BY DEF Bred, GenomesInv
<1> QED BY <1>3, <1>4

LEMMA StepBreeds ==
  ASSUME GenomeNext
  PROVE  \E i \in Members : \E child : Bred(i, child)
<1>1. PICK i \in Members, parent \in Members :
        MutateOne(i, parent) \/ \E mate \in Members : CrossOne(i, parent, mate)
  BY DEF GenomeNext
<1>2. CASE MutateOne(i, parent)
  <2>1. PICK gene \in ApplicableGenes(genomes[parent]) :
          \E child \in Mutate(genomes[parent], gene) : genomes' = [genomes EXCEPT ![i] = child]
    BY <1>2 DEF MutateOne
  <2>2. PICK child \in Mutate(genomes[parent], gene) : genomes' = [genomes EXCEPT ![i] = child]
    BY <2>1
  <2> QED BY <2>2 DEF Bred
<1>3. ASSUME NEW mate \in Members, CrossOne(i, parent, mate) PROVE \E child : Bred(i, child)
  <2>1. PICK child \in Crossover(genomes[parent], genomes[mate]) : genomes' = [genomes EXCEPT ![i] = child]
    BY <1>3 DEF CrossOne
  <2> QED BY <2>1 DEF Bred
<1> QED BY <1>1, <1>2, <1>3

\* Breeding keeps every gene of every genome within its choices.
LEMMA GenomesInvariant == GenomeSpec => []GenomesInv
<1>1. GenomeInit => GenomesInv
  <2> SUFFICES ASSUME GenomeInit PROVE GenomesInv
    OBVIOUS
  <2>1. PICK random \in [Members -> RandomConfigs] : genomes = [random EXCEPT ![Anchor] = SeedConfig]
    BY DEF GenomeInit
  <2>2. WithinChoices(SeedConfig)
    BY GenomeAssumption, GoodIsChoices
  <2>3. ASSUME NEW i \in Members PROVE WithinChoices(genomes[i])
    <3>1. genomes[i] = SeedConfig \/ genomes[i] \in RandomConfigs
      BY <2>1
    <3> QED BY <2>2, <3>1, RandomGood
  <2> QED BY <2>1, <2>3 DEF GenomesInv
<1>2. GenomesInv /\ [GenomeNext]_genomeVars => GenomesInv'
  <2> SUFFICES ASSUME GenomesInv, [GenomeNext]_genomeVars PROVE GenomesInv'
    OBVIOUS
  <2>1. CASE GenomeNext
    <3>1. PICK i \in Members : \E child : Bred(i, child)
      BY <2>1, StepBreeds
    <3>2. PICK child : Bred(i, child)
      BY <3>1
    <3>3. WithinChoices(child) /\ genomes' = [j \in Members |-> IF j = i THEN child ELSE genomes[j]]
      BY <3>2, ChildGood
    <3>4. \A j \in Members : genomes'[j] = child \/ genomes'[j] = genomes[j]
      BY <3>3
    <3>5. \A j \in Members : WithinChoices(genomes'[j])
      BY <3>3, <3>4 DEF GenomesInv
    <3>6. genomes' = [j \in Members |-> genomes'[j]]
      BY <3>3
    <3> QED BY <3>5, <3>6 DEF GenomesInv, WithinChoices, InRange
  <2>2. CASE UNCHANGED genomeVars
    BY <2>2 DEF GenomesInv, genomeVars, WithinChoices, InRange
  <2> QED BY <2>1, <2>2
<1> QED BY <1>1, <1>2, PTL DEF GenomeSpec

\* Genes within their choices are what the registry builds.
LEMMA ChoicesBuildable ==
  ASSUME GenomesInv
  PROVE  GenomesBuildable
<1> SUFFICES ASSUME NEW i \in Members, NEW g, g = genomes[i]
             PROVE  /\ \A slot \in Slots : Buildable(slot, g[slot], g[ParamsOf(slot)])
                    /\ g.reranker \in Rerankers /\ g.fusion \in FusionChoices
                    /\ \A list \in Lists : ToSet(g[list]) \subseteq Pools[list] /\ IsInjective(g[list])
                    /\ g.retrievers # << >>
                    /\ \A p \in Parameters : ValidValue(Numbers[p], g[p])
  BY DEF GenomesBuildable
<1>1. WithinChoices(g) /\ KnownGood(g)
  BY GoodIsChoices DEF GenomesInv
<1>2. \A list \in Lists : ToSet(g[list]) \subseteq Pools[list]
  <2> SUFFICES ASSUME NEW list \in Lists PROVE ToSet(g[list]) \subseteq Pools[list]
    OBVIOUS
  <2>1. g[list] \in Seq(Pools[list])
    BY <1>1 DEF WithinChoices
  <2> QED BY <2>1 DEF ToSet
<1>3. g.reranker \in Rerankers /\ g.fusion \in FusionChoices /\ g.retrievers # << >>
  BY <1>1 DEF WithinChoices
<1>4. \A list \in Lists : IsInjective(g[list])
  BY <1>1 DEF WithinChoices
<1>5. \A slot \in Slots : Buildable(slot, g[slot], g[ParamsOf(slot)])
  BY <1>1 DEF KnownGood
<1>6. \A p \in Parameters : ValidValue(Numbers[p], g[p])
  BY <1>1 DEF KnownGood
<1> QED BY <1>2, <1>3, <1>4, <1>5, <1>6

\* GenomesSound, for any registry, any population and any number of generations:
\* bred genomes are ones the registry can build, and a child differs from a parent
\* in one gene or is put together from two, the others being left alone.
THEOREM GenomesHold == GenomeSpec => GenomesSound
<1>1. GenomesInv => GenomesBuildable
  BY ChoicesBuildable
<1>2. GenomesInv /\ [GenomeNext]_genomeVars =>
        [\E i \in Members :
           /\ \A j \in Members \ {i} : genomes'[j] = genomes[j]
           /\ \/ \E parent \in Members :
                   LET changed == {f \in Fields : genomes'[i][f] # genomes[parent][f]}
                   IN Cardinality(changed) <= 1 \/ \E slot \in Slots : changed \subseteq {slot, ParamsOf(slot)}
              \/ \E a, b \in Members : \A f \in Fields : genomes'[i][f] \in {genomes[a][f], genomes[b][f]}]_genomeVars
  <2> SUFFICES ASSUME GenomesInv, GenomeNext
               PROVE  \E i \in Members :
                        /\ \A j \in Members \ {i} : genomes'[j] = genomes[j]
                        /\ \/ \E parent \in Members : OneGene(genomes[parent], genomes'[i])
                           \/ \E a, b \in Members : \A f \in Fields : genomes'[i][f] \in {genomes[a][f], genomes[b][f]}
    BY DEF OneGene
  <2>1. PICK i \in Members : \E child : Bred(i, child)
    BY StepBreeds
  <2>2. PICK child : Bred(i, child)
    BY <2>1
  <2>3. /\ \/ \E parent \in Members : OneGene(genomes[parent], child)
           \/ \E a, b \in Members : \A f \in Fields : child[f] \in {genomes[a][f], genomes[b][f]}
        /\ genomes' = [j \in Members |-> IF j = i THEN child ELSE genomes[j]]
    BY <2>2, ChildGood
  <2>4. genomes'[i] = child /\ \A j \in Members \ {i} : genomes'[j] = genomes[j]
    BY <2>3
  <2> QED BY <2>3, <2>4
<1> QED BY <1>1, <1>2, GenomesInvariant, PTL DEF GenomeSpec, GenomesSound, OneGeneAtATime

=============================================================================
