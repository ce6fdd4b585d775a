------------------------------ MODULE PRGenerator ------------------------------
(***************************************************************************)
(* PRGenerator.generate (src/self_improvement/pr_gen) on one working tree: *)
(* branch, write, add, commit, open.  Every step is a subprocess or a      *)
(* request that may fail on its own; nothing is undone then, and the       *)
(* caller may try again or go on to the next candidate.  Calls do not      *)
(* overlap.  Meanwhile people merge pull requests and edit the base branch.*)
(*                                                                         *)
(* A config text is its index.retrieval block, that of a candidate or of   *)
(* nobody, and the number of edits the rest of it has seen.                *)
(***************************************************************************)
EXTENDS Naturals, Sequences

CONSTANTS
  Candidates, \* candidates of a run
  Accepted,   \* those the reviewer accepts
  MaxCalls,   \* bound: calls of generate()
  MaxEdits    \* bound: edits of the base branch by others

\* The branch of a candidate is never the base branch.
ASSUME PRAssumption ==
  /\ Accepted \subseteq Candidates /\ {MaxCalls, MaxEdits} \subseteq Nat
  /\ Candidates \cap {"base", "none", "theirs"} = {}

VARIABLES
  base,       \* the text on the base branch
  branches,   \* the text on every candidate's branch, where there is one
  forked,     \* the text on the base branch when it was created
  checkedOut, \* the branch checked out
  staged,     \* the text in the index and the working tree
  call,       \* the call under way: its candidate, next step and given text
  opened,     \* the pull requests of every candidate: text proposed, text given
  calls       \* history: calls so far

prVars ==
  <<base, branches, forked, checkedOut, staged, call, opened, calls>>

Texts == [retrieval : Candidates \cup {"theirs"}, edits : 0 .. MaxEdits]
NoText == [retrieval |-> "none", edits |-> 0]
Idle == [candidate |-> "none", step |-> "idle", given |-> NoText]

\* apply_pipeline_config: the retrieval block and nothing else.
Apply(text, c) == [text EXCEPT !.retrieval = c]

HeadText == IF checkedOut = "base" THEN base ELSE branches[checkedOut]

PRInit ==
  /\ base = [retrieval |-> "theirs", edits |-> 0]
  /\ branches = [c \in Candidates |-> NoText]
  /\ forked = branches
  /\ checkedOut = "base"
  /\ staged = base
  /\ call = Idle
  /\ opened = [c \in Candidates |-> << >>]
  /\ calls = 0

At(step) == call.step = step
Proceed(step) == call' = [call EXCEPT !.step = step]

Changes(c, text) ==
  /\ At("idle") /\ calls < MaxCalls
  /\ Apply(text, c) # text
  /\ call' = [candidate |-> c, step |-> "branch", given |-> text]
  /\ calls' = calls + 1
  /\ UNCHANGED <<base, branches, forked, checkedOut, staged, opened>>

\* generate(): for an accepted candidate that changes the text it is given,
\* which the caller has read from the base branch.
Generate(c, text) == c \in Accepted /\ Changes(c, text)

Switch ==
  /\ At("branch")
  /\ staged = HeadText \/ HeadText = base \/ staged = base
  /\ branches' = [branches EXCEPT ![call.candidate] = base]
  /\ forked' = [forked EXCEPT ![call.candidate] = base]
  /\ checkedOut' = call.candidate
  /\ staged' = IF staged = HeadText THEN base ELSE staged
  /\ Proceed("write")
  /\ UNCHANGED <<base, opened, calls>>

\* git checkout -b: the branch must be new, and what is staged must survive.
CreateBranch == At("branch") /\ branches[call.candidate] = NoText /\ Switch

\* Mutant: the block is patched into what the tree holds.
PatchFile ==
  /\ At("write")
  /\ staged' = Apply(staged, call.candidate)
  /\ Proceed("commit")
  /\ UNCHANGED <<base, branches, forked, checkedOut, opened, calls>>

\* write_file: the whole file, then git add.
WriteFile ==
  /\ At("write")
  /\ staged' = Apply(call.given, call.candidate)
  /\ Proceed("commit")
  /\ UNCHANGED <<base, branches, forked, checkedOut, opened, calls>>

\* git commit refuses to commit nothing.
Commit ==
  /\ At("commit")
  /\ staged # HeadText
  /\ branches' = [branches EXCEPT ![checkedOut] = staged]
  /\ Proceed("open")
  /\ UNCHANGED <<base, forked, checkedOut, staged, opened, calls>>

\* The draft is open from here on, whatever becomes of its labels.
OpenPullRequest ==
  /\ At("open")
  /\ opened' = [opened EXCEPT ![call.candidate] =
                  Append(@, [proposed |-> branches[call.candidate], given |-> call.given])]
  /\ Proceed("label")
  /\ UNCHANGED <<base, branches, forked, checkedOut, staged, calls>>

\* generate() returns, or raises: a step fails, or its answer is lost.
Return ==
  /\ ~At("idle")
  /\ call' = Idle
  /\ UNCHANGED <<base, branches, forked, checkedOut, staged, opened, calls>>

\* Somebody edits the base branch; where it is checked out, in a clean tree.
EditBase ==
  /\ base.edits < MaxEdits
  /\ checkedOut = "base" => staged = base
  /\ base' = [base EXCEPT !.edits = @ + 1]
  /\ staged' = IF checkedOut = "base" THEN base' ELSE staged
  /\ UNCHANGED <<branches, forked, checkedOut, call, opened, calls>>

\* A person merges a pull request that does not conflict.
Merge(c) ==
  LET theirs == branches[c] IN
  /\ opened[c] # << >>
  /\ base.retrieval = forked[c].retrieval
  /\ base.edits = forked[c].edits \/ theirs.edits = forked[c].edits
  /\ base' = [retrieval |-> theirs.retrieval,
              edits |-> IF base.edits = forked[c].edits THEN theirs.edits ELSE base.edits]
  /\ UNCHANGED <<branches, forked, checkedOut, staged, call, opened, calls>>

\* What a caller may have read from the base branch: its text, or the one
\* before the last edit.
Readings == {base, [base EXCEPT !.edits = IF @ = 0 THEN 0 ELSE @ - 1]}

PRNext ==
  \/ \E c \in Candidates : Merge(c) \/ \E text \in Readings : Generate(c, text)
  \/ CreateBranch \/ WriteFile \/ Commit \/ OpenPullRequest \/ Return \/ EditBase

PRSpec == PRInit /\ [][PRNext]_prVars

-----------------------------------------------------------------------------
\* Properties

\* From its branch on a call has that branch checked out, even where others
\* have failed before it.
PRTypeOK ==
  /\ call.step \in {"write", "commit", "open", "label"} => checkedOut = call.candidate
  /\ checkedOut # "base" => branches[checkedOut] # NoText
  /\ base \in Texts /\ staged \in Texts
  /\ {branches, forked} \subseteq [Candidates -> Texts \cup {NoText}]
  /\ checkedOut \in Candidates \cup {"base"}
  /\ call = Idle \/ call \in
       [candidate : Candidates, given : Texts,
        step : {"branch", "write", "commit", "open", "label"}]
  /\ opened \in [Candidates -> Seq([proposed : Texts, given : Texts])]
  /\ calls \in 0 .. MaxCalls

\* Retries after any failure, of labels too, never open a second pull request
\* for a candidate: the branch left behind stands in their way.
OnePRPerCandidate == \A c \in Candidates : Len(opened[c]) <= 1

\* A pull request proposes the text its call was given, with the block of its
\* candidate, whatever failed attempts for others left in the tree.
ProposesItsConfig ==
  \A c \in Candidates : \A i \in DOMAIN opened[c] :
    opened[c][i].proposed = Apply(opened[c][i].given, c)

\* The base branch carries the configuration of nobody the reviewer refused.
LandsAcceptedOnly ==
  base.retrieval \in Accepted \cup {"theirs"}

\* Whichever step fails, is retried or is overtaken by an edit: one pull request per
\* candidate, with that candidate's block in the text that was read, and nothing
\* refused reaches the base branch.
PullRequestsSound ==
  /\ PRTypeOK
  /\ OnePRPerCandidate
  /\ ProposesItsConfig
  /\ LandsAcceptedOnly

=============================================================================
