-------------------------------- MODULE Skills --------------------------------
(***************************************************************************)
(* The skill registry (src/harness/skills): it lists the directories with  *)
(* a SKILL.md, a classifier names skills among those listed, and each of   *)
(* them is read from disk again, by then perhaps another.                  *)
(***************************************************************************)
EXTENDS Totals, SequencesExt

CONSTANTS
  SkillDirs,   \* directories, numbers in the order of their paths
  SkillNames,
  OwnName,     \* a directory's name
  Contents,    \* what a SKILL.md may say
  MostSkills,  \* k of a selection
  MaxEdits     \* bound: changes to the disk

ASSUME SkillsAssumption ==
  /\ SkillDirs \subseteq Nat /\ IsFiniteSet(SkillDirs) /\ OwnName \in [SkillDirs -> SkillNames]
  /\ \A c \in Contents : c.front \in {"named", "none", "broken"}
  /\ \A c \in Contents : c.front = "named" => c.name \in SkillNames
  /\ MostSkills \in Nat /\ MaxEdits \in Nat

NoSkill == [front |-> "absent", name |-> "", body |-> ""]

\* The disk, the registry's manifests, the list the last discovery returned, the
\* selection waiting for its classifier, its outcome, and as history the changes
\* to the disk and whether the disk is still as the list has it.
VARIABLE skills

Present == {d \in SkillDirs : skills.disk[d] # NoSkill}
Broken == {d \in SkillDirs : skills.disk[d].front = "broken"}

\* parse_skill_md() and the manifest's name: the front matter's or the directory's.
Manifest(d) ==
  [name |-> IF skills.disk[d].front = "named" THEN skills.disk[d].name ELSE OwnName[d], dir |-> d]

\* What discover() comes to before a front matter that is no mapping, in order.
Walked ==
  LET readable == {d \in Present : \A b \in Broken : d < b}
  IN InOrder(readable, {p \in readable \X readable : p[1] < p[2]})

NamesIn(ms) == {m.name : m \in ToSet(ms)}

\* Of several manifests with one name the last stays.
Register(ms) ==
  [n \in NamesIn(ms) \cup DOMAIN skills.manifests |->
     IF n \in NamesIn(ms) THEN ms[Max({i \in DOMAIN ms : ms[i].name = n})].dir
                          ELSE skills.manifests[n]]

\* Mutant: the directory of that name is read.
LoadByName(n) ==
  IF \E d \in SkillDirs : OwnName[d] = n
  THEN skills.disk[CHOOSE d \in SkillDirs : OwnName[d] = n] ELSE skills.disk[skills.manifests[n]]

\* What load() reads of a name there is a manifest of.
Load(n) == skills.disk[skills.manifests[n]]

\* The first k of the names that are listed.
Selected(names) ==
  LET known == {i \in DOMAIN names : names[i] \in NamesIn(skills.asked)}
      places == InOrder(known, {p \in known \X known : p[1] < p[2]})
  IN [n \in 1 .. Min({Cardinality(known), MostSkills}) |-> names[places[n]]]

-----------------------------------------------------------------------------
SkillsInit ==
  \E disk \in [SkillDirs -> Contents \cup {NoSkill}] :
    skills = [disk |-> disk, manifests |-> << >>, listed |-> << >>, asked |-> << >>,
              outcome |-> [kind |-> "none"], edits |-> 0, fresh |-> FALSE]

\* A front matter that cannot be read ends discover() with an error; what it came
\* to before is registered, and nothing is returned.
Discover ==
  LET found == [i \in DOMAIN Walked |-> Manifest(Walked[i])]
      whole == Broken = {}
  IN skills' = [skills EXCEPT !.manifests = Register(found),
                              !.listed = IF whole THEN found ELSE @,
                              !.fresh = whole]

\* Someone else writes, moves or deletes a skill.
EditSkill(d, content) ==
  /\ skills.edits < MaxEdits /\ content # skills.disk[d]
  /\ skills' = [skills EXCEPT !.disk = [@ EXCEPT ![d] = content], !.edits = @ + 1, !.fresh = FALSE]

\* select() up to the classifier's answer.
AskClassifier ==
  /\ skills.asked = << >> /\ skills.listed # << >> /\ MostSkills > 0
  /\ skills' = [skills EXCEPT !.asked = skills.listed, !.outcome = [kind |-> "none"]]

\* The classifier names what it likes: names that are not listed, too many, one
\* twice.  The first skill that cannot be read fails the selection.
LoadSelected(names) ==
  /\ skills.asked # << >>
  /\ LET chosen == Selected(names)
         unknown == \E n \in ToSet(chosen) : n \notin DOMAIN skills.manifests
         unread == \E n \in ToSet(chosen) : Load(n).front \in {"absent", "broken"}
     IN skills' = [skills EXCEPT !.asked = << >>,
          !.outcome = IF unknown THEN [kind |-> "unknown"]
                      ELSE IF unread THEN [kind |-> "unread"]
                      ELSE [kind |-> "loaded", of |-> skills.asked, named |-> names,
                            got |-> [i \in DOMAIN chosen |-> [name |-> chosen[i], body |-> Load(chosen[i]).body]]]]

SkillsNext ==
  \/ Discover
  \/ \E d \in SkillDirs : \E content \in Contents \cup {NoSkill} : EditSkill(d, content)
  \/ AskClassifier
  \/ \E names \in BoundedSeq(SkillNames, MostSkills + 1) : LoadSelected(names)

SkillsSpec == SkillsInit /\ [][SkillsNext]_skills

-----------------------------------------------------------------------------
\* A name the registry ever listed stays one it can load: a selection that was
\* waiting for its classifier while the skills were discovered again never meets
\* an unknown name.
ListedStayLoadable ==
  /\ NamesIn(skills.listed) \cup NamesIn(skills.asked) \subseteq DOMAIN skills.manifests
  /\ skills.outcome.kind # "unknown"

\* A selection has at most k skills, all among those it was given, in the
\* classifier's order, and leaves out only what is not listed or was named after k
\* others.
SelectionKept ==
  skills.outcome.kind = "loaded" =>
    LET named == skills.outcome.named
        got == skills.outcome.got
        Took(n) == \E i \in DOMAIN got : got[i].name = n
    IN /\ Len(got) <= MostSkills
       /\ \A i \in DOMAIN got : got[i].name \in NamesIn(skills.outcome.of)
       /\ \A i, j \in DOMAIN got : i < j =>
            \E p, q \in DOMAIN named : p < q /\ named[p] = got[i].name /\ named[q] = got[j].name
       /\ \A q \in DOMAIN named : (named[q] \in NamesIn(skills.outcome.of) /\ ~Took(named[q])) =>
            /\ Len(got) = MostSkills
            /\ \A i \in DOMAIN got : \E p \in 1 .. q - 1 : named[p] = got[i].name

\* While the disk is as the list has it, the instructions loaded under a name
\* that one listed directory has are that directory's.
InstructionsOfTheListed ==
  [][\A i \in DOMAIN skills.listed :
       LET m == skills.listed[i]
       IN (skills.fresh /\ skills'.outcome # skills.outcome /\ skills'.outcome.kind = "loaded"
             /\ \A j \in DOMAIN skills.listed : skills.listed[j].name = m.name => j = i)
          => \A g \in ToSet(skills'.outcome.got) :
               g.name = m.name => g.body = skills.disk[m.dir].body]_skills

\* Discovered and edited while the classifier thinks, skills that are listed can be
\* loaded, the selection is kept in its order, and what is loaded is what was listed.
SkillsSound == []ListedStayLoadable /\ []SelectionKept /\ InstructionsOfTheListed

=============================================================================
