------------------------------ MODULE MCHarness ------------------------------
(***************************************************************************)
(* Seven parts of the harness that share no state: the todo planner,       *)
(* memory, the two caches, the last steps of an answer, the compaction of  *)
(* a conversation, the skills and the permission gates.  One run checks    *)
(* each of them from its own initial states while the others rest.         *)
(***************************************************************************)
EXTENDS TodoPlanner, Memory, Caches, Answering, Compaction, Skills, Permissions

VARIABLE subject

Segment(length, cites) == [length |-> length, cites |-> cites]
MCSegments ==
  {Segment(0, <<1>>), Segment(2, << >>), Segment(1, <<2, 1>>), Segment(3, <<Invented, 2>>), Segment(2, <<Invented>>)}

Content(front, name, body) == [front |-> front, name |-> name, body |-> body]
MCContents == {Content("named", "b", "x"), Content("named", "a", "z"), Content("none", "", "y"), Content("broken", "", "")}
MCOwnName == <<"a", "b">>

QuietTalk == [strategy |-> "selective_retention", keep |-> 0, messages |-> << >>, memory |-> {}, said |-> 0]
NoSkills == [disk |-> [d \in SkillDirs |-> NoSkill], manifests |-> << >>, listed |-> << >>, asked |-> << >>,
             outcome |-> [kind |-> "none"], edits |-> 0, fresh |-> FALSE]
OneAnswer == [sizes |-> << >>, budget |-> 0, draft |-> << >>, mode |-> "off"]

NoThread == [node |-> "gate", at |-> "past", action |-> NoAction, proposed |-> NoAction, active |-> 0, shown |-> "none",
             denied |-> FALSE, approval |-> NoApproval, answer |-> NoReply, taken |-> MaxActions]

\* A plan nobody executes.
NoPlan ==
  /\ steps = FallbackPlan /\ planStatus = "executing" /\ pc = "idle" /\ wave = {}
  /\ kept = 0 /\ replans = 0 /\ executed = FALSE

MCInit ==
  /\ subject \in {"plan", "memory", "decisions", "embeddings", "answer", "talk", "skills", "gates"}
  /\ MemoryInit /\ CachesInit
  /\ IF subject = "plan" THEN Init ELSE NoPlan
  /\ IF subject = "answer" THEN AnsweringInit ELSE answering = OneAnswer
  /\ IF subject = "talk" THEN CompactionInit ELSE talk = QuietTalk
  /\ IF subject = "skills" THEN SkillsInit ELSE skills = NoSkills
  /\ IF subject = "gates" THEN PermissionsInit ELSE thread = NoThread

MCNext ==
  /\ UNCHANGED <<subject, answering>>
  /\ \/ subject = "plan" /\ Next /\ UNCHANGED <<memoryVars, cacheVars, talk, skills, thread>>
     \/ subject = "memory" /\ MemoryNext /\ UNCHANGED <<vars, cacheVars, talk, skills, thread>>
     \/ subject = "decisions" /\ CacheNext /\ UNCHANGED <<vars, memoryVars, talk, skills, thread>>
     \/ subject = "embeddings" /\ EmbeddingNext /\ UNCHANGED <<vars, memoryVars, talk, skills, thread>>
     \/ subject = "talk" /\ CompactionNext /\ UNCHANGED <<vars, memoryVars, cacheVars, skills, thread>>
     \/ subject = "skills" /\ SkillsNext /\ UNCHANGED <<vars, memoryVars, cacheVars, talk, thread>>
     \/ subject = "gates" /\ PermissionsNext /\ UNCHANGED <<vars, memoryVars, cacheVars, talk, skills>>

MCSpec ==
  /\ MCInit /\ [][MCNext]_<<subject, answering, vars, memoryVars, cacheVars, talk, skills, thread>>
  /\ WF_vars(Round \/ RunStep)

=============================================================================
