------------------------------- MODULE Memory -------------------------------
(***************************************************************************)
(* Layered memory (src/harness/memory): the turn's scratchpad in the       *)
(* process, the session's facts in SQLite, long-term facts of all users in *)
(* one vector collection.  A write to long-term memory embeds first and a  *)
(* forget lists first, so that calls of several users, and several calls   *)
(* of one, meet there between the two.                                     *)
(***************************************************************************)
EXTENDS Naturals, FiniteSets, SequencesExt

CONSTANTS
  Calls,      \* calls at work at a time
  Users,      \* each with a memory of his own over the shared collection
  Public,     \* the users whose memory has no owner
  Keys,
  Kinds,      \* kinds of facts; a forget is for one kind
  MaxItems,   \* bound: facts made
  MaxForgets  \* bound: forgets begun

ASSUME MemoryAssumption == Public \subseteq Users /\ {MaxItems, MaxForgets} \subseteq Nat

VARIABLES
  working,   \* user to his scratchpad, a map of keys to items
  session,   \* user to the rows of his session, a map of keys to items
  longTerm,  \* the collection, a map of keys to items with the user who wrote each
  call,      \* what every call is doing
  made,      \* history: items made
  forgets    \* history: forgets begun

memoryVars == <<working, session, longTerm, call, made, forgets>>

Item(key, kind, n) == [key |-> key, kind |-> kind, n |-> n]
Returned == [doing |-> "nothing"]
InFlight == {c \in Calls : call[c] # Returned}

With(held, key, entry) ==
  [k \in DOMAIN held \cup {key} |-> IF k = key THEN entry ELSE held[k]]

\* Of a call: the items still to write, those it was to write, the keys to
\* delete, what has landed since they were listed, and whether another call has
\* been under way beside it.
Begin(c, u, doing, kind, items) ==
  /\ call[c] = Returned
  /\ call' = [d \in Calls |->
       IF d = c THEN [doing |-> doing, user |-> u, kind |-> kind, all |-> items, items |-> items,
                      keys |-> {}, since |-> {}, alone |-> InFlight = {}]
       ELSE IF call[d] = Returned THEN Returned ELSE [call[d] EXCEPT !.alone = FALSE]]

\* all() in long-term memory: an owner's own items and the public ones; without
\* an owner no filter applies.
Visible(u, item) == u \in Public \/ item.user \in Public \cup {u}

ListedKeys(u, kind) ==
  {key \in DOMAIN longTerm : longTerm[key].item.kind = kind /\ Visible(u, longTerm[key])}

-----------------------------------------------------------------------------
MemoryInit ==
  /\ working = [u \in Users |-> << >>]
  /\ session = [u \in Users |-> << >>]
  /\ longTerm = << >>
  /\ call = [c \in Calls |-> Returned]
  /\ made = 0
  /\ forgets = 0

\* write in the process: no await between.
WriteWorking(u, key, kind) ==
  /\ made < MaxItems /\ made' = made + 1
  /\ working' = [working EXCEPT ![u] = With(@, key, Item(key, kind, made + 1))]
  /\ UNCHANGED <<session, longTerm, call, forgets>>

\* write in SQLite, one transaction: INSERT OR REPLACE.
WriteSession(u, key, kind) ==
  /\ made < MaxItems /\ made' = made + 1
  /\ session' = [session EXCEPT ![u] = With(@, key, Item(key, kind, made + 1))]
  /\ UNCHANGED <<working, longTerm, call, forgets>>

\* consolidate: the facts the extractor found, in its order; write is the case
\* of one fact.
Remember(c, u, facts) ==
  LET items == [i \in DOMAIN facts |-> Item(facts[i][1], facts[i][2], made + i)] IN
  /\ made + Len(facts) <= MaxItems /\ made' = made + Len(facts)
  /\ Begin(c, u, "write", "any", items)
  /\ UNCHANGED <<working, session, longTerm, forgets>>

\* Mutant: the last of the facts is left out.
LandAllButLast(c) ==
  LET its == call[c] IN
  /\ its.doing = "write"
  /\ longTerm' = With(longTerm, Head(its.items).key, [item |-> Head(its.items), user |-> its.user])
  /\ call' = [call EXCEPT ![c] = IF Len(its.items) <= 2 THEN Returned ELSE [its EXCEPT !.items = Tail(@)]]
  /\ UNCHANGED <<working, session, made, forgets>>

\* The item is embedded; upsert replaces the point of its key, whose ever it was.
Land(c) ==
  LET its == call[c]
      item == Head(its.items)
      On(d) == IF d # c THEN call[d] ELSE IF Tail(its.items) = << >> THEN Returned
               ELSE [its EXCEPT !.items = Tail(@)]
      Aware(other) == IF other.doing = "delete" THEN [other EXCEPT !.since = @ \cup {item.n}] ELSE other
  IN
  /\ its.doing = "write"
  /\ longTerm' = With(longTerm, item.key, [item |-> item, user |-> its.user])
  /\ call' = [d \in Calls |-> Aware(On(d))]
  /\ UNCHANGED <<working, session, made, forgets>>

\* The embedder or the index raises: what is not written yet is lost, what is
\* not deleted yet stays.
BreakOff(c) ==
  /\ call[c].doing \in {"write", "list", "delete"}
  /\ call' = [call EXCEPT ![c] = Returned]
  /\ UNCHANGED <<working, session, longTerm, made, forgets>>

Without(held, kind) ==
  [key \in {k \in DOMAIN held : held[k].kind # kind} |-> held[key]]

\* forget goes through the scopes; the first two do not yield.
Forget(c, u, kind) ==
  /\ forgets < MaxForgets /\ forgets' = forgets + 1
  /\ working' = [working EXCEPT ![u] = Without(@, kind)]
  /\ session' = [session EXCEPT ![u] = Without(@, kind)]
  /\ Begin(c, u, "list", kind, << >>)
  /\ UNCHANGED <<longTerm, made>>

List(c) ==
  LET keys == ListedKeys(call[c].user, call[c].kind) IN
  /\ call[c].doing = "list"
  /\ call' = [call EXCEPT ![c] = IF keys = {} THEN Returned ELSE [@ EXCEPT !.doing = "delete", !.keys = keys]]
  /\ UNCHANGED <<working, session, longTerm, made, forgets>>

\* delete goes by key.
Delete(c) ==
  /\ call[c].doing = "delete"
  /\ longTerm' = [key \in DOMAIN longTerm \ call[c].keys |-> longTerm[key]]
  /\ call' = [call EXCEPT ![c] = Returned]
  /\ UNCHANGED <<working, session, made, forgets>>

\* The turn ends.
ClearWorking(u) ==
  /\ working[u] # << >>
  /\ working' = [working EXCEPT ![u] = << >>]
  /\ UNCHANGED <<session, longTerm, call, made, forgets>>

MemoryNext ==
  \/ \E u \in Users, key \in Keys, kind \in Kinds : WriteWorking(u, key, kind) \/ WriteSession(u, key, kind)
  \/ \E u \in Users : ClearWorking(u)
  \/ \E c \in Calls, u \in Users :
       \/ \E n \in 1 .. 2 : \E facts \in [1 .. n -> Keys \X Kinds] : Remember(c, u, facts)
       \/ \E kind \in Kinds : Forget(c, u, kind)
  \/ \E c \in Calls : Land(c) \/ BreakOff(c) \/ List(c) \/ Delete(c)

MemorySpec == MemoryInit /\ [][MemoryNext]_memoryVars

-----------------------------------------------------------------------------
\* Properties

\* Scopes hold items under their own keys; what waits to be written was made.
MemoryTypeOK ==
  /\ \A u \in Users : \A held \in {working[u], session[u]} : \A key \in DOMAIN held :
       key \in Keys /\ held[key].key = key /\ held[key].n <= made
  /\ \A key \in DOMAIN longTerm : longTerm[key].item.key = key /\ longTerm[key].user \in Users
  /\ \A c \in InFlight : call[c].doing \in {"write", "list", "delete"}
       /\ (call[c].doing = "write" <=> call[c].items # << >>)

Ends(c) == call[c] # Returned /\ call'[c] = Returned /\ call[c].alone
Forgotten(held, kind) == \A key \in DOMAIN held : held[key].kind # kind

\* A call that ends without an error and with no other beside it has done what
\* it is for: every fact of a consolidation is held under its key, unless a
\* later one of the same consolidation replaced it; nothing the user sees of the
\* kind forgotten is left in long-term memory once it has deleted, and nothing was left in his
\* scratchpad and session from the first step on.
RememberedOrForgotten ==
  [][\A c \in Calls :
       /\ Ends(c) /\ call[c].doing = "write" /\ longTerm' # longTerm =>
            \A item \in Range(call[c].all) :
              /\ item.key \in DOMAIN longTerm' /\ longTerm'[item.key].user = call[c].user
              /\ longTerm'[item.key].item.n >= item.n
       /\ Ends(c) /\ call[c].doing = "delete" /\ longTerm' # longTerm =>
            \A key \in DOMAIN longTerm' :
              longTerm'[key].item.kind = call[c].kind =>
                call[c].user \notin Public /\ longTerm'[key].user \notin Public \cup {call[c].user}
       /\ call[c] = Returned /\ call'[c] # Returned /\ call'[c].doing = "list" =>
            LET u == call'[c].user IN
            Forgotten(working'[u], call'[c].kind) /\ Forgotten(session'[u], call'[c].kind)]_memoryVars

\* A forget takes from long-term memory only what its user sees and is of the
\* kind to forget, short of what was written while it was under way.
ForgetSparesOthers ==
  [][\A c \in Calls : call[c] # Returned /\ call[c].doing = "delete" =>
       \A key \in DOMAIN longTerm \ DOMAIN longTerm' :
         LET gone == longTerm[key] IN
         \/ call'[c] # Returned
         \/ gone.item.kind = call[c].kind /\ (call[c].user \in Public \/ gone.user \in Public \cup {call[c].user})
         \/ gone.item.n \in call[c].since]_memoryVars

\* The class's contract: memory is for one owner.  What a user has in long-term
\* memory is his own to replace or delete.
OneOwnersMemory ==
  [][\A key \in DOMAIN longTerm :
       (key \notin DOMAIN longTerm' \/ longTerm'[key] # longTerm[key]) =>
          \E c \in Calls : call[c] # Returned /\ call[c] # call'[c] /\
            (call[c].user = longTerm[key].user \/ longTerm[key].user \in Public)]_memoryVars

\* Consolidations and forgets of several owners that overlap and break off: what ends
\* well is remembered or forgotten, and forgetting spares what others own.
MemorySound == []MemoryTypeOK /\ RememberedOrForgotten /\ ForgetSparesOthers

=============================================================================
