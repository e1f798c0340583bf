--------------------------- MODULE PersonDirectory ---------------------------
(***************************************************************************)
(* What the identity layer promises: a directory in which an identifier    *)
(* leads to one person for good, facts about a person can be read until    *)
(* their deadline, and forgetting takes all of them at once, for ever.     *)
(* Reading a person that was forgotten may fail, and then none of its      *)
(* facts is read; reading any other person never does.  There are no keys, *)
(* rows, statements, callers or restarts here.                             *)
(***************************************************************************)
EXTENDS Naturals

CONSTANTS Index, Person, Fact, Never, NoPerson

VARIABLES
  owner,     \* the person each identifier leads to, or NoPerson
  facts,     \* what was learned and not taken since, of [id, person, expires]
  failing,   \* the persons of whom a read fails instead of answering their facts
  shredded,  \* the persons that were ever forgotten
  clock

vars == <<owner, facts, failing, shredded, clock>>

Init ==
  /\ owner = [ix \in Index |-> NoPerson]
  /\ facts = {}
  /\ failing = {}
  /\ shredded = {}
  /\ clock = 0

\* Only a free identifier gets an owner.
Identify(ix, p) ==
  /\ owner[ix] = NoPerson
  /\ owner' = [owner EXCEPT ![ix] = p]
  /\ UNCHANGED <<facts, failing, shredded, clock>>

Learn(f) ==
  /\ \A g \in facts : g.id # f.id
  /\ facts' = facts \cup {f}
  /\ UNCHANGED <<owner, failing, shredded, clock>>

\* All facts of a person go, and no other; what is learned of it later may go again.
\* What is left of them may make reads of the person fail.
Shred(p) ==
  /\ shredded' = shredded \cup {p}
  /\ facts' = {f \in facts : f.person # p}
  /\ failing' \in {failing \cup {p}, failing \ {p}}
  /\ UNCHANGED <<owner, clock>>

\* So may a fact of a forgotten person that is lost in the learning.
Lose(p) ==
  /\ p \in shredded
  /\ failing' = failing \cup {p}
  /\ UNCHANGED <<owner, facts, shredded, clock>>

\* Only of a person that was forgotten, all identifiers go.
Unlink(p) ==
  /\ p \in shredded
  /\ owner' = [ix \in Index |-> IF owner[ix] = p THEN NoPerson ELSE owner[ix]]
  /\ UNCHANGED <<facts, failing, shredded, clock>>

\* A read may cease to fail when the last leftover has expired.
Tick ==
  /\ clock' = clock + 1
  /\ facts' = {f \in facts : f.expires = Never \/ f.expires > clock'}
  /\ failing' \in SUBSET failing
  /\ UNCHANGED <<owner, shredded>>

Next ==
  \/ \E ix \in Index, p \in Person : Identify(ix, p)
  \/ \E f \in Fact : Learn(f)
  \/ \E p \in Person : Shred(p) \/ Lose(p) \/ Unlink(p)
  \/ Tick

Spec == Init /\ [][Next]_vars

=============================================================================
