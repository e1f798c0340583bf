----------------------------- MODULE ScopedMemory -----------------------------
(***************************************************************************)
(* What the memory tools promise: a set of memories, each in one scope,    *)
(* that exist until they are forgotten, purged with their scope or reach   *)
(* their deadline.  A read takes time, and other requests may be served    *)
(* meanwhile: its answer holds nothing that did not exist at some instant  *)
(* of the read, and leaves out nothing that existed throughout unless it   *)
(* is full of newer memories.  Everything else is one step; restarts and   *)
(* sweeps do not show.                                                     *)
(***************************************************************************)
EXTENDS Integers

CONSTANTS
  Client,   \* who calls the tools
  Content, Scope, Blank,
  Query,    \* the sets of contents a search can match
  Limit,    \* result limits; a negative one is none
  Ttl,      \* times to live, in seconds; zero and below mean none
  Millis,   \* clock ticks in a second
  Horizon,  \* the last instant that can be named
  Newer(_, _),  \* the order in which a limit cuts an answer off
  Count(_),     \* the number of elements of a finite set
  Never, Idle

VARIABLES
  memories,  \* the memories that exist
  issued,    \* how many ids have been issued
  clock,
  reading,   \* the read each client has in progress, or Idle: what it asks for, the
             \* memories that have existed since it began, and those that existed always
  reply      \* the answer to each client's last read or purge, while it has one

vars == <<memories, issued, clock, reading, reply>>

\* A deadline is exact; one beyond the horizon is any instant at all.
Deadlines(ttl) ==
  IF ttl <= 0 THEN {Never}
  ELSE IF clock + ttl * Millis <= Horizon THEN {clock + ttl * Millis}
  ELSE (-Horizon - 1)..Horizon

Unanswered == [op |-> "none", asked |-> {}, rows |-> {}]

Init ==
  /\ memories = {}
  /\ issued = 0
  /\ clock = 0
  /\ reading = [t \in Client |-> Idle]
  /\ reply = [t \in Client |-> Unanswered]

\* A read names scopes; one that names none, or only blanks, means all.
Matches(m, r) == m.content \in r.query /\ (r.asked \subseteq {Blank} \/ m.scope \in r.asked)

\* The reads in progress once m has appeared, and once only those of S are left.
Joined(m) == [t \in Client |-> IF reading[t] = Idle THEN Idle
                               ELSE [reading[t] EXCEPT !.ever = @ \cup {m}]]

Left(S) == [t \in Client |-> IF reading[t] = Idle THEN Idle
                             ELSE [reading[t] EXCEPT !.always = @ \cap S]]

Store ==
  /\ UNCHANGED <<clock, reply>>
  /\ issued' = issued + 1
  /\ \E c \in Content, s \in Scope, ttl \in Ttl :
       \E d \in Deadlines(ttl) :
         LET m == [id |-> issued + 1, content |-> c, scope |-> s, created |-> clock,
                   expires |-> d] IN
         /\ memories' = IF d = Never \/ d > clock THEN memories \cup {m} ELSE memories
         /\ reading' = Joined(m)

Ask ==
  /\ UNCHANGED <<memories, issued, clock>>
  /\ \E t \in Client :
       /\ reading[t] = Idle
       /\ reply' = [reply EXCEPT ![t] = Unanswered]
       /\ \E asked \in SUBSET (Scope \cup {Blank}), q \in Query, n \in Limit :
            reading' = [reading EXCEPT ![t] = [asked |-> asked, query |-> q, limit |-> n,
                                               ever |-> memories, always |-> memories]]

\* Rows that may answer the read r.
Answers(r, rows) ==
  /\ \A m \in rows : m \in r.ever /\ Matches(m, r)
  /\ r.limit >= 0 => Count(rows) <= r.limit
  /\ \A m \in r.always : Matches(m, r) /\ m \notin rows =>
       r.limit >= 0 /\ Count({a \in rows : Newer(a, m)}) >= r.limit

Answer ==
  /\ UNCHANGED <<memories, issued, clock>>
  /\ \E t \in Client :
       /\ reading[t] # Idle
       /\ reading' = [reading EXCEPT ![t] = Idle]
       /\ \E rows \in SUBSET reading[t].ever :
            /\ Answers(reading[t], rows)
            /\ reply' = [reply EXCEPT ![t] =
                 [op |-> "read", asked |-> reading[t].asked, rows |-> rows]]

\* Reads may fail, one or all together.
Fail ==
  /\ UNCHANGED <<memories, issued, clock, reply>>
  /\ \E T \in SUBSET Client :
       reading' = [t \in Client |-> IF t \in T THEN Idle ELSE reading[t]]

Forget ==
  /\ UNCHANGED <<issued, clock, reply>>
  /\ \E id \in 1..issued : memories' = {m \in memories : m.id # id}
  /\ reading' = Left(memories')

Purge ==
  /\ UNCHANGED <<issued, clock>>
  /\ \E t \in Client, s \in Scope \cup {Blank} :
       /\ memories' = {m \in memories : m.scope # s}
       /\ reply' = [reply EXCEPT ![t] = [op |-> "purge", asked |-> {s}, rows |-> {}]]
  /\ reading' = Left(memories')

Tick ==
  /\ UNCHANGED <<issued, reply>>
  /\ clock' = clock + 1
  /\ memories' = {m \in memories : m.expires = Never \/ m.expires > clock'}
  /\ reading' = Left(memories')

Next == Store \/ Ask \/ Answer \/ Fail \/ Forget \/ Purge \/ Tick

Spec == Init /\ [][Next]_vars

=============================================================================
