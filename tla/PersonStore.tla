----------------------------- MODULE PersonStore -----------------------------
(***************************************************************************)
(* The identity layer of the encrypted store (rust/src/store.rs,           *)
(* lookup_person ... forget_person): persons, the identifiers that resolve *)
(* to them, one content key per person and the attributes sealed under it. *)
(*                                                                         *)
(* Every method takes &self and awaits between its SQL statements, so      *)
(* several tasks may run on one Store at once.  A step of this module is   *)
(* one SQL statement with the code up to the next one; no transaction      *)
(* joins the statements of a method, any of them may fail, and the process *)
(* may stop between any two of them.                                       *)
(***************************************************************************)
EXTENDS Naturals

CONSTANTS
  Task,         \* concurrent callers of one Store
  Namespace,    \* identifier namespaces, such as handle:cb
  Handle,       \* identifiers as normalize leaves them
  Spelling,     \* the ways a caller may type one handle (case, blanks)
  Person,       \* supply of version 4 UUIDs
  ContentKey,   \* supply of random 256-bit keys
  AttrId,       \* supply of UUIDs for attribute rows
  MaxTime,      \* last instant of the model's clock
  ForeignKeys,  \* does the linked SQLite enforce the REFERENCES clauses?
  NoPerson, NoKey, NoIndex, Never

ASSUME ForeignKeysAssumption == ForeignKeys \in BOOLEAN
ASSUME MaxTimeAssumption == MaxTime \in Nat
ASSUME NullAssumption == NoPerson \notin Person /\ NoKey \notin ContentKey

VARIABLES
  person,      \* table person: the ids that have a row
  personKey,   \* table person_key: the content key of each person, or NoKey
  identifier,  \* table person_identifier: the person of each index, or NoPerson
  attribute,   \* table person_attribute: the set of rows
  call,        \* what each task is executing and the locals it holds
  outcome,     \* how each task's last call ended
  now,         \* the wall clock
  up,          \* is the process running, with the store open?
  drawn,       \* random values drawn so far
  known,       \* person ids some call has returned, which callers may pass
  answers,     \* history: the persons resolve has answered for each index
  touched,     \* history: persons a forget has started on
  forgotten,   \* history: persons forgotten and not written to since
  condemned    \* history: attribute rows a forget set out to erase

tables  == <<person, personKey, identifier, attribute>>
history == <<answers, touched, forgotten, condemned>>
vars == <<tables, call, outcome, now, up, drawn, known, history>>

-----------------------------------------------------------------------------

Identifier == [namespace: Namespace, handle: Handle, spelling: Spelling]

\* The table's key: the keyed HMAC of namespace and normalized identifier, taken
\* as injective (16 bytes of HMAC-SHA256); the spelling does not survive.
BlindIndex(i) == <<i.namespace, i.handle>>

Index  == Namespace \X Handle
Expiry == 1..MaxTime \cup {Never}

Row == [id: AttrId, person: Person, key: ContentKey, expires: Expiry]

\* Mutant of Expired: a row is kept past its deadline by one tick.
ExpiredLate(a) == a.expires # Never /\ a.expires < now

Expired(a) == a.expires # Never /\ a.expires <= now

Call ==
  [op:      {"none", "resolve", "add", "get", "forget"},
   at:      {"idle", "insertPerson", "insertIdentifier", "readKey", "mintKey",
             "insertAttribute", "deleteAttributes", "deleteIdentifiers",
             "deletePerson"},
   person:  Person \cup {NoPerson},
   index:   Index \cup {NoIndex},
   key:     ContentKey \cup {NoKey},
   expires: Expiry,
   rows:    SUBSET Row]

Idle == [op |-> "none", at |-> "idle", person |-> NoPerson, index |-> NoIndex,
         key |-> NoKey, expires |-> Never, rows |-> {}]

Ready(t) == up /\ call[t].at = "idle"

\* Mutant of Referable: the tables are created without their REFERENCES clauses.
ReferableAlways(p) == TRUE

\* A row that names p may only be written while p has a row, if SQLite enforces it.
Referable(p) == ForeignKeys => p \in person

Begin(t, c) ==
  /\ call' = [call EXCEPT ![t] = c]
  /\ outcome' = [outcome EXCEPT ![t] = "none"]

Goto(t, step) ==
  /\ call' = [call EXCEPT ![t].at = step]
  /\ UNCHANGED outcome

Finish(t, result) ==
  /\ call' = [call EXCEPT ![t] = Idle]
  /\ outcome' = [outcome EXCEPT ![t] = result]

-----------------------------------------------------------------------------
(* lookup_person and resolve_or_create_person *)

LookupPerson(i) ==
  LET p == identifier[BlindIndex(i)] IN
  /\ up
  /\ p # NoPerson
  /\ known' = known \cup {p}
  /\ UNCHANGED <<tables, call, outcome, now, up, drawn, history>>

\* Mutant of Unseen: resolve mints without looking the identifier up.
UnseenAlways(i) == TRUE

Unseen(i) == identifier[BlindIndex(i)] = NoPerson

\* The caller has p for an answer to its resolve of ix.
Answer(ix, p) ==
  /\ known' = known \cup {p}
  /\ answers' = [answers EXCEPT ![ix] = @ \cup {p}]

ResolveFound(t, i) ==
  LET p == identifier[BlindIndex(i)] IN
  /\ Ready(t)
  /\ p # NoPerson
  /\ Answer(BlindIndex(i), p)
  /\ outcome' = [outcome EXCEPT ![t] = "ok"]
  /\ UNCHANGED <<tables, call, now, up, drawn, touched, forgotten, condemned>>

ResolveUnseen(t, i) ==
  /\ Ready(t)
  /\ Unseen(i)
  /\ Begin(t, [Idle EXCEPT !.op = "resolve", !.at = "insertPerson",
                           !.index = BlindIndex(i)])
  /\ UNCHANGED <<tables, now, up, drawn, known, history>>

InsertPerson(t) ==
  /\ call[t].at = "insertPerson"
  /\ \E p \in Person \ drawn :
       /\ drawn' = drawn \cup {p}
       /\ person' = person \cup {p}
       /\ call' = [call EXCEPT ![t].at = "insertIdentifier", ![t].person = p]
  /\ UNCHANGED <<personKey, identifier, attribute, outcome, now, up, known, history>>

\* Mutant of WriteIdentifier: INSERT OR REPLACE.
WriteIdentifierReplacing(ix, p) ==
  /\ Referable(p)
  /\ identifier' = [identifier EXCEPT ![ix] = p]

\* write_identifier: INSERT OR IGNORE keeps the row that is there.
WriteIdentifier(ix, p) ==
  \/ /\ identifier[ix] # NoPerson
     /\ UNCHANGED identifier
  \/ /\ identifier[ix] = NoPerson
     /\ Referable(p)
     /\ identifier' = [identifier EXCEPT ![ix] = p]

InsertIdentifier(t) ==
  LET c == call[t] IN
  /\ c.at = "insertIdentifier"
  /\ WriteIdentifier(c.index, c.person)
  /\ Answer(c.index, c.person)
  /\ Finish(t, "ok")
  /\ UNCHANGED <<person, personKey, attribute, now, up, drawn,
                 touched, forgotten, condemned>>

LinkIdentifier(t, p, i) ==
  /\ Ready(t)
  /\ WriteIdentifier(BlindIndex(i), p)
  /\ outcome' = [outcome EXCEPT ![t] = "ok"]
  /\ forgotten' = forgotten \ {p}
  /\ UNCHANGED <<person, personKey, attribute, call, now, up, drawn, known,
                 answers, touched, condemned>>

-----------------------------------------------------------------------------
(* person_content_key, shared by add_attribute and get_attributes *)

\* What the caller of person_content_key does with the key it gets.
WithKey(t, k) ==
  \/ /\ call[t].op = "add"
     /\ call' = [call EXCEPT ![t].at = "insertAttribute", ![t].key = k]
     /\ UNCHANGED outcome
  \/ /\ call[t].op = "get"
     /\ Finish(t, IF \A a \in call[t].rows : a.key = k THEN "ok"
                                                       ELSE "crypto_error")

\* Mutant of ReadKey: a person without a key row is not noticed.
ReadKeyUnchecked(t) ==
  /\ call[t].at = "readKey"
  /\ WithKey(t, personKey[call[t].person])
  /\ UNCHANGED <<tables, now, up, drawn, known, history>>

ReadKey(t) ==
  LET k == personKey[call[t].person] IN
  /\ call[t].at = "readKey"
  /\ \/ k = NoKey /\ Goto(t, "mintKey")
     \/ k # NoKey /\ WithKey(t, k)
  /\ UNCHANGED <<tables, now, up, drawn, known, history>>

\* Mutant of KeyInsertable: INSERT OR REPLACE.
KeyInsertableAlways(p) == TRUE

\* A plain INSERT: it fails if another task's key row is there already.
KeyInsertable(p) == personKey[p] = NoKey

MintKey(t) ==
  LET p == call[t].person IN
  /\ call[t].at = "mintKey"
  /\ KeyInsertable(p)
  /\ Referable(p)
  /\ \E k \in ContentKey \ drawn :
       /\ drawn' = drawn \cup {k}
       /\ personKey' = [personKey EXCEPT ![p] = k]
       /\ WithKey(t, k)
  /\ UNCHANGED <<person, identifier, attribute, now, up, known, history>>

-----------------------------------------------------------------------------
(* add_attribute and get_attributes *)

AddAttribute(t, p, x) ==
  /\ Ready(t)
  /\ Begin(t, [Idle EXCEPT !.op = "add", !.at = "readKey", !.person = p,
                           !.expires = x])
  /\ forgotten' = forgotten \ {p}
  /\ UNCHANGED <<tables, now, up, drawn, known, answers, touched, condemned>>

InsertAttribute(t) ==
  LET c == call[t] IN
  /\ c.at = "insertAttribute"
  /\ Referable(c.person)
  /\ \E a \in AttrId \ drawn :
       /\ drawn' = drawn \cup {a}
       /\ attribute' = attribute \cup
            {[id |-> a, person |-> c.person, key |-> c.key, expires |-> c.expires]}
  /\ Finish(t, "ok")
  /\ UNCHANGED <<person, personKey, identifier, now, up, known, history>>

\* The rows are collected first; the content key is read in a later statement.
GetAttributes(t, p) ==
  LET raw == {a \in attribute : a.person = p /\ ~Expired(a)} IN
  /\ Ready(t)
  /\ \/ /\ raw = {}
        /\ outcome' = [outcome EXCEPT ![t] = "ok"]
        /\ UNCHANGED call
     \/ /\ raw # {}
        /\ Begin(t, [Idle EXCEPT !.op = "get", !.at = "readKey", !.person = p,
                                 !.rows = raw])
  /\ UNCHANGED <<tables, now, up, drawn, known, history>>

-----------------------------------------------------------------------------
(* forget_person: four DELETEs, the content key's first *)

\* Mutant of ShreddedKeys: the content key is not the first thing to go.
ShreddedKeysLater(p) == personKey

ShreddedKeys(p) == [personKey EXCEPT ![p] = NoKey]

ForgetPerson(t, p) ==
  /\ Ready(t)
  /\ personKey' = ShreddedKeys(p)
  /\ Begin(t, [Idle EXCEPT !.op = "forget", !.at = "deleteAttributes",
                           !.person = p])
  /\ condemned' = condemned \cup {a \in attribute : a.person = p}
  /\ touched' = touched \cup {p}
  /\ answers' = [ix \in Index |-> answers[ix] \ {p}]
  /\ UNCHANGED <<person, identifier, attribute, now, up, drawn, known, forgotten>>

DeleteAttributes(t) ==
  /\ call[t].at = "deleteAttributes"
  /\ attribute' = {a \in attribute : a.person # call[t].person}
  /\ Goto(t, "deleteIdentifiers")
  /\ UNCHANGED <<person, personKey, identifier, now, up, drawn, known, history>>

\* Mutant of WithoutPerson: the loop leaves out person_identifier.
WithoutPersonNot(p) == identifier

WithoutPerson(p) ==
  [ix \in Index |-> IF identifier[ix] = p THEN NoPerson ELSE identifier[ix]]

DeleteIdentifiers(t) ==
  /\ call[t].at = "deleteIdentifiers"
  /\ identifier' = WithoutPerson(call[t].person)
  /\ Goto(t, "deletePerson")
  /\ UNCHANGED <<person, personKey, attribute, now, up, drawn, known, history>>

\* No row of a child table names p.
Unreferenced(p) ==
  /\ personKey[p] = NoKey
  /\ \A a \in attribute : a.person # p
  /\ \A ix \in Index : identifier[ix] # p

DeletePerson(t) ==
  LET p == call[t].person IN
  /\ call[t].at = "deletePerson"
  /\ ForeignKeys => Unreferenced(p)
  /\ person' = person \ {p}
  /\ forgotten' = forgotten \cup {p}
  /\ Finish(t, "ok")
  /\ UNCHANGED <<personKey, identifier, attribute, now, up, drawn, known,
                 answers, touched, condemned>>

-----------------------------------------------------------------------------
(* Failure, restart, retention and time *)

\* SQLite refuses the statement: I/O, a lock another process holds, a key that
\* exists, a reference that does not.  Statements already executed stay done.
StatementFails(t) ==
  /\ call[t].at # "idle"
  /\ Finish(t, "db_error")
  /\ UNCHANGED <<tables, now, up, drawn, known, history>>

PurgeExpired ==
  /\ up
  /\ attribute' = {a \in attribute : ~Expired(a)}
  /\ UNCHANGED <<person, personKey, identifier, call, outcome, now, up, drawn,
                 known, history>>

Crash ==
  /\ up
  /\ up' = FALSE
  /\ call' = [t \in Task |-> Idle]
  /\ outcome' = [t \in Task |-> "none"]
  /\ UNCHANGED <<tables, now, drawn, known, history>>

\* Store::open ends in init, whose last step sweeps what has expired.
Open ==
  /\ ~up
  /\ up' = TRUE
  /\ attribute' = {a \in attribute : ~Expired(a)}
  /\ UNCHANGED <<person, personKey, identifier, call, outcome, now, drawn,
                 known, history>>

Tick ==
  /\ now < MaxTime
  /\ now' = now + 1
  /\ UNCHANGED <<tables, call, outcome, up, drawn, known, history>>

Init ==
  /\ person = {}
  /\ personKey = [p \in Person |-> NoKey]
  /\ identifier = [ix \in Index |-> NoPerson]
  /\ attribute = {}
  /\ call = [t \in Task |-> Idle]
  /\ outcome = [t \in Task |-> "none"]
  /\ now = 0
  /\ up = FALSE
  /\ drawn = {}
  /\ known = {}
  /\ answers = [ix \in Index |-> {}]
  /\ touched = {}
  /\ forgotten = {}
  /\ condemned = {}

CallStarts(t) ==
  \/ \E i \in Identifier : ResolveFound(t, i) \/ ResolveUnseen(t, i)
  \/ \E p \in known, i \in Identifier : LinkIdentifier(t, p, i)
  \/ \E p \in known, x \in Expiry : AddAttribute(t, p, x)
  \/ \E p \in known : GetAttributes(t, p) \/ ForgetPerson(t, p)

CallContinues(t) ==
  \/ InsertPerson(t)
  \/ InsertIdentifier(t)
  \/ ReadKey(t)
  \/ MintKey(t)
  \/ InsertAttribute(t)
  \/ DeleteAttributes(t)
  \/ DeleteIdentifiers(t)
  \/ DeletePerson(t)
  \/ StatementFails(t)

Next ==
  \/ \E t \in Task : CallStarts(t) \/ CallContinues(t)
  \/ \E i \in Identifier : LookupPerson(i)
  \/ PurgeExpired
  \/ Crash
  \/ Open
  \/ Tick

Spec == Init /\ [][Next]_vars

-----------------------------------------------------------------------------
(* Properties *)

\* Every variable holds what the tables and the calls can hold.
TypeOK ==
  /\ person \subseteq Person
  /\ personKey \in [Person -> ContentKey \cup {NoKey}]
  /\ identifier \in [Index -> Person \cup {NoPerson}]
  /\ attribute \subseteq Row
  /\ call \in [Task -> Call]
  /\ outcome \in [Task -> {"none", "ok", "db_error", "crypto_error"}]
  /\ now \in 0..MaxTime
  /\ up \in BOOLEAN
  /\ drawn \subseteq Person \cup ContentKey \cup AttrId
  /\ known \subseteq Person
  /\ answers \in [Index -> SUBSET Person]
  /\ touched \subseteq Person
  /\ forgotten \subseteq Person
  /\ condemned \subseteq Row

\* Crypto-shredding (store.rs:529): from the first statement of forget_person on,
\* whatever overlaps it, fails or crashes, no attribute that was to be erased, nor a
\* backup of its row, is sealed under the person's stored content key.
CryptoShred ==
  \A a \in condemned : personKey[a.person] # a.key

\* Until a forget touches a person, all its attributes open with its stored key: two
\* first add_attribute calls that race to mint the key leave no row under a lost key.
UntouchedReadable ==
  \A a \in attribute : a.person \notin touched => personKey[a.person] = a.key

\* get_attributes reports a decryption failure only for a person some forget_person
\* has touched, although it reads the rows and the key in separate statements.
NoPoisonedRead ==
  [][\A t \in Task :
       outcome'[t] = "crypto_error" /\ outcome[t] # "crypto_error"
         => call[t].person \in touched]_vars

\* No get_attributes that reads the content key after a forget_person has begun answers
\* an attribute that was there to be erased, although it may have read the row before,
\* and another call may have minted the person a fresh key since.
NoErasedAnswer ==
  [][\A t \in Task :
       call[t].op = "get" /\ outcome'[t] = "ok" /\ outcome[t] # "ok"
         => call[t].rows \cap condemned = {}]_vars

\* An identifier never moves to another person, and stops resolving only if its
\* person is being forgotten: no link or resolve takes over an identifier.
IdentifierNeverMoves ==
  [][\A ix \in Index :
       identifier'[ix] # identifier[ix] /\ identifier[ix] # NoPerson
         => identifier'[ix] = NoPerson /\ identifier[ix] \in touched]_vars

\* All resolve_or_create_person calls for one identifier, in any spelling, answer
\* the same person unless it has been forgotten in between (test at store.rs:653).
ResolveIdempotent ==
  \A ix \in Index : \A p, q \in answers[ix] : p = q

\* Once forget_person has returned Ok, and until a later call writes for that
\* person, no table holds anything of it: its entire footprint is destroyed.
ForgetErasesFootprint ==
  \A p \in forgotten : p \notin person /\ Unreferenced(p)

\* A row the person's stored key opens.
Opens(a) == personKey[a.person] = a.key

Fact == [id: AttrId, person: Person, expires: Expiry]

FactOf(a) == [id |-> a.id, person |-> a.person, expires |-> a.expires]

Facts == {FactOf(a) : a \in {b \in attribute : ~Expired(b) /\ Opens(b)}}

\* get_attributes opens every row it has read and fails at the first that does not open,
\* whatever the others hold.
Failing == {p \in Person : \E a \in attribute : a.person = p /\ ~Expired(a) /\ ~Opens(a)}

\* A get_attributes that no other call overlaps answers as PersonDirectory promises: all
\* that is known of a person no forget has touched; of another one what was learned since,
\* or an error. forget_person takes what was there in its first statement, whatever it
\* overlaps and wherever it breaks off, and no mint, sweep or restart brings it back.
Directory == INSTANCE PersonDirectory WITH
  owner <- identifier,
  facts <- Facts,
  failing <- Failing,
  shredded <- touched,
  clock <- now

ImplementsDirectory == Directory!Spec

=============================================================================
