------------------------ MODULE PersonDirectoryProofs ------------------------
(***************************************************************************)
(* PersonStore implements PersonDirectory, for any number of tasks,        *)
(* whether or not SQLite enforces the references.                          *)
(***************************************************************************)
EXTENDS PersonStoreProofs

\* Ids of rows in use are no longer to be drawn.
IdsDrawn == \A a \in attribute : a.id \in drawn

LEMMA IdsStep == TypeInv /\ IdsDrawn /\ [Next]_vars => IdsDrawn'
<1>. SUFFICES ASSUME TypeInv, IdsDrawn, [Next]_vars PROVE IdsDrawn'
  OBVIOUS
<1>1. ASSUME attribute' \subseteq attribute, drawn \subseteq drawn' PROVE IdsDrawn'
  BY <1>1 DEF IdsDrawn
<1>2. ASSUME NEW t \in Task, InsertAttribute(t) PROVE IdsDrawn'
  BY <1>2 DEF InsertAttribute, IdsDrawn
<1>3. ASSUME NEW t \in Task, CallStarts(t)
      PROVE  attribute' = attribute /\ drawn' = drawn
  BY <1>3 DEF CallStarts, ResolveFound, ResolveUnseen, LinkIdentifier, AddAttribute,
              GetAttributes, ForgetPerson, tables
<1>4. ASSUME NEW t \in Task, CallContinues(t), ~InsertAttribute(t)
      PROVE  attribute' \subseteq attribute /\ drawn \subseteq drawn'
  BY <1>4 DEF CallContinues, InsertPerson, InsertIdentifier, ReadKey, MintKey,
              DeleteAttributes, DeleteIdentifiers, DeletePerson, StatementFails, tables
<1>. QED  BY <1>1, <1>2, <1>3, <1>4
          DEF Next, vars, tables, LookupPerson, PurgeExpired, Crash, Open, Tick

DirectoryInv == TypeInv /\ KeyInv /\ ForgetMarks /\ IdsDrawn

LEMMA DirectoryInvHolds == Spec => []DirectoryInv
<1>1. Init => IdsDrawn
  BY DEF Init, IdsDrawn
<1>. QED  BY <1>1, IdsStep, Typing, KeysHold, MarksHold, PTL DEF Spec, DirectoryInv

\* The rows the directory shows.
Readable == {a \in attribute : ~Expired(a) /\ Opens(a)}

LEMMA SameFacts ==
  ASSUME Readable' = Readable
  PROVE  Facts' = Facts
BY DEF Facts, Readable, FactOf

\* The facts of a set of rows are those rows without their keys.
LEMMA FactsOfPerson ==
  ASSUME NEW p, Readable' = {a \in Readable : a.person # p}
  PROVE  Facts' = {f \in Facts : f.person # p}
BY DEF Facts, Readable, FactOf

\* Whether reads of a person fail depends on its rows and its key only.
LEMMA SameFailing ==
  ASSUME NEW p,
         \A q \in Person : q # p => personKey'[q] = personKey[q],
         \A a : a.person # p => (a \in attribute' <=> a \in attribute),
         now' = now
  PROVE  \A q \in Person : q # p => (q \in Failing' <=> q \in Failing)
BY DEF Failing, Opens, Expired

-----------------------------------------------------------------------------
(* Each statement, as a step of the directory or none *)

LEMMA WriteImplements ==
  ASSUME NEW ix \in Index, NEW p \in Person, WriteIdentifier(ix, p),
         UNCHANGED <<personKey, attribute, touched, now>>
  PROVE  Directory!Identify(ix, p) \/ UNCHANGED Directory!vars
<1>1. UNCHANGED <<Facts, Failing>>
  BY DEF Facts, Failing, Opens, FactOf, Expired
<1>. QED  BY <1>1 DEF WriteIdentifier, Directory!Identify, Directory!vars

\* A row under the stored key is a fact learned; one under a key that a forget has
\* deleted makes the person's reads fail.
LEMMA InsertImplements ==
  ASSUME DirectoryInv, NEW t \in Task, InsertAttribute(t)
  PROVE  \/ \E f \in Fact : Directory!Learn(f)
         \/ \E p \in Person : Directory!Lose(p)
         \/ UNCHANGED Directory!vars
<1>1. PICK i \in AttrId \ drawn :
        attribute' = attribute \cup
          {[id |-> i, person |-> call[t].person, key |-> call[t].key,
            expires |-> call[t].expires]}
  BY DEF InsertAttribute
<1>. PICK p : p = call[t].person
  OBVIOUS
<1>. DEFINE a == [id |-> i, person |-> p, key |-> call[t].key,
                  expires |-> call[t].expires]
<1>2. FactOf(a) \in Fact /\ p \in Person
  BY DEF InsertAttribute, FactOf, Fact, DirectoryInv, TypeInv, TypeOK, CallLocals, Call
<1>3. UNCHANGED <<identifier, personKey, touched, now>> /\ attribute' = attribute \cup {a}
  BY <1>1 DEF InsertAttribute, history
<1>4. a.id = i /\ a.person = p
  OBVIOUS
<1>5. p \notin touched => Opens(a)
  BY DEF InsertAttribute, Opens, DirectoryInv, KeyInv, CallKeys
<1>. HIDE DEF a
<1>6. \A g \in Facts : g.id # FactOf(a).id
  BY <1>4 DEF Facts, FactOf, DirectoryInv, IdsDrawn
<1>7. \A q \in Person : q # p => (q \in Failing' <=> q \in Failing)
  BY <1>3, <1>4, SameFailing
<1>8. Failing \subseteq Person /\ Failing' \subseteq Person
  BY DEF Failing
<1>9. CASE Expired(a)
  <2>1. Readable' = Readable /\ Failing' = Failing
    BY <1>3, <1>9 DEF Readable, Failing, Opens, Expired
  <2>. QED  BY <1>3, <2>1, SameFacts DEF Directory!vars
<1>10. CASE ~Expired(a) /\ Opens(a)
  <2>1. Readable' = Readable \cup {a} /\ Failing' = Failing
    BY <1>3, <1>10 DEF Readable, Failing, Opens, Expired
  <2>2. Facts' = Facts \cup {FactOf(a)}
    BY <2>1 DEF Facts, Readable, FactOf
  <2>. QED  BY <1>2, <1>3, <1>6, <2>1, <2>2 DEF Directory!Learn
<1>11. CASE ~Expired(a) /\ ~Opens(a)
  <2>1. Readable' = Readable
    BY <1>3, <1>11 DEF Readable, Opens, Expired
  <2>2. p \in Failing'
    BY <1>2, <1>3, <1>4, <1>11 DEF Failing, Opens, Expired
  <2>3. Failing' = Failing \cup {p}
    BY <1>7, <1>8, <2>2
  <2>. QED  BY <1>2, <1>3, <1>5, <1>11, <2>1, <2>3, SameFacts DEF Directory!Lose
<1>. QED  BY <1>9, <1>10, <1>11

\* The first statement of a forget takes every readable row of the person.
LEMMA ForgetImplements ==
  ASSUME DirectoryInv, NEW t \in Task, NEW p \in Person, ForgetPerson(t, p)
  PROVE  Directory!Shred(p)
<1>1. \A a \in attribute : a.person \in Person /\ a.key # NoKey
  BY NullAssumption DEF DirectoryInv, TypeInv, TypeOK, Row
<1>2. \A q \in Person : personKey'[q] = IF q = p THEN NoKey ELSE personKey[q]
  BY DEF ForgetPerson, ShreddedKeys, DirectoryInv, TypeInv, TypeOK
<1>3. UNCHANGED <<identifier, attribute, now>> /\ touched' = touched \cup {p}
  BY DEF ForgetPerson
<1>4. Readable' = {a \in Readable : a.person # p}
  BY <1>1, <1>2, <1>3 DEF Readable, Opens, Expired
<1>5. Failing' \in {Failing \cup {p}, Failing \ {p}}
  <2>1. \A q \in Person : q # p => (q \in Failing' <=> q \in Failing)
    BY <1>2, <1>3, SameFailing
  <2>2. Failing \subseteq Person /\ Failing' \subseteq Person
    BY DEF Failing
  <2>. QED  BY <2>1, <2>2
<1>. QED  BY <1>3, <1>4, <1>5, FactsOfPerson DEF Directory!Shred

\* The second one takes what was learned of the person since, and all leftovers.
LEMMA DeleteImplements ==
  ASSUME DirectoryInv, NEW t \in Task, DeleteAttributes(t)
  PROVE  Directory!Shred(call[t].person)
<1>. PICK p : p = call[t].person
  OBVIOUS
<1>1. touched = touched \cup {p}
  BY DEF DeleteAttributes, DirectoryInv, ForgetMarks
<1>2. /\ attribute' = {a \in attribute : a.person # p}
      /\ UNCHANGED <<identifier, personKey, touched, now>>
  BY DEF DeleteAttributes, history
<1>3. Readable' = {a \in Readable : a.person # p}
  BY <1>2 DEF Readable, Opens, Expired
<1>4. Failing' = Failing \ {p}
  BY <1>2 DEF Failing, Opens, Expired
<1>5. Directory!Shred(p)
  BY <1>1, <1>2, <1>3, <1>4, FactsOfPerson DEF Directory!Shred
<1>. QED  BY <1>5

LEMMA UnlinkImplements ==
  ASSUME DirectoryInv, NEW t \in Task, DeleteIdentifiers(t)
  PROVE  Directory!Unlink(call[t].person)
<1>1. UNCHANGED <<Facts, Failing>>
  BY DEF DeleteIdentifiers, Facts, Failing, Opens, FactOf, Expired
<1>. QED  BY <1>1 DEF DeleteIdentifiers, WithoutPerson, history, DirectoryInv, ForgetMarks,
                      Directory!Unlink

\* A new key opens none of the rows there are.
LEMMA MintIsHidden ==
  ASSUME DirectoryInv, NEW t \in Task, MintKey(t)
  PROVE  UNCHANGED Directory!vars
<1>. PICK p : p = call[t].person
  OBVIOUS
<1>1. p \in Person /\ personKey[p] = NoKey
  BY DEF MintKey, KeyInsertable, DirectoryInv, TypeInv, CallLocals
<1>2. PICK k \in ContentKey \ drawn : personKey' = [personKey EXCEPT ![p] = k]
  BY DEF MintKey
<1>3. \A a \in attribute : a.person \in Person /\ a.key # NoKey /\ a.key # k
  BY <1>2, NullAssumption DEF DirectoryInv, TypeInv, TypeOK, Row, KeyInv, KeysDrawn
<1>4. UNCHANGED <<identifier, attribute, touched, now>>
  BY DEF MintKey, history
<1>5. \A q \in Person : q # p => personKey'[q] = personKey[q]
  BY <1>1, <1>2 DEF DirectoryInv, TypeInv, TypeOK
<1>6. personKey'[p] = k
  BY <1>1, <1>2 DEF DirectoryInv, TypeInv, TypeOK
<1>7. \A a \in attribute : Opens(a)' <=> Opens(a)
  BY <1>1, <1>3, <1>5, <1>6 DEF Opens
<1>8. Readable' = Readable /\ Failing' = Failing
  BY <1>4, <1>7 DEF Readable, Failing, Expired
<1>. QED  BY <1>4, <1>8, SameFacts DEF Directory!vars

LEMMA TickImplements ==
  ASSUME DirectoryInv, Tick
  PROVE  Directory!Tick
<1>1. now' = now + 1 /\ UNCHANGED <<identifier, personKey, attribute, touched>>
  BY DEF Tick, tables, history
<1>2. now \in Nat /\ \A a \in attribute : a.expires \in Nat \cup {Never}
  BY MaxTimeAssumption DEF DirectoryInv, TypeInv, TypeOK, Row, Expiry
<1>3. Readable' = {a \in Readable : a.expires = Never \/ a.expires > now + 1}
  BY <1>1, <1>2 DEF Readable, Opens, Expired
<1>4. Facts' = {f \in Facts : f.expires = Never \/ f.expires > now + 1}
  BY <1>3 DEF Facts, Readable, FactOf
<1>5. Failing' \subseteq Failing
  <2>1. ASSUME NEW a \in attribute, ~Expired(a)' PROVE ~Expired(a)
    BY <1>1, <1>2, <2>1 DEF Expired
  <2>. QED  BY <1>1, <2>1 DEF Failing, Opens
<1>. QED  BY <1>1, <1>4, <1>5 DEF Directory!Tick

\* Neither a sweep nor a restart, a read nor a failure shows.
LEMMA RestIsHidden ==
  ASSUME UNCHANGED <<identifier, personKey, touched, now>>,
         attribute' = attribute \/ attribute' = {a \in attribute : ~Expired(a)}
  PROVE  UNCHANGED Directory!vars
<1>1. Readable' = Readable /\ Failing' = Failing
  BY DEF Readable, Failing, Opens, Expired
<1>. QED  BY <1>1, SameFacts DEF Directory!vars

LEMMA DirectoryStep == DirectoryInv /\ [Next]_vars => [Directory!Next]_Directory!vars
<1>. SUFFICES ASSUME DirectoryInv, [Next]_vars, ~UNCHANGED Directory!vars
              PROVE  Directory!Next
  OBVIOUS
<1>1. known \subseteq Person /\ \A i \in Identifier : BlindIndex(i) \in Index
  BY DEF DirectoryInv, TypeInv, TypeOK, BlindIndex, Identifier, Index
<1>2. ASSUME NEW t \in Task, CallStarts(t) PROVE Directory!Next
  <2>1. ASSUME NEW p \in known, NEW i \in Identifier, LinkIdentifier(t, p, i)
        PROVE  Directory!Next
    <3>1. Directory!Identify(BlindIndex(i), p)
      BY <1>1, <2>1, WriteImplements DEF LinkIdentifier
    <3>. QED  BY <1>1, <3>1 DEF Directory!Next
  <2>2. ASSUME NEW p \in known, ForgetPerson(t, p) PROVE Directory!Next
    BY <1>1, <2>2, ForgetImplements DEF Directory!Next
  <2>. QED  BY <1>2, <2>1, <2>2, RestIsHidden
            DEF CallStarts, ResolveFound, ResolveUnseen, AddAttribute, GetAttributes,
                tables, history
<1>3. ASSUME NEW t \in Task, CallContinues(t) PROVE Directory!Next
  <2>0. call[t].at \notin {"idle", "insertPerson"} => call[t].person \in Person
    BY DEF DirectoryInv, TypeInv, CallLocals
  <2>1. CASE InsertIdentifier(t)
    <3>1. call[t].index \in Index /\ call[t].person \in Person
      BY <2>1 DEF InsertIdentifier, DirectoryInv, TypeInv, CallLocals
    <3>2. Directory!Identify(call[t].index, call[t].person)
      BY <2>1, <3>1, WriteImplements DEF InsertIdentifier
    <3>. QED  BY <3>1, <3>2 DEF Directory!Next
  <2>2. CASE InsertAttribute(t)
    BY <2>2, InsertImplements DEF Directory!Next
  <2>3. CASE DeleteAttributes(t)
    BY <2>0, <2>3, DeleteImplements DEF DeleteAttributes, Directory!Next
  <2>4. CASE DeleteIdentifiers(t)
    BY <2>0, <2>4, UnlinkImplements DEF DeleteIdentifiers, Directory!Next
  <2>5. CASE MintKey(t)
    BY <2>5, MintIsHidden
  <2>6. CASE InsertPerson(t) \/ ReadKey(t) \/ DeletePerson(t) \/ StatementFails(t)
    BY <2>6, RestIsHidden
       DEF InsertPerson, ReadKey, DeletePerson, StatementFails, tables, history
  <2>. QED  BY <1>3, <2>1, <2>2, <2>3, <2>4, <2>5, <2>6 DEF CallContinues
<1>4. CASE Tick
  BY <1>4, TickImplements DEF Directory!Next
<1>. QED  BY <1>2, <1>3, <1>4, RestIsHidden
          DEF Next, vars, tables, history, LookupPerson, PurgeExpired, Crash, Open

\* What a read answers, for whom it fails, and where identifiers lead is what
\* PersonDirectory promises, whatever overlaps, fails or crashes.
THEOREM DirectoryIsImplemented == Spec => ImplementsDirectory
<1>1. Init => Directory!Init
  BY DEF Init, Directory!Init, Facts, Failing
<1>. QED  BY <1>1, DirectoryStep, DirectoryInvHolds, PTL
          DEF Spec, ImplementsDirectory, Directory!Spec

=============================================================================
