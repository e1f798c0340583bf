-------------------------- MODULE PersonStoreProofs --------------------------
(***************************************************************************)
(* Theorems about PersonStore, for any number of tasks, persons, keys and  *)
(* rows.  Each invariant is strengthened to an inductive one, and the      *)
(* proof that a step preserves it has one step per action.                 *)
(***************************************************************************)
EXTENDS PersonStore, TLAPS

\* The locals a call holds at each of its steps.
CallLocals ==
  \A t \in Task :
    LET c == call[t] IN
    /\ c.at # "idle" /\ c.at # "insertPerson" => c.person \in Person
    /\ c.at \in {"insertPerson", "insertIdentifier"} => c.index \in Index
    /\ c.at = "insertAttribute" => c.key \in ContentKey

TypeInv == TypeOK /\ CallLocals

\* What a call holds agrees with the tables until a forget touches its person: the
\* key an add_attribute call writes under, and the rows a get_attributes call read.
CallKeys(c) ==
  /\ c.at = "insertAttribute" => c.key \in drawn
  /\ c.person \notin touched =>
       /\ c.at = "insertAttribute" => personKey[c.person] = c.key
       /\ c.at \in {"readKey", "mintKey"} =>
            \A a \in c.rows : a.key = personKey[c.person]

\* No key in use is still to be drawn.
KeysDrawn ==
  /\ \A p \in Person : personKey[p] # NoKey => personKey[p] \in drawn
  /\ \A a \in attribute \cup condemned : a.key \in drawn

KeyInv ==
  KeysDrawn /\ CryptoShred /\ UntouchedReadable /\ \A t \in Task : CallKeys(call[t])

\* A forget that is under way has left its mark on the person.
ForgetMarks ==
  \A t \in Task :
    call[t].at \in {"deleteAttributes", "deleteIdentifiers", "deletePerson"}
      => call[t].person \in touched

\* Persons in use are no longer to be drawn.
PersonsDrawn ==
  /\ person \cup known \cup forgotten \subseteq drawn
  /\ \A t \in Task : call[t].at \notin {"idle", "insertPerson"}
                       => call[t].person \in drawn
  /\ \A ix \in Index : identifier[ix] # NoPerson => identifier[ix] \in drawn

\* Every reference is to a person that has a row.
References ==
  /\ \A p \in Person : personKey[p] # NoKey => p \in person
  /\ \A a \in attribute : a.person \in person
  /\ \A ix \in Index : identifier[ix] # NoPerson => identifier[ix] \in person

FootprintInv == References /\ forgotten \cap person = {}

-----------------------------------------------------------------------------
(* Types *)

LEMMA IdleIsCall == Idle \in Call /\ Idle.at = "idle"
BY DEF Idle, Call, Expiry

\* A call that ends, or one that moves on, leaves the table of calls well formed.
LEMMA EndKeepsCalls ==
  ASSUME TypeInv, NEW t \in Task, call' = [call EXCEPT ![t] = Idle]
  PROVE  call' \in [Task -> Call] /\ CallLocals'
BY IdleIsCall DEF TypeInv, TypeOK, CallLocals

LEMMA GotoKeepsCalls ==
  ASSUME TypeInv, NEW t \in Task, call[t].at \notin {"idle", "insertPerson"},
         NEW step \in {"mintKey", "deleteIdentifiers", "deletePerson"},
         call' = [call EXCEPT ![t].at = step]
  PROVE  call' \in [Task -> Call] /\ CallLocals'
<1>1. call' \in [Task -> Call]
  BY SMTT(30) DEF TypeInv, TypeOK, Call
<1>2. ASSUME NEW u \in Task PROVE
        /\ call'[u].person = call[u].person
        /\ call'[u].at = IF u = t THEN step ELSE call[u].at
        /\ call'[u].index = call[u].index
        /\ call'[u].key = call[u].key
  BY DEF TypeInv, TypeOK, Call
<1>. QED  BY <1>1, <1>2 DEF TypeInv, CallLocals

\* So does person_content_key's answer to its caller.
LEMMA WithKeyKeepsCalls ==
  ASSUME TypeInv, NEW t \in Task, call[t].at \in {"readKey", "mintKey"},
         NEW k \in ContentKey, WithKey(t, k)
  PROVE  /\ call' \in [Task -> Call] /\ CallLocals'
         /\ outcome' \in [Task -> {"none", "ok", "db_error", "crypto_error"}]
<1>1. CASE call[t].op = "get"
  BY <1>1, EndKeepsCalls DEF WithKey, Finish, TypeInv, TypeOK
<1>2. CASE call[t].op = "add"
  <2>. DEFINE c == [call[t] EXCEPT !.at = "insertAttribute", !.key = k]
  <2>1. call' = [call EXCEPT ![t] = c]
    BY <1>2 DEF WithKey, TypeInv, TypeOK
  <2>2. c \in Call /\ c.at = "insertAttribute" /\ c.key = k /\ c.person \in Person
    <3>1. call[t] \in Call /\ call[t].person \in Person
      BY DEF TypeInv, TypeOK, CallLocals
    <3>2. c \in Call
      BY <3>1 DEF Call
    <3>3. c.at = "insertAttribute" /\ c.key = k /\ c.person = call[t].person
      BY <3>1 DEF Call
    <3>. QED  BY <3>1, <3>2, <3>3
  <2>. HIDE DEF c
  <2>3. call' \in [Task -> Call] /\ CallLocals'
    BY <2>1, <2>2 DEF TypeInv, TypeOK, CallLocals
  <2>. QED  BY <1>2, <2>3 DEF WithKey, TypeInv, TypeOK
<1>. QED  BY <1>1, <1>2 DEF WithKey

LEMMA TypeInit == Init => TypeInv
<1>. SUFFICES ASSUME Init PROVE TypeInv
  OBVIOUS
<1>1. call \in [Task -> Call] /\ CallLocals
  BY IdleIsCall DEF Init, CallLocals
<1>2. personKey \in [Person -> ContentKey \cup {NoKey}]
  BY DEF Init
<1>3. identifier \in [Index -> Person \cup {NoPerson}]
  BY DEF Init
<1>4. outcome \in [Task -> {"none", "ok", "db_error", "crypto_error"}]
  BY DEF Init
<1>5. answers \in [Index -> SUBSET Person]
  BY DEF Init
<1>6. now \in 0..MaxTime
  BY MaxTimeAssumption DEF Init
<1>. QED  BY <1>1, <1>2, <1>3, <1>4, <1>5, <1>6 DEF Init, TypeInv, TypeOK

LEMMA TypeStep == TypeInv /\ [Next]_vars => TypeInv'
<1>. SUFFICES ASSUME TypeInv, [Next]_vars PROVE TypeInv'
  OBVIOUS
<1>0. CASE UNCHANGED vars
  BY <1>0 DEF vars, tables, history, TypeInv, TypeOK, CallLocals
<1>1. ASSUME NEW t \in Task, CallStarts(t) PROVE TypeInv'
  <2>. USE DEF TypeInv, TypeOK, CallLocals
  <2>1. ASSUME NEW i \in Identifier, ResolveFound(t, i) PROVE TypeInv'
    BY <2>1 DEF ResolveFound, Answer, tables, BlindIndex, Identifier, Index
  <2>2. ASSUME NEW i \in Identifier, ResolveUnseen(t, i) PROVE TypeInv'
    BY <2>2, IdleIsCall
       DEF ResolveUnseen, Begin, tables, history, BlindIndex, Identifier, Index,
           Call, Idle
  <2>3. ASSUME NEW p \in known, NEW i \in Identifier, LinkIdentifier(t, p, i)
        PROVE TypeInv'
    BY <2>3 DEF LinkIdentifier, WriteIdentifier, BlindIndex, Identifier, Index
  <2>4. ASSUME NEW p \in known, NEW x \in Expiry, AddAttribute(t, p, x)
        PROVE TypeInv'
    BY <2>4, IdleIsCall DEF AddAttribute, Begin, tables, Call, Idle
  <2>5. ASSUME NEW p \in known, GetAttributes(t, p) PROVE TypeInv'
    <3>. DEFINE raw == {a \in attribute : a.person = p /\ ~Expired(a)}
                c == [Idle EXCEPT !.op = "get", !.at = "readKey", !.person = p,
                                  !.rows = raw]
    <3>1. c \in Call /\ c.at = "readKey" /\ c.person \in Person
      BY IdleIsCall DEF Call, Idle
    <3>2. CASE call' = call
      BY <2>5, <3>2 DEF GetAttributes, Begin, tables, history
    <3>3. CASE call' = [call EXCEPT ![t] = c]
      <4>. HIDE DEF c
      <4>1. call' \in [Task -> Call] /\ CallLocals'
        BY <3>1, <3>3
      <4>. QED  BY <2>5, <4>1 DEF GetAttributes, Begin, tables, history
    <3>. QED  BY <2>5, <3>2, <3>3 DEF GetAttributes, Begin
  <2>6. ASSUME NEW p \in known, ForgetPerson(t, p) PROVE TypeInv'
    BY <2>6, IdleIsCall DEF ForgetPerson, ShreddedKeys, Begin, Call, Idle
  <2>. QED  BY <1>1, <2>1, <2>2, <2>3, <2>4, <2>5, <2>6 DEF CallStarts
<1>2. ASSUME NEW t \in Task, CallContinues(t) PROVE TypeInv'
  <2>1. CASE InsertPerson(t)
    <3>1. PICK p \in Person \ drawn :
            /\ drawn' = drawn \cup {p}
            /\ person' = person \cup {p}
            /\ call' = [call EXCEPT ![t].at = "insertIdentifier", ![t].person = p]
      BY <2>1 DEF InsertPerson
    <3>. DEFINE c == [call[t] EXCEPT !.at = "insertIdentifier", !.person = p]
    <3>2. call' = [call EXCEPT ![t] = c]
      BY <3>1 DEF TypeInv, TypeOK
    <3>3. call[t] \in Call /\ call[t].index \in Index
      BY <2>1 DEF InsertPerson, TypeInv, TypeOK, CallLocals
    <3>4. /\ c \in Call /\ c.at = "insertIdentifier"
          /\ c.person \in Person /\ c.index \in Index
      BY <3>3 DEF Call
    <3>. HIDE DEF c
    <3>5. call' \in [Task -> Call] /\ CallLocals'
      BY <3>2, <3>4 DEF TypeInv, TypeOK, CallLocals
    <3>. QED  BY <2>1, <3>1, <3>5 DEF InsertPerson, history, TypeInv, TypeOK
  <2>2. CASE InsertIdentifier(t)
    <3>1. call' \in [Task -> Call] /\ CallLocals'
      BY <2>2, EndKeepsCalls DEF InsertIdentifier, Finish
    <3>. QED  BY <2>2, <3>1 DEF InsertIdentifier, WriteIdentifier, Answer, Finish,
                                TypeInv, TypeOK, CallLocals
  <2>3. CASE ReadKey(t)
    <3>1. CASE Goto(t, "mintKey")
      <4>1. call' \in [Task -> Call] /\ CallLocals'
        BY <2>3, <3>1, GotoKeepsCalls DEF ReadKey, Goto
      <4>. QED  BY <2>3, <3>1, <4>1 DEF ReadKey, Goto, tables, history, TypeInv, TypeOK
    <3>2. CASE /\ personKey[call[t].person] # NoKey
               /\ WithKey(t, personKey[call[t].person])
      <4>1. personKey[call[t].person] \in ContentKey
        BY <2>3, <3>2 DEF ReadKey, TypeInv, TypeOK, CallLocals
      <4>. QED  BY <2>3, <3>2, <4>1, WithKeyKeepsCalls
                DEF ReadKey, tables, history, TypeInv, TypeOK
    <3>. QED  BY <2>3, <3>1, <3>2 DEF ReadKey
  <2>4. CASE MintKey(t)
    <3>1. PICK k \in ContentKey \ drawn :
            /\ drawn' = drawn \cup {k}
            /\ personKey' = [personKey EXCEPT ![call[t].person] = k]
            /\ WithKey(t, k)
      BY <2>4 DEF MintKey
    <3>. QED  BY <2>4, <3>1, WithKeyKeepsCalls DEF MintKey, history, TypeInv, TypeOK
  <2>5. CASE InsertAttribute(t)
    <3>1. call' \in [Task -> Call] /\ CallLocals'
      BY <2>5, EndKeepsCalls DEF InsertAttribute, Finish
    <3>2. call[t].person \in Person /\ call[t].key \in ContentKey
          /\ call[t].expires \in Expiry
      BY <2>5 DEF InsertAttribute, TypeInv, TypeOK, CallLocals, Call
    <3>. QED  BY <2>5, <3>1, <3>2 DEF InsertAttribute, Finish, history, Row, TypeInv, TypeOK
  <2>6. CASE DeleteAttributes(t)
    <3>1. call' \in [Task -> Call] /\ CallLocals'
      BY <2>6, GotoKeepsCalls DEF DeleteAttributes, Goto
    <3>. QED  BY <2>6, <3>1 DEF DeleteAttributes, Goto, history, TypeInv, TypeOK
  <2>7. CASE DeleteIdentifiers(t)
    <3>1. call' \in [Task -> Call] /\ CallLocals'
      BY <2>7, GotoKeepsCalls DEF DeleteIdentifiers, Goto
    <3>. QED  BY <2>7, <3>1 DEF DeleteIdentifiers, WithoutPerson, Goto, history, TypeInv, TypeOK
  <2>8. CASE DeletePerson(t)
    <3>1. call' \in [Task -> Call] /\ CallLocals'
      BY <2>8, EndKeepsCalls DEF DeletePerson, Finish
    <3>. QED  BY <2>8, <3>1 DEF DeletePerson, Finish, TypeInv, TypeOK, CallLocals
  <2>9. CASE StatementFails(t)
    <3>1. call' \in [Task -> Call] /\ CallLocals'
      BY <2>9, EndKeepsCalls DEF StatementFails, Finish
    <3>. QED  BY <2>9, <3>1 DEF StatementFails, Finish, tables, history, TypeInv, TypeOK
  <2>. QED  BY <1>2, <2>1, <2>2, <2>3, <2>4, <2>5, <2>6, <2>7, <2>8, <2>9
            DEF CallContinues
<1>3. ASSUME NEW i \in Identifier, LookupPerson(i) PROVE TypeInv'
  BY <1>3 DEF LookupPerson, tables, history, BlindIndex, Identifier, Index,
              TypeInv, TypeOK, CallLocals
<1>4. CASE PurgeExpired
  BY <1>4 DEF PurgeExpired, history, TypeInv, TypeOK, CallLocals
<1>5. CASE Crash
  BY <1>5, IdleIsCall DEF Crash, tables, history, TypeInv, TypeOK, CallLocals
<1>6. CASE Open
  BY <1>6 DEF Open, history, TypeInv, TypeOK, CallLocals
<1>7. CASE Tick
  BY <1>7, MaxTimeAssumption DEF Tick, tables, history, TypeInv, TypeOK, CallLocals
<1>. QED  BY <1>0, <1>1, <1>2, <1>3, <1>4, <1>5, <1>6, <1>7 DEF Next

\* Every reachable state is well typed, and each call holds the locals its step uses.
THEOREM Typing == Spec => []TypeInv
BY TypeInit, TypeStep, PTL DEF Spec

\* In particular, the type invariant the runs check.
THEOREM TypeCorrect == Spec => []TypeOK
BY Typing, PTL DEF TypeInv

-----------------------------------------------------------------------------
(* Content keys *)

LEMMA IdleHoldsNothing ==
  /\ Idle.at = "idle"
  /\ CallKeys(Idle) /\ CallKeys(Idle)'
BY DEF Idle, CallKeys

\* A step that leaves the stored keys alone, adds no row and marks no person keeps
\* the invariant if the calls it changes hold what they should.
LEMMA KeyFrame ==
  ASSUME KeyInv,
         UNCHANGED <<personKey, touched, condemned>>,
         attribute' \subseteq attribute, drawn \subseteq drawn',
         \A t \in Task : call'[t] = call[t] \/ CallKeys(call[t])'
  PROVE  KeyInv'
<1>1. \A t \in Task : CallKeys(call[t])'
  BY DEF KeyInv, CallKeys
<1>. QED  BY <1>1 DEF KeyInv, KeysDrawn, CryptoShred, UntouchedReadable

LEMMA KeyInit == Init => KeyInv
BY IdleHoldsNothing
   DEF Init, KeyInv, KeysDrawn, CryptoShred, UntouchedReadable

\* A content key is minted only for a person with no key, hence with no readable row
\* and with no call that counts on an earlier key.
LEMMA KeyMint ==
  ASSUME TypeInv, KeyInv, NEW t \in Task, MintKey(t)
  PROVE  KeyInv'
<1>. DEFINE p == call[t].person
<1>1. p \in Person /\ personKey[p] = NoKey
  BY DEF MintKey, KeyInsertable, TypeInv, CallLocals
<1>2. PICK k \in ContentKey \ drawn :
        /\ drawn' = drawn \cup {k}
        /\ personKey' = [personKey EXCEPT ![p] = k]
        /\ WithKey(t, k)
  BY DEF MintKey
<1>. UNCHANGED <<attribute, touched, condemned>>
  BY DEF MintKey, history
<1>3. \A q \in Person : personKey'[q] = IF q = p THEN k ELSE personKey[q]
  BY <1>1, <1>2 DEF TypeInv, TypeOK
<1>4. KeysDrawn' /\ CryptoShred'
  <2>1. \A a \in condemned : a.person \in Person /\ a.key # k
    BY <1>2 DEF KeyInv, KeysDrawn, TypeInv, TypeOK, Row
  <2>. QED  BY <1>2, <1>3, <2>1 DEF KeyInv, KeysDrawn, CryptoShred
<1>5. UntouchedReadable'
  <2>1. \A a \in attribute : a.person \in Person /\ a.key # NoKey
    BY NullAssumption DEF TypeInv, TypeOK, Row
  <2>. QED  BY <1>1, <1>3, <2>1 DEF KeyInv, UntouchedReadable
<1>6. ASSUME NEW u \in Task, call'[u] = call[u] PROVE CallKeys(call[u])'
  <2>1. call[u].at \in {"readKey", "mintKey", "insertAttribute"}
          => call[u].person \in Person
    BY DEF TypeInv, CallLocals
  <2>2. call[u].at = "insertAttribute" => call[u].key # NoKey
    BY NullAssumption DEF TypeInv, CallLocals
  <2>3. \A a \in call[u].rows : a.key # NoKey
    BY NullAssumption DEF TypeInv, TypeOK, Call, Row
  <2>. QED  BY <1>1, <1>2, <1>3, <1>6, <2>1, <2>2, <2>3 DEF KeyInv, CallKeys
<1>7. CallKeys(call[t])'
  <2>1. CASE call'[t] = Idle
    BY <2>1, IdleHoldsNothing DEF CallKeys
  <2>2. CASE /\ call'[t].at = "insertAttribute" /\ call'[t].key = k
             /\ call'[t].person = p
    BY <1>1, <1>2, <1>3, <2>2 DEF CallKeys
  <2>. QED  BY <1>2, <2>1, <2>2 DEF WithKey, Finish, TypeInv, TypeOK, Call
<1>8. \A u \in Task \ {t} : call'[u] = call[u]
  BY <1>2 DEF WithKey, Finish, TypeInv, TypeOK
<1>. QED  BY <1>4, <1>5, <1>6, <1>7, <1>8 DEF KeyInv

\* A row is written under the key its call holds.
LEMMA KeyInsertAttribute ==
  ASSUME TypeInv, KeyInv, NEW t \in Task, InsertAttribute(t)
  PROVE  KeyInv'
<1>1. PICK a \in AttrId \ drawn :
        /\ drawn' = drawn \cup {a}
        /\ attribute' = attribute \cup
             {[id |-> a, person |-> call[t].person, key |-> call[t].key,
               expires |-> call[t].expires]}
  BY DEF InsertAttribute
<1>. UNCHANGED <<personKey, touched, condemned>>
  BY DEF InsertAttribute, history
<1>2. KeysDrawn' /\ CryptoShred' /\ UntouchedReadable'
  <2>. call[t].at = "insertAttribute"
    BY DEF InsertAttribute
  <2>. QED  BY <1>1 DEF KeyInv, CallKeys, KeysDrawn, CryptoShred, UntouchedReadable
<1>3. ASSUME NEW u \in Task PROVE CallKeys(call[u])'
  <2>1. CASE u = t
    BY <2>1, IdleHoldsNothing DEF InsertAttribute, Finish, TypeInv, TypeOK, CallKeys
  <2>2. CASE u # t
    <3>. call'[u] = call[u]
      BY <2>2 DEF InsertAttribute, Finish, TypeInv, TypeOK
    <3>. QED  BY <1>1 DEF KeyInv, CallKeys
  <2>. QED  BY <2>1, <2>2
<1>. QED  BY <1>2, <1>3 DEF KeyInv

\* The forget that deletes a person's key takes the person out of every promise.
LEMMA KeyForgetPerson ==
  ASSUME TypeInv, KeyInv, NEW t \in Task, NEW p \in Person, ForgetPerson(t, p)
  PROVE  KeyInv'
<1>1. \A q \in Person : personKey'[q] = IF q = p THEN NoKey ELSE personKey[q]
  BY DEF ForgetPerson, ShreddedKeys, TypeInv, TypeOK
<1>2. /\ condemned' = condemned \cup {a \in attribute : a.person = p}
      /\ touched' = touched \cup {p}
      /\ UNCHANGED <<attribute, drawn>>
  BY DEF ForgetPerson
<1>3. \A a \in attribute \cup condemned : a.person \in Person /\ a.key # NoKey
  BY NullAssumption DEF TypeInv, TypeOK, Row
<1>4. KeysDrawn' /\ CryptoShred' /\ UntouchedReadable'
  BY <1>1, <1>2, <1>3 DEF KeyInv, KeysDrawn, CryptoShred, UntouchedReadable
<1>5. ASSUME NEW u \in Task PROVE CallKeys(call[u])'
  <2>1. CASE u = t
    <3>. call'[t].at = "deleteAttributes"
      BY DEF ForgetPerson, Begin, Idle, TypeInv, TypeOK
    <3>. QED  BY <2>1 DEF CallKeys
  <2>2. CASE u # t
    <3>1. call'[u] = call[u]
      BY <2>2 DEF ForgetPerson, Begin, TypeInv, TypeOK
    <3>2. call[u].at \in {"readKey", "mintKey", "insertAttribute"}
            => call[u].person \in Person
      BY DEF TypeInv, CallLocals
    <3>. QED  BY <1>1, <1>2, <3>1, <3>2 DEF KeyInv, CallKeys
  <2>. QED  BY <2>1, <2>2
<1>. QED  BY <1>4, <1>5 DEF KeyInv

LEMMA KeyStep == TypeInv /\ KeyInv /\ [Next]_vars => KeyInv'
<1>. SUFFICES ASSUME TypeInv, KeyInv, [Next]_vars PROVE KeyInv'
  OBVIOUS
<1>. USE DEF TypeInv, TypeOK
<1>0. CASE UNCHANGED vars
  BY <1>0, KeyFrame DEF vars, tables, history
<1>1. ASSUME NEW t \in Task, CallStarts(t) PROVE KeyInv'
  <2>1. ASSUME NEW i \in Identifier, ResolveFound(t, i) PROVE KeyInv'
    BY <2>1, KeyFrame DEF ResolveFound, tables
  <2>2. ASSUME NEW i \in Identifier, ResolveUnseen(t, i) PROVE KeyInv'
    <3>1. CallKeys(call[t])'
      BY <2>2 DEF ResolveUnseen, Begin, Idle, CallKeys
    <3>. QED  BY <2>2, <3>1, KeyFrame DEF ResolveUnseen, Begin, tables, history
  <2>3. ASSUME NEW p \in known, NEW i \in Identifier, LinkIdentifier(t, p, i)
        PROVE KeyInv'
    BY <2>3, KeyFrame DEF LinkIdentifier
  <2>4. ASSUME NEW p \in known, NEW x \in Expiry, AddAttribute(t, p, x)
        PROVE KeyInv'
    <3>1. CallKeys(call[t])'
      BY <2>4 DEF AddAttribute, Begin, Idle, CallKeys
    <3>. QED  BY <2>4, <3>1, KeyFrame DEF AddAttribute, Begin, tables
  <2>5. ASSUME NEW p \in known, GetAttributes(t, p) PROVE KeyInv'
    <3>. DEFINE raw == {a \in attribute : a.person = p /\ ~Expired(a)}
                c == [Idle EXCEPT !.op = "get", !.at = "readKey", !.person = p,
                                  !.rows = raw]
    <3>. UNCHANGED <<tables, now, up, drawn, known, history>>
      BY <2>5 DEF GetAttributes
    <3>1. CASE call' = call
      BY <3>1, KeyFrame DEF tables, history
    <3>2. CASE call' = [call EXCEPT ![t] = c]
      <4>1. c.at = "readKey" /\ c.person = p /\ c.rows = raw
        BY DEF Idle
      <4>. HIDE DEF c
      <4>2. CallKeys(call[t])'
        BY <3>2, <4>1 DEF CallKeys, KeyInv, UntouchedReadable, tables, history
      <4>. QED  BY <3>2, <4>2, KeyFrame DEF tables, history
    <3>. QED  BY <2>5, <3>1, <3>2 DEF GetAttributes, Begin
  <2>6. ASSUME NEW p \in known, ForgetPerson(t, p) PROVE KeyInv'
    BY <2>6, KeyForgetPerson
  <2>. QED  BY <1>1, <2>1, <2>2, <2>3, <2>4, <2>5, <2>6 DEF CallStarts
<1>2. ASSUME NEW t \in Task, CallContinues(t) PROVE KeyInv'
  <2>1. CASE InsertPerson(t)
    <3>1. CallKeys(call[t])'
      BY <2>1 DEF InsertPerson, Call, CallKeys
    <3>. QED  BY <2>1, <3>1, KeyFrame DEF InsertPerson, history
  <2>2. CASE InsertIdentifier(t)
    <3>1. CallKeys(call[t])'
      BY <2>2, IdleHoldsNothing DEF InsertIdentifier, Finish, CallKeys
    <3>. QED  BY <2>2, <3>1, KeyFrame DEF InsertIdentifier, Finish
  <2>3. CASE ReadKey(t)
    <3>. DEFINE p == call[t].person
    <3>. UNCHANGED <<tables, drawn, history>>
      BY <2>3 DEF ReadKey
    <3>1. CASE Goto(t, "mintKey")
      <4>1. CallKeys(call[t])'
        BY <2>3, <3>1 DEF ReadKey, Goto, Call, CallKeys, KeyInv, tables, history
      <4>. QED  BY <3>1, <4>1, KeyFrame DEF Goto, tables, history
    <3>2. CASE WithKey(t, personKey[p]) /\ personKey[p] # NoKey
      <4>1. CallKeys(call[t])'
        <5>1. p \in Person /\ personKey[p] \in drawn
          BY <2>3, <3>2 DEF ReadKey, CallLocals, KeyInv, KeysDrawn
        <5>2. CASE call'[t] = Idle
          BY <5>2, IdleHoldsNothing DEF CallKeys
        <5>3. CASE /\ call'[t].at = "insertAttribute" /\ call'[t].person = p
                   /\ call'[t].key = personKey[p]
          BY <5>1, <5>3 DEF CallKeys, tables, history
        <5>. QED  BY <3>2, <5>2, <5>3 DEF WithKey, Finish, Call
      <4>. QED  BY <3>2, <4>1, KeyFrame DEF WithKey, Finish, tables, history
    <3>. QED  BY <2>3, <3>1, <3>2 DEF ReadKey
  <2>4. CASE MintKey(t)
    BY <2>4, KeyMint
  <2>5. CASE InsertAttribute(t)
    BY <2>5, KeyInsertAttribute
  <2>6. CASE DeleteAttributes(t)
    <3>1. CallKeys(call[t])'
      BY <2>6 DEF DeleteAttributes, Goto, Call, CallKeys
    <3>. QED  BY <2>6, <3>1, KeyFrame DEF DeleteAttributes, Goto, history
  <2>7. CASE DeleteIdentifiers(t)
    <3>1. CallKeys(call[t])'
      BY <2>7 DEF DeleteIdentifiers, Goto, Call, CallKeys
    <3>. QED  BY <2>7, <3>1, KeyFrame DEF DeleteIdentifiers, Goto, history
  <2>8. CASE DeletePerson(t)
    <3>1. CallKeys(call[t])'
      BY <2>8, IdleHoldsNothing DEF DeletePerson, Finish, CallKeys
    <3>. QED  BY <2>8, <3>1, KeyFrame DEF DeletePerson, Finish
  <2>9. CASE StatementFails(t)
    <3>1. CallKeys(call[t])'
      BY <2>9, IdleHoldsNothing DEF StatementFails, Finish, CallKeys
    <3>. QED  BY <2>9, <3>1, KeyFrame DEF StatementFails, Finish, tables, history
  <2>. QED  BY <1>2, <2>1, <2>2, <2>3, <2>4, <2>5, <2>6, <2>7, <2>8, <2>9
            DEF CallContinues
<1>3. ASSUME NEW i \in Identifier, LookupPerson(i) PROVE KeyInv'
  BY <1>3, KeyFrame DEF LookupPerson, tables, history
<1>4. CASE PurgeExpired
  BY <1>4, KeyFrame DEF PurgeExpired, history
<1>5. CASE Crash
  <2>1. \A t \in Task : CallKeys(call[t])'
    BY <1>5, IdleHoldsNothing DEF Crash, CallKeys
  <2>. QED  BY <1>5, <2>1, KeyFrame DEF Crash, tables, history
<1>6. CASE Open
  BY <1>6, KeyFrame DEF Open, history
<1>7. CASE Tick
  BY <1>7, KeyFrame DEF Tick, tables, history
<1>. QED  BY <1>0, <1>1, <1>2, <1>3, <1>4, <1>5, <1>6, <1>7 DEF Next

LEMMA KeysHold == Spec => []KeyInv
BY Typing, KeyInit, KeyStep, PTL DEF Spec

\* Crypto-shredding holds whatever overlaps a forget_person, fails or crashes.
THEOREM Shredding == Spec => []CryptoShred
BY KeysHold, PTL DEF KeyInv

\* Until a forget, every attribute row opens with its person's stored key.
THEOREM Readability == Spec => []UntouchedReadable
BY KeysHold, PTL DEF KeyInv

-----------------------------------------------------------------------------
(* What a read reports, and where identifiers go *)

LEMMA PoisonStep ==
  ASSUME TypeInv, KeyInv, [Next]_vars, NEW t \in Task,
         outcome'[t] = "crypto_error", outcome[t] # "crypto_error"
  PROVE  call[t].person \in touched
<1>. USE DEF TypeInv, TypeOK
<1>. SUFFICES ASSUME call[t].person \notin touched PROVE FALSE
  OBVIOUS
<1>1. ASSUME NEW k, call[t].at \in {"readKey", "mintKey"}, WithKey(t, k),
             \A a \in call[t].rows : a.key = k
      PROVE  FALSE
  BY <1>1 DEF WithKey, Finish
<1>2. CASE ReadKey(t)
  BY <1>1, <1>2 DEF ReadKey, Goto, KeyInv, CallKeys
<1>3. CASE MintKey(t)
  <2>1. call[t].rows = {}
    <3>1. \A a \in call[t].rows : a.key # NoKey
      BY NullAssumption DEF Call, Row
    <3>. QED  BY <1>3, <3>1 DEF MintKey, KeyInsertable, KeyInv, CallKeys
  <2>. QED  BY <1>1, <1>3, <2>1 DEF MintKey
<1>4. outcome'[t] = "crypto_error" => ReadKey(t) \/ MintKey(t)
  <2>1. CASE UNCHANGED outcome
    BY <2>1
  <2>2. ASSUME NEW u \in Task, outcome' # outcome, CallStarts(u) PROVE FALSE
    BY <2>2 DEF CallStarts, ResolveFound, ResolveUnseen, LinkIdentifier, AddAttribute,
                GetAttributes, ForgetPerson, Begin
  <2>3. ASSUME NEW u \in Task, CallContinues(u), ~ReadKey(u), ~MintKey(u)
        PROVE  FALSE
    BY <2>3 DEF CallContinues, InsertPerson, InsertIdentifier, InsertAttribute,
                DeleteAttributes, DeleteIdentifiers, DeletePerson, StatementFails,
                Goto, Finish
  <2>4. ASSUME NEW u \in Task, ReadKey(u) \/ MintKey(u), u # t PROVE FALSE
    BY <2>4 DEF ReadKey, MintKey, WithKey, Goto, Finish
  <2>5. CASE Crash
    BY <2>5 DEF Crash
  <2>. QED  BY <2>1, <2>2, <2>3, <2>4, <2>5
            DEF Next, vars, LookupPerson, PurgeExpired, Open, Tick
<1>. QED  BY <1>2, <1>3, <1>4

\* A read reports a decryption failure only for a person a forget has touched.
THEOREM ReadsAreClean == Spec => NoPoisonedRead
<1>1. TypeInv /\ KeyInv /\ [Next]_vars =>
        [\A t \in Task : outcome'[t] = "crypto_error" /\ outcome[t] # "crypto_error"
                           => call[t].person \in touched]_vars
  BY PoisonStep
<1>. QED  BY <1>1, Typing, KeysHold, PTL DEF Spec, NoPoisonedRead

\* Only a read has rows, and they are of its person.
RowsRead ==
  \A t \in Task : call[t].rows # {} =>
    /\ call[t].op = "get" /\ call[t].at \in {"readKey", "mintKey"}
    /\ \A a \in call[t].rows : a.person = call[t].person

LEMMA RowsStep == TypeInv /\ RowsRead /\ [Next]_vars => RowsRead'
<1>. SUFFICES ASSUME TypeInv, RowsRead, [Next]_vars PROVE RowsRead'
  OBVIOUS
<1>. USE DEF TypeInv, TypeOK
<1>1. SUFFICES ASSUME NEW u \in Task, call'[u] # call[u], call'[u].rows # {}
               PROVE  /\ call'[u].op = "get" /\ call'[u].at \in {"readKey", "mintKey"}
                      /\ \A a \in call'[u].rows : a.person = call'[u].person
  BY DEF RowsRead
<1>2. Idle.rows = {}
  BY DEF Idle
<1>3. ASSUME NEW t \in Task, CallStarts(t)
      PROVE  \E p \in known : GetAttributes(t, p)
  <2>1. ASSUME NEW p \in known, ForgetPerson(t, p) PROVE FALSE
    BY <1>1, <2>1 DEF ForgetPerson, Begin, Idle
  <2>2. ASSUME NEW p \in known, NEW x \in Expiry, AddAttribute(t, p, x) PROVE FALSE
    BY <1>1, <2>2 DEF AddAttribute, Begin, Idle
  <2>3. ASSUME NEW i \in Identifier, ResolveUnseen(t, i) PROVE FALSE
    BY <1>1, <2>3 DEF ResolveUnseen, Begin, Idle
  <2>. QED  BY <1>1, <1>3, <2>1, <2>2, <2>3 DEF CallStarts, ResolveFound, LinkIdentifier
<1>4. ASSUME NEW t \in Task, NEW p \in known, GetAttributes(t, p)
      PROVE  /\ call'[u].op = "get" /\ call'[u].at \in {"readKey", "mintKey"}
             /\ \A a \in call'[u].rows : a.person = call'[u].person
  <2>. DEFINE raw == {a \in attribute : a.person = p /\ ~Expired(a)}
              c == [Idle EXCEPT !.op = "get", !.at = "readKey", !.person = p,
                                !.rows = raw]
  <2>1. c.op = "get" /\ c.at = "readKey" /\ c.person = p /\ c.rows = raw
    BY DEF Idle
  <2>2. call' = [call EXCEPT ![t] = c]
    BY <1>1, <1>4 DEF GetAttributes, Begin
  <2>. HIDE DEF c
  <2>. QED  BY <1>1, <2>1, <2>2
<1>5. ASSUME NEW t \in Task, CallContinues(t), ~ReadKey(t)
      PROVE  FALSE
  <2>1. call[t].at \in {"insertPerson", "deleteAttributes", "deleteIdentifiers"}
          => call[t].rows = {}
    BY DEF RowsRead
  <2>2. CASE MintKey(t)
    BY <1>1, <1>2, <2>2 DEF MintKey, WithKey, Finish, RowsRead, Call
  <2>3. CASE InsertPerson(t) \/ DeleteAttributes(t) \/ DeleteIdentifiers(t)
    BY <1>1, <2>1, <2>3 DEF InsertPerson, DeleteAttributes, DeleteIdentifiers, Goto, Call
  <2>. QED  BY <1>1, <1>2, <1>5, <2>2, <2>3
            DEF CallContinues, InsertIdentifier, InsertAttribute, DeletePerson,
                StatementFails, Finish
<1>6. ASSUME NEW t \in Task, ReadKey(t)
      PROVE  /\ call'[u].op = "get" /\ call'[u].at \in {"readKey", "mintKey"}
             /\ \A a \in call'[u].rows : a.person = call'[u].person
  <2>1. u = t /\ call[t] \in Call
    BY <1>1, <1>6 DEF ReadKey, WithKey, Goto, Finish
  <2>2. CASE Goto(t, "mintKey")
    <3>1. call'[t] = [call[t] EXCEPT !.at = "mintKey"]
      BY <2>2 DEF Goto
    <3>2. /\ call'[t].rows = call[t].rows /\ call'[t].op = call[t].op
          /\ call'[t].person = call[t].person /\ call'[t].at = "mintKey"
      BY <2>1, <3>1 DEF Call
    <3>. QED  BY <1>1, <2>1, <3>2 DEF RowsRead
  <2>3. CASE \E k : WithKey(t, k)
    BY <1>1, <1>2, <2>1, <2>3 DEF WithKey, Finish, RowsRead, Call
  <2>. QED  BY <1>6, <2>2, <2>3 DEF ReadKey
<1>7. CASE Crash
  BY <1>1, <1>2, <1>7 DEF Crash
<1>. QED  BY <1>1, <1>3, <1>4, <1>5, <1>6, <1>7
          DEF Next, vars, LookupPerson, PurgeExpired, Open, Tick

LEMMA RowsHold == Spec => []RowsRead
<1>1. Init => RowsRead
  BY DEF Init, RowsRead, Idle
<1>. QED  BY <1>1, RowsStep, Typing, PTL DEF Spec

LEMMA AnswerStep ==
  ASSUME TypeInv, KeyInv, RowsRead, [Next]_vars, NEW t \in Task,
         call[t].op = "get", outcome'[t] = "ok", outcome[t] # "ok"
  PROVE  call[t].rows \cap condemned = {}
<1>. USE DEF TypeInv, TypeOK
<1>. SUFFICES ASSUME NEW a \in call[t].rows, a \in condemned PROVE FALSE
  OBVIOUS
<1>1. /\ call[t].at \in {"readKey", "mintKey"} /\ a.person = call[t].person
      /\ a.key \in drawn /\ personKey[a.person] # a.key
  BY DEF RowsRead, KeyInv, KeysDrawn, CryptoShred
<1>2. ASSUME NEW k, WithKey(t, k) PROVE a.key = k
  BY <1>2 DEF WithKey, Finish
<1>3. CASE ReadKey(t)
  BY <1>1, <1>2, <1>3 DEF ReadKey, Goto
<1>4. CASE MintKey(t)
  BY <1>1, <1>2, <1>4 DEF MintKey
<1>5. ReadKey(t) \/ MintKey(t)
  <2>1. outcome'[t] # outcome[t]
    OBVIOUS
  <2>2. ASSUME NEW u \in Task, CallStarts(u) PROVE FALSE
    <3>1. u # t => outcome'[t] = outcome[t]
      BY <2>2 DEF CallStarts, ResolveFound, ResolveUnseen, LinkIdentifier, AddAttribute,
                  GetAttributes, ForgetPerson, Begin
    <3>2. u = t => call[t].at = "idle"
      BY <2>2 DEF CallStarts, ResolveFound, ResolveUnseen, LinkIdentifier, AddAttribute,
                  GetAttributes, ForgetPerson, Ready
    <3>. QED  BY <1>1, <2>1, <3>1, <3>2
  <2>3. ASSUME NEW u \in Task, CallContinues(u), u # t PROVE FALSE
    BY <2>1, <2>3 DEF CallContinues, InsertPerson, InsertIdentifier, ReadKey, MintKey,
                InsertAttribute, DeleteAttributes, DeleteIdentifiers, DeletePerson,
                StatementFails, WithKey, Goto, Finish
  <2>4. ASSUME CallContinues(t) PROVE ReadKey(t) \/ MintKey(t)
    BY <1>1, <2>1, <2>4 DEF CallContinues, InsertPerson, InsertIdentifier,
                InsertAttribute, DeleteAttributes, DeleteIdentifiers, DeletePerson,
                StatementFails, Finish
  <2>5. CASE Crash
    BY <2>5 DEF Crash
  <2>. QED  BY <2>1, <2>2, <2>3, <2>4, <2>5
            DEF Next, vars, LookupPerson, PurgeExpired, Open, Tick
<1>. QED  BY <1>3, <1>4, <1>5

\* No read that takes the key after a forget has begun answers what it set out to erase.
THEOREM ErasedIsNotAnswered == Spec => NoErasedAnswer
<1>1. TypeInv /\ KeyInv /\ RowsRead /\ [Next]_vars =>
        [\A t \in Task : call[t].op = "get" /\ outcome'[t] = "ok" /\ outcome[t] # "ok"
                           => call[t].rows \cap condemned = {}]_vars
  BY AnswerStep
<1>. QED  BY <1>1, Typing, KeysHold, RowsHold, PTL DEF Spec, NoErasedAnswer

LEMMA MarksInit == Init => ForgetMarks
BY IdleIsCall DEF Init, ForgetMarks

LEMMA MarksStep == TypeInv /\ ForgetMarks /\ [Next]_vars => ForgetMarks'
<1>. SUFFICES ASSUME TypeInv, ForgetMarks, [Next]_vars PROVE ForgetMarks'
  OBVIOUS
<1>. USE DEF TypeInv, TypeOK
<1>1. touched \subseteq touched'
  BY DEF Next, vars, history, CallStarts, CallContinues, ResolveFound, ResolveUnseen,
         LinkIdentifier, AddAttribute, GetAttributes, ForgetPerson, InsertPerson,
         InsertIdentifier, ReadKey, MintKey, InsertAttribute, DeleteAttributes,
         DeleteIdentifiers, DeletePerson, StatementFails, LookupPerson, PurgeExpired,
         Crash, Open, Tick
<1>. DEFINE Marked(c) ==
       c.at \in {"deleteAttributes", "deleteIdentifiers", "deletePerson"}
         => c.person \in touched'
<1>2. SUFFICES ASSUME NEW u \in Task, call'[u] # call[u] PROVE Marked(call'[u])
  BY <1>1 DEF ForgetMarks
<1>3. Marked(Idle)
  BY IdleIsCall
<1>4. ASSUME NEW t \in Task, CallStarts(t) PROVE Marked(call'[u])
  <2>1. ASSUME NEW p \in known, ForgetPerson(t, p) PROVE Marked(call'[u])
    BY <1>2, <2>1 DEF ForgetPerson, Begin, Idle
  <2>2. ASSUME NEW p \in known, GetAttributes(t, p) PROVE Marked(call'[u])
    <3>. DEFINE raw == {a \in attribute : a.person = p /\ ~Expired(a)}
                c == [Idle EXCEPT !.op = "get", !.at = "readKey", !.person = p,
                                  !.rows = raw]
    <3>1. c.at = "readKey"
      BY DEF Idle
    <3>2. call' = [call EXCEPT ![t] = c]
      BY <1>2, <2>2 DEF GetAttributes, Begin
    <3>. HIDE DEF c
    <3>. QED  BY <1>2, <3>1, <3>2
  <2>3. ASSUME NEW p \in known, NEW x \in Expiry, AddAttribute(t, p, x)
        PROVE  Marked(call'[u])
    BY <1>2, <2>3 DEF AddAttribute, Begin, Idle
  <2>4. ASSUME NEW i \in Identifier, ResolveUnseen(t, i) PROVE Marked(call'[u])
    BY <1>2, <2>4 DEF ResolveUnseen, Begin, Idle
  <2>. QED  BY <1>2, <1>4, <2>1, <2>2, <2>3, <2>4
            DEF CallStarts, ResolveFound, LinkIdentifier
<1>5. ASSUME NEW t \in Task, CallContinues(t) PROVE Marked(call'[u])
  <2>1. CASE call' = [call EXCEPT ![t] = Idle]
    BY <1>2, <1>3, <2>1
  <2>2. CASE InsertPerson(t)
    BY <1>2, <2>2 DEF InsertPerson, Call
  <2>3. CASE ReadKey(t) \/ MintKey(t)
    <3>1. call'[u] = Idle \/ call'[u].at \in {"mintKey", "insertAttribute"}
      BY <1>2, <2>3 DEF ReadKey, MintKey, WithKey, Goto, Finish, Call
    <3>. QED  BY <1>3, <3>1
  <2>4. CASE DeleteAttributes(t) \/ DeleteIdentifiers(t)
    <3>1. call'[u].person = call[u].person /\ call[u].person \in touched
      BY <1>2, <2>4 DEF DeleteAttributes, DeleteIdentifiers, Goto, Call, ForgetMarks
    <3>. QED  BY <1>1, <3>1
  <2>. QED  BY <1>5, <2>1, <2>2, <2>3, <2>4
            DEF CallContinues, InsertIdentifier, InsertAttribute, DeletePerson,
                StatementFails, Finish
<1>6. CASE Crash
  BY <1>3, <1>6 DEF Crash
<1>. QED  BY <1>2, <1>4, <1>5, <1>6
          DEF Next, vars, LookupPerson, PurgeExpired, Open, Tick

LEMMA MarksHold == Spec => []ForgetMarks
BY Typing, MarksInit, MarksStep, PTL DEF Spec

LEMMA MoveStep ==
  ASSUME TypeInv, ForgetMarks, [Next]_vars, NEW ix \in Index,
         identifier'[ix] # identifier[ix], identifier[ix] # NoPerson
  PROVE  identifier'[ix] = NoPerson /\ identifier[ix] \in touched
<1>1. ASSUME NEW jx \in Index, NEW p, WriteIdentifier(jx, p) PROVE FALSE
  BY <1>1 DEF WriteIdentifier, TypeInv, TypeOK
<1>2. ASSUME NEW i \in Identifier PROVE BlindIndex(i) \in Index
  BY DEF BlindIndex, Identifier, Index
<1>3. ASSUME NEW t \in Task, CallStarts(t) PROVE FALSE
  BY <1>1, <1>2, <1>3
     DEF CallStarts, ResolveFound, ResolveUnseen, LinkIdentifier, AddAttribute,
         GetAttributes, ForgetPerson, tables
<1>4. ASSUME NEW t \in Task, CallContinues(t)
      PROVE  identifier'[ix] = NoPerson /\ identifier[ix] \in touched
  <2>1. CASE InsertIdentifier(t)
    BY <1>1, <2>1 DEF InsertIdentifier, TypeInv, CallLocals
  <2>2. CASE DeleteIdentifiers(t)
    BY <2>2 DEF DeleteIdentifiers, WithoutPerson, ForgetMarks
  <2>. QED  BY <1>4, <2>1, <2>2
            DEF CallContinues, InsertPerson, ReadKey, MintKey, InsertAttribute,
                DeleteAttributes, DeletePerson, StatementFails, tables
<1>. QED  BY <1>3, <1>4
          DEF Next, vars, tables, LookupPerson, PurgeExpired, Crash, Open, Tick

\* An identifier never moves from one person to another.
THEOREM IdentifiersStay == Spec => IdentifierNeverMoves
<1>1. TypeInv /\ ForgetMarks /\ [Next]_vars =>
        [\A ix \in Index :
           identifier'[ix] # identifier[ix] /\ identifier[ix] # NoPerson
             => identifier'[ix] = NoPerson /\ identifier[ix] \in touched]_vars
  BY MoveStep
<1>. QED  BY <1>1, Typing, MarksHold, PTL DEF Spec, IdentifierNeverMoves

-----------------------------------------------------------------------------
(* What a forget leaves, where SQLite enforces the references *)

LEMMA DrawnInit == Init => PersonsDrawn
BY IdleIsCall DEF Init, PersonsDrawn

LEMMA DrawnStep == TypeInv /\ PersonsDrawn /\ [Next]_vars => PersonsDrawn'
<1>. SUFFICES ASSUME TypeInv, PersonsDrawn, [Next]_vars PROVE PersonsDrawn'
  OBVIOUS
<1>. USE DEF TypeInv, TypeOK
<1>0. drawn \subseteq drawn'
  BY DEF Next, vars, CallStarts, CallContinues, ResolveFound, ResolveUnseen,
         LinkIdentifier, AddAttribute, GetAttributes, ForgetPerson, InsertPerson,
         InsertIdentifier, ReadKey, MintKey, InsertAttribute, DeleteAttributes,
         DeleteIdentifiers, DeletePerson, StatementFails, LookupPerson, PurgeExpired,
         Crash, Open, Tick
<1>. DEFINE CallDrawn(c) == c.at \notin {"idle", "insertPerson"} => c.person \in drawn'
            Others == \A t \in Task : CallDrawn(call'[t])
            Tables == /\ person' \cup known' \cup forgotten' \subseteq drawn'
                      /\ \A ix \in Index : identifier'[ix] # NoPerson
                                             => identifier'[ix] \in drawn'
<1>1. CallDrawn(Idle)
  BY IdleIsCall
<1>2. SUFFICES Others /\ Tables
  BY DEF PersonsDrawn
<1>3. ASSUME NEW t \in Task, \A u \in Task \ {t} : call'[u] = call[u],
             CallDrawn(call'[t])
      PROVE  Others
  BY <1>0, <1>3 DEF PersonsDrawn
<1>4. ASSUME call' = call PROVE Others
  BY <1>0, <1>4 DEF PersonsDrawn
<1>5. ASSUME NEW i \in Identifier PROVE BlindIndex(i) \in Index
  BY DEF BlindIndex, Identifier, Index
<1>6. ASSUME NEW ix \in Index, NEW p \in drawn, WriteIdentifier(ix, p)
      PROVE  \A jx \in Index : identifier'[jx] # NoPerson => identifier'[jx] \in drawn
  BY <1>6 DEF WriteIdentifier, PersonsDrawn
<1>7. CASE UNCHANGED vars
  BY <1>4, <1>7 DEF vars, tables, history, PersonsDrawn
<1>8. ASSUME NEW t \in Task, CallStarts(t) PROVE Others /\ Tables
  <2>1. ASSUME NEW i \in Identifier, ResolveFound(t, i) PROVE Others /\ Tables
    BY <1>4, <1>5, <2>1 DEF ResolveFound, Answer, tables, PersonsDrawn
  <2>2. ASSUME NEW i \in Identifier, ResolveUnseen(t, i) PROVE Others /\ Tables
    BY <1>3, <2>2 DEF ResolveUnseen, Begin, Idle, tables, history, PersonsDrawn
  <2>3. ASSUME NEW p \in known, NEW i \in Identifier, LinkIdentifier(t, p, i)
        PROVE Others /\ Tables
    BY <1>4, <1>5, <1>6, <2>3 DEF LinkIdentifier, PersonsDrawn
  <2>4. ASSUME NEW p \in known, NEW x \in Expiry, AddAttribute(t, p, x)
        PROVE Others /\ Tables
    BY <1>3, <2>4 DEF AddAttribute, Begin, Idle, tables, PersonsDrawn
  <2>5. ASSUME NEW p \in known, GetAttributes(t, p) PROVE Others /\ Tables
    <3>. DEFINE raw == {a \in attribute : a.person = p /\ ~Expired(a)}
                c == [Idle EXCEPT !.op = "get", !.at = "readKey", !.person = p,
                                  !.rows = raw]
    <3>1. c.person = p
      BY DEF Idle
    <3>2. call' = call \/ call' = [call EXCEPT ![t] = c]
      BY <2>5 DEF GetAttributes, Begin
    <3>. HIDE DEF c
    <3>3. Others
      BY <1>0, <3>1, <3>2 DEF PersonsDrawn
    <3>. QED  BY <2>5, <3>3 DEF GetAttributes, tables, history, PersonsDrawn
  <2>6. ASSUME NEW p \in known, ForgetPerson(t, p) PROVE Others /\ Tables
    BY <1>3, <2>6 DEF ForgetPerson, Begin, Idle, PersonsDrawn
  <2>. QED  BY <1>8, <2>1, <2>2, <2>3, <2>4, <2>5, <2>6 DEF CallStarts
<1>9. ASSUME NEW t \in Task, CallContinues(t) PROVE Others /\ Tables
  <2>0. ASSUME Finish(t, "ok") \/ Finish(t, "db_error") PROVE Others
    BY <1>1, <1>3, <2>0 DEF Finish
  <2>1. CASE InsertPerson(t)
    <3>1. call'[t].person \in drawn'
      BY <2>1 DEF InsertPerson, Call
    <3>2. Others
      BY <1>3, <2>1, <3>1 DEF InsertPerson
    <3>. QED  BY <2>1, <3>2 DEF InsertPerson, history, PersonsDrawn
  <2>2. CASE InsertIdentifier(t)
    BY <1>6, <2>0, <2>2 DEF InsertIdentifier, Answer, PersonsDrawn, CallLocals
  <2>3. CASE ReadKey(t) \/ MintKey(t)
    <3>1. call[t].person \in drawn
      BY <2>3 DEF ReadKey, MintKey, PersonsDrawn
    <3>2. call'[t] = Idle \/ call'[t].person = call[t].person
      BY <2>3 DEF ReadKey, MintKey, WithKey, Goto, Finish, Call
    <3>3. \A u \in Task \ {t} : call'[u] = call[u]
      BY <2>3 DEF ReadKey, MintKey, WithKey, Goto, Finish
    <3>4. Others
      BY <1>0, <1>1, <1>3, <3>1, <3>2, <3>3
    <3>. QED  BY <1>0, <2>3, <3>4 DEF ReadKey, MintKey, tables, history, PersonsDrawn
  <2>4. CASE InsertAttribute(t)
    BY <1>0, <2>0, <2>4 DEF InsertAttribute, history, PersonsDrawn
  <2>5. CASE DeleteAttributes(t) \/ DeleteIdentifiers(t)
    <3>1. call'[t].person = call[t].person /\ call[t].person \in drawn
      BY <2>5 DEF DeleteAttributes, DeleteIdentifiers, Goto, Call, PersonsDrawn
    <3>2. Others
      BY <1>0, <1>3, <2>5, <3>1 DEF DeleteAttributes, DeleteIdentifiers, Goto
    <3>. QED  BY <2>5, <3>2 DEF DeleteAttributes, DeleteIdentifiers, WithoutPerson,
                               history, PersonsDrawn
  <2>6. CASE DeletePerson(t)
    BY <2>0, <2>6 DEF DeletePerson, PersonsDrawn
  <2>7. CASE StatementFails(t)
    BY <2>0, <2>7 DEF StatementFails, tables, history, PersonsDrawn
  <2>. QED  BY <1>9, <2>1, <2>2, <2>3, <2>4, <2>5, <2>6, <2>7 DEF CallContinues
<1>10. ASSUME NEW i \in Identifier, LookupPerson(i) PROVE Others /\ Tables
  BY <1>4, <1>5, <1>10 DEF LookupPerson, tables, history, PersonsDrawn
<1>11. CASE PurgeExpired \/ Open \/ Tick
  BY <1>4, <1>11 DEF PurgeExpired, Open, Tick, tables, history, PersonsDrawn
<1>12. CASE Crash
  BY <1>1, <1>12 DEF Crash, tables, history, PersonsDrawn
<1>. QED  BY <1>7, <1>8, <1>9, <1>10, <1>11, <1>12 DEF Next

LEMMA DrawnHold == Spec => []PersonsDrawn
BY Typing, DrawnInit, DrawnStep, PTL DEF Spec

LEMMA FootprintInit == Init => FootprintInv
BY DEF Init, FootprintInv, References

LEMMA FootprintStep ==
  ForeignKeys /\ TypeInv /\ PersonsDrawn /\ FootprintInv /\ [Next]_vars => FootprintInv'
<1>. SUFFICES ASSUME ForeignKeys, TypeInv, PersonsDrawn, FootprintInv, [Next]_vars
              PROVE  FootprintInv'
  OBVIOUS
<1>. USE DEF TypeInv, TypeOK
<1>. DEFINE Same == UNCHANGED <<person, personKey, identifier>>
<1>1. ASSUME Same, attribute' \subseteq attribute, forgotten' \subseteq forgotten
      PROVE  FootprintInv'
  BY <1>1 DEF FootprintInv, References
<1>2. ASSUME NEW i \in Identifier PROVE BlindIndex(i) \in Index
  BY DEF BlindIndex, Identifier, Index
<1>3. ASSUME NEW ix \in Index, NEW p, WriteIdentifier(ix, p)
      PROVE  \A jx \in Index : identifier'[jx] # NoPerson => identifier'[jx] \in person
  BY <1>3 DEF WriteIdentifier, Referable, FootprintInv, References
<1>4. ASSUME NEW t \in Task, CallStarts(t) PROVE FootprintInv'
  <2>1. ASSUME NEW p \in known, NEW i \in Identifier, LinkIdentifier(t, p, i)
        PROVE  FootprintInv'
    BY <1>2, <1>3, <2>1 DEF LinkIdentifier, FootprintInv, References
  <2>2. ASSUME NEW p \in known, ForgetPerson(t, p) PROVE FootprintInv'
    BY <2>2 DEF ForgetPerson, ShreddedKeys, FootprintInv, References
  <2>3. CASE Same /\ attribute' = attribute /\ forgotten' \subseteq forgotten
    BY <1>1, <2>3
  <2>. QED  BY <1>4, <2>1, <2>2, <2>3
            DEF CallStarts, ResolveFound, ResolveUnseen, AddAttribute, GetAttributes,
                tables, history
<1>5. ASSUME NEW t \in Task, CallContinues(t) PROVE FootprintInv'
  <2>1. CASE InsertPerson(t)
    BY <2>1 DEF InsertPerson, history, FootprintInv, References, PersonsDrawn
  <2>2. CASE InsertIdentifier(t)
    BY <1>3, <2>2 DEF InsertIdentifier, CallLocals, FootprintInv, References
  <2>3. CASE MintKey(t)
    BY <2>3 DEF MintKey, Referable, history, FootprintInv, References
  <2>4. CASE InsertAttribute(t)
    BY <2>4 DEF InsertAttribute, Referable, history, FootprintInv, References
  <2>5. CASE DeleteIdentifiers(t)
    BY <2>5 DEF DeleteIdentifiers, WithoutPerson, history, FootprintInv, References
  <2>6. CASE DeletePerson(t)
    BY <2>6 DEF DeletePerson, Unreferenced, FootprintInv, References
  <2>7. CASE ReadKey(t) \/ DeleteAttributes(t) \/ StatementFails(t)
    BY <1>1, <2>7 DEF ReadKey, DeleteAttributes, StatementFails, tables, history
  <2>. QED  BY <1>5, <2>1, <2>2, <2>3, <2>4, <2>5, <2>6, <2>7 DEF CallContinues
<1>. QED  BY <1>1, <1>4, <1>5
          DEF Next, vars, tables, history, LookupPerson, PurgeExpired, Crash, Open, Tick

\* Where SQLite enforces the REFERENCES clauses, a forget_person that returned Ok has
\* left no row of the person in any table, whatever overlapped it.
THEOREM ForgetIsCompleteEnforced ==
  ASSUME ForeignKeys PROVE Spec => []ForgetErasesFootprint
<1>1. TypeInv /\ FootprintInv => ForgetErasesFootprint
  BY NullAssumption
     DEF TypeInv, TypeOK, FootprintInv, References, ForgetErasesFootprint, Unreferenced
<1>. QED  BY <1>1, Typing, DrawnHold, FootprintInit, FootprintStep, PTL DEF Spec

=============================================================================
