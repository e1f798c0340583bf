-------------------------- MODULE PersonSerialProofs --------------------------
(***************************************************************************)
(* What PersonStore keeps to where calls do not overlap: one task, with    *)
(* failing statements, crashes and restarts between any two of them,       *)
(* whether or not SQLite enforces the references.                          *)
(***************************************************************************)
EXTENDS PersonStoreProofs

OneTask == \A s, t \in Task : s = t

\* What the one call in progress may count on at each of its steps.
Serial(c) ==
  /\ c.at \in {"insertPerson", "insertIdentifier"} => identifier[c.index] = NoPerson
  /\ c.at \in {"insertIdentifier", "readKey", "mintKey", "insertAttribute"} =>
       c.person \notin forgotten
  /\ c.at \in {"deleteAttributes", "deleteIdentifiers", "deletePerson"} =>
       /\ personKey[c.person] = NoKey
       /\ \A ix \in Index : c.person \notin answers[ix]
  /\ c.at \in {"deleteIdentifiers", "deletePerson"} =>
       \A a \in attribute : a.person # c.person
  /\ c.at = "deletePerson" => \A ix \in Index : identifier[ix] # c.person

\* Whoever was answered for an identifier and not forgotten since is whom it leads to.
AnswersCurrent == \A ix \in Index : \A p \in answers[ix] : identifier[ix] = p

SerialInv ==
  /\ \A t \in Task : Serial(call[t])
  /\ AnswersCurrent
  /\ ForgetErasesFootprint

LEMMA SerialInit == Init => SerialInv
BY IdleIsCall DEF Init, SerialInv, Serial, AnswersCurrent, ForgetErasesFootprint

LEMMA IdleIsSerial == Serial(Idle) /\ Serial(Idle)'
BY DEF Idle, Serial

\* A step that writes no table or history but for sweeping attributes, and leaves the
\* call that is in progress as it was or where it may be.
LEMMA SerialFrame ==
  ASSUME SerialInv, UNCHANGED <<person, personKey, identifier, answers, forgotten>>,
         attribute' \subseteq attribute,
         \A t \in Task : call'[t] = call[t] \/ Serial(call[t])'
  PROVE  SerialInv'
<1>1. \A t \in Task : Serial(call[t])'
  BY DEF SerialInv, Serial
<1>2. AnswersCurrent' /\ ForgetErasesFootprint'
  BY DEF SerialInv, AnswersCurrent, ForgetErasesFootprint, Unreferenced
<1>. QED  BY <1>1, <1>2 DEF SerialInv

LEMMA SerialStarts ==
  ASSUME OneTask, TypeInv, PersonsDrawn, SerialInv, NEW t \in Task, CallStarts(t)
  PROVE  SerialInv'
<1>. USE DEF TypeInv, TypeOK
<1>0. /\ \A u \in Task : u = t
      /\ \A i \in Identifier : BlindIndex(i) \in Index
  BY DEF OneTask, BlindIndex, Identifier, Index
<1>1. ASSUME NEW i \in Identifier, ResolveFound(t, i) PROVE SerialInv'
  <2>. PICK ix \in Index : ix = BlindIndex(i)
    BY <1>0
  <2>1. /\ UNCHANGED <<tables, call, forgotten>>
        /\ answers' = [answers EXCEPT ![ix] = @ \cup {identifier[ix]}]
        /\ call[t].at = "idle"
    BY <1>1 DEF ResolveFound, Answer, Ready
  <2>2. AnswersCurrent' /\ ForgetErasesFootprint'
    BY <2>1 DEF tables, SerialInv, AnswersCurrent, ForgetErasesFootprint, Unreferenced
  <2>3. Serial(call[t])'
    BY <2>1 DEF Serial
  <2>. QED  BY <1>0, <2>2, <2>3 DEF SerialInv
<1>2. ASSUME NEW i \in Identifier, ResolveUnseen(t, i) PROVE SerialInv'
  <2>1. Serial(call[t])'
    BY <1>2 DEF ResolveUnseen, Unseen, Begin, Idle, tables, Serial
  <2>. QED  BY <1>0, <1>2, <2>1, SerialFrame DEF ResolveUnseen, tables, history
<1>3. ASSUME NEW p \in known, NEW i \in Identifier, LinkIdentifier(t, p, i)
      PROVE  SerialInv'
  <2>. PICK ix \in Index : ix = BlindIndex(i)
    BY <1>0
  <2>1. /\ UNCHANGED <<person, personKey, attribute, call, answers>>
        /\ forgotten' = forgotten \ {p} /\ call[t].at = "idle"
        /\ \/ UNCHANGED identifier
           \/ identifier[ix] = NoPerson /\ identifier' = [identifier EXCEPT ![ix] = p]
    BY <1>3 DEF LinkIdentifier, WriteIdentifier, Ready
  <2>2. AnswersCurrent'
    BY <2>1, NullAssumption DEF SerialInv, AnswersCurrent
  <2>3. ForgetErasesFootprint'
    BY <2>1 DEF SerialInv, ForgetErasesFootprint, Unreferenced
  <2>4. Serial(call[t])'
    BY <2>1 DEF Serial
  <2>. QED  BY <1>0, <2>2, <2>3, <2>4 DEF SerialInv
<1>4. ASSUME NEW p \in known, NEW x \in Expiry, AddAttribute(t, p, x) PROVE SerialInv'
  <2>1. Serial(call[t])'
    BY <1>4 DEF AddAttribute, Begin, Idle, Serial
  <2>2. AnswersCurrent' /\ ForgetErasesFootprint'
    BY <1>4 DEF AddAttribute, tables, SerialInv, AnswersCurrent, ForgetErasesFootprint,
                Unreferenced
  <2>. QED  BY <1>0, <2>1, <2>2 DEF SerialInv
<1>5. ASSUME NEW p \in known, GetAttributes(t, p) PROVE SerialInv'
  <2>. DEFINE raw == {a \in attribute : a.person = p /\ ~Expired(a)}
              c == [Idle EXCEPT !.op = "get", !.at = "readKey", !.person = p,
                                !.rows = raw]
  <2>1. CASE call' = call
    BY <1>5, <2>1, SerialFrame DEF GetAttributes, tables, history
  <2>2. CASE raw # {} /\ call' = [call EXCEPT ![t] = c]
    <3>1. c.at = "readKey" /\ c.person = p
      BY DEF Idle
    <3>2. p \notin forgotten
      BY <2>2 DEF SerialInv, ForgetErasesFootprint, Unreferenced
    <3>. HIDE DEF c
    <3>3. Serial(call[t])'
      BY <1>5, <2>2, <3>1, <3>2 DEF GetAttributes, history, Serial
    <3>. QED  BY <1>0, <1>5, <3>3, SerialFrame DEF GetAttributes, tables, history
  <2>. QED  BY <1>5, <2>1, <2>2 DEF GetAttributes, Begin
<1>6. ASSUME NEW p \in known, ForgetPerson(t, p) PROVE SerialInv'
  <2>1. /\ personKey' = [personKey EXCEPT ![p] = NoKey]
        /\ answers' = [ix \in Index |-> answers[ix] \ {p}]
        /\ UNCHANGED <<person, identifier, attribute, forgotten>>
    BY <1>6 DEF ForgetPerson, ShreddedKeys
  <2>2. call'[t].at = "deleteAttributes" /\ call'[t].person = p
    BY <1>6 DEF ForgetPerson, Begin, Idle
  <2>3. Serial(call[t])'
    BY <2>1, <2>2 DEF Serial
  <2>4. AnswersCurrent' /\ ForgetErasesFootprint'
    BY <2>1 DEF SerialInv, AnswersCurrent, ForgetErasesFootprint, Unreferenced
  <2>. QED  BY <1>0, <2>3, <2>4 DEF SerialInv
<1>. QED  BY <1>1, <1>2, <1>3, <1>4, <1>5, <1>6 DEF CallStarts

\* person_content_key's answer, or the statement before it, moves the call on.
LEMMA SerialWithKey ==
  ASSUME TypeInv, SerialInv, NEW t \in Task, call[t].at \in {"readKey", "mintKey"}, NEW k,
         WithKey(t, k) \/ Goto(t, "mintKey"), UNCHANGED forgotten
  PROVE  Serial(call[t])'
<1>1. CASE call'[t] = Idle
  BY <1>1, IdleIsCall DEF Serial
<1>2. CASE call'[t].at \in {"mintKey", "insertAttribute"} /\ call'[t].person = call[t].person
  BY <1>2 DEF SerialInv, Serial
<1>. QED  BY <1>1, <1>2 DEF WithKey, Goto, Finish, TypeInv, TypeOK, Call

LEMMA SerialContinues ==
  ASSUME OneTask, TypeInv, PersonsDrawn, SerialInv, NEW t \in Task, CallContinues(t)
  PROVE  SerialInv'
<1>. USE DEF TypeInv, TypeOK
<1>0. \A u \in Task : u = t
  BY DEF OneTask
<1>. PICK p : p = call[t].person
  OBVIOUS
<1>1. CASE InsertPerson(t)
  <2>1. PICK q \in Person \ drawn :
          /\ person' = person \cup {q}
          /\ call' = [call EXCEPT ![t].at = "insertIdentifier", ![t].person = q]
    BY <1>1 DEF InsertPerson
  <2>2. UNCHANGED <<personKey, identifier, attribute, answers, forgotten>>
    BY <1>1 DEF InsertPerson, history
  <2>3. q \notin forgotten
    BY <2>1 DEF PersonsDrawn
  <2>4. call'[t].at = "insertIdentifier" /\ call'[t].person = q
        /\ call'[t].index = call[t].index
    BY <2>1 DEF Call
  <2>5. Serial(call[t])'
    BY <1>1, <2>2, <2>3, <2>4 DEF InsertPerson, SerialInv, Serial
  <2>6. AnswersCurrent' /\ ForgetErasesFootprint'
    BY <2>1, <2>2, <2>3 DEF SerialInv, AnswersCurrent, ForgetErasesFootprint, Unreferenced
  <2>. QED  BY <1>0, <2>5, <2>6 DEF SerialInv
<1>2. CASE InsertIdentifier(t)
  <2>. PICK ix \in Index : ix = call[t].index
    BY <1>2 DEF InsertIdentifier, CallLocals
  <2>1. p \in Person /\ p \notin forgotten /\ identifier[ix] = NoPerson
    BY <1>2 DEF InsertIdentifier, CallLocals, SerialInv, Serial
  <2>2. /\ identifier' = [identifier EXCEPT ![ix] = p]
        /\ answers' = [answers EXCEPT ![ix] = @ \cup {p}]
        /\ call'[t] = Idle
        /\ UNCHANGED <<person, personKey, attribute, forgotten>>
    BY <1>2, <2>1 DEF InsertIdentifier, WriteIdentifier, Answer, Finish
  <2>3. answers[ix] = {}
    BY <2>1, NullAssumption DEF SerialInv, AnswersCurrent
  <2>4. AnswersCurrent' /\ ForgetErasesFootprint'
    BY <2>1, <2>2, <2>3 DEF SerialInv, AnswersCurrent, ForgetErasesFootprint, Unreferenced
  <2>5. Serial(call[t])'
    BY <2>2, IdleIsCall DEF Serial
  <2>. QED  BY <1>0, <2>4, <2>5 DEF SerialInv
<1>3. CASE ReadKey(t)
  <2>1. Serial(call[t])'
    BY <1>3, SerialWithKey DEF ReadKey, history
  <2>. QED  BY <1>0, <1>3, <2>1, SerialFrame DEF ReadKey, tables, history
<1>4. CASE MintKey(t)
  <2>1. PICK k \in ContentKey \ drawn :
          personKey' = [personKey EXCEPT ![p] = k] /\ WithKey(t, k)
    BY <1>4 DEF MintKey
  <2>2. UNCHANGED <<person, identifier, attribute, answers, forgotten>>
    BY <1>4 DEF MintKey, history
  <2>3. p \notin forgotten
    BY <1>4 DEF MintKey, SerialInv, Serial
  <2>4. Serial(call[t])'
    BY <1>4, <2>1, <2>2, SerialWithKey DEF MintKey
  <2>5. AnswersCurrent' /\ ForgetErasesFootprint'
    BY <2>1, <2>2, <2>3 DEF SerialInv, AnswersCurrent, ForgetErasesFootprint, Unreferenced
  <2>. QED  BY <1>0, <2>4, <2>5 DEF SerialInv
<1>5. CASE InsertAttribute(t)
  <2>0. PICK i \in AttrId \ drawn : attribute' = attribute \cup
          {[id |-> i, person |-> p, key |-> call[t].key, expires |-> call[t].expires]}
    BY <1>5 DEF InsertAttribute
  <2> DEFINE a == [id |-> i, person |-> p, key |-> call[t].key, expires |-> call[t].expires]
  <2>1. attribute' = attribute \cup {a} /\ a.person = p
    BY <2>0
  <2> HIDE DEF a
  <2>2. /\ UNCHANGED <<person, personKey, identifier, answers, forgotten>>
        /\ call'[t] = Idle
    BY <1>5 DEF InsertAttribute, Finish, history
  <2>3. p \notin forgotten
    BY <1>5 DEF InsertAttribute, SerialInv, Serial
  <2>4. AnswersCurrent' /\ ForgetErasesFootprint'
    BY <2>1, <2>2, <2>3 DEF SerialInv, AnswersCurrent, ForgetErasesFootprint, Unreferenced
  <2>5. Serial(call[t])'
    BY <2>2, IdleIsCall DEF Serial
  <2>. QED  BY <1>0, <2>4, <2>5 DEF SerialInv
<1>6. CASE DeleteAttributes(t)
  <2>1. /\ attribute' = {a \in attribute : a.person # p}
        /\ UNCHANGED <<person, personKey, identifier, answers, forgotten>>
        /\ call'[t].at = "deleteIdentifiers" /\ call'[t].person = p
    BY <1>6 DEF DeleteAttributes, Goto, Call, history
  <2>2. Serial(call[t])'
    BY <1>6, <2>1 DEF DeleteAttributes, SerialInv, Serial
  <2>. QED  BY <1>0, <2>1, <2>2, SerialFrame
<1>7. CASE DeleteIdentifiers(t)
  <2>1. /\ identifier' = [ix \in Index |-> IF identifier[ix] = p THEN NoPerson
                                           ELSE identifier[ix]]
        /\ UNCHANGED <<person, personKey, attribute, answers, forgotten>>
        /\ call'[t].at = "deletePerson" /\ call'[t].person = p
    BY <1>7 DEF DeleteIdentifiers, WithoutPerson, Goto, Call, history
  <2>2. /\ p \in Person /\ p # NoPerson
        /\ Serial(call[t]) /\ call[t].at = "deleteIdentifiers"
    BY <1>7, NullAssumption DEF DeleteIdentifiers, CallLocals, SerialInv
  <2>3. Serial(call[t])'
    BY <2>1, <2>2 DEF Serial
  <2>4. AnswersCurrent'
    BY <2>1, <2>2 DEF SerialInv, Serial, AnswersCurrent
  <2>5. ForgetErasesFootprint'
    BY <2>1, NullAssumption DEF SerialInv, ForgetErasesFootprint, Unreferenced
  <2>. QED  BY <1>0, <2>3, <2>4, <2>5 DEF SerialInv
<1>8. CASE DeletePerson(t)
  <2>1. /\ person' = person \ {p} /\ forgotten' = forgotten \cup {p}
        /\ UNCHANGED <<personKey, identifier, attribute, answers>>
        /\ call'[t] = Idle
    BY <1>8 DEF DeletePerson, Finish
  <2>2. Unreferenced(p)
    BY <1>8 DEF DeletePerson, SerialInv, Serial, Unreferenced
  <2>3. AnswersCurrent' /\ ForgetErasesFootprint'
    BY <2>1, <2>2 DEF SerialInv, AnswersCurrent, ForgetErasesFootprint, Unreferenced
  <2>4. Serial(call[t])'
    BY <2>1, IdleIsCall DEF Serial
  <2>. QED  BY <1>0, <2>3, <2>4 DEF SerialInv
<1>9. CASE StatementFails(t)
  <2>1. Serial(call[t])'
    BY <1>9, IdleIsCall DEF StatementFails, Finish, Serial
  <2>. QED  BY <1>0, <1>9, <2>1, SerialFrame DEF StatementFails, tables, history
<1>. QED  BY <1>1, <1>2, <1>3, <1>4, <1>5, <1>6, <1>7, <1>8, <1>9 DEF CallContinues

LEMMA SerialStep ==
  OneTask /\ TypeInv /\ PersonsDrawn /\ SerialInv /\ [Next]_vars => SerialInv'
<1>. SUFFICES ASSUME OneTask, TypeInv, PersonsDrawn, SerialInv, [Next]_vars
              PROVE  SerialInv'
  OBVIOUS
<1>1. CASE \E i \in Identifier : LookupPerson(i)
  BY <1>1, SerialFrame DEF LookupPerson, tables, history
<1>2. CASE PurgeExpired \/ Open \/ Tick \/ UNCHANGED vars
  BY <1>2, SerialFrame DEF PurgeExpired, Open, Tick, vars, tables, history
<1>3. CASE Crash
  <2>1. \A t \in Task : Serial(call[t])'
    BY <1>3, IdleIsCall DEF Crash, Serial
  <2>. QED  BY <1>3, <2>1, SerialFrame DEF Crash, tables, history
<1>. QED  BY <1>1, <1>2, <1>3, SerialStarts, SerialContinues DEF Next

\* Where calls do not overlap, every resolve of an identifier answers the same person
\* until it is forgotten, after any failures and restarts.
THEOREM ResolvingIsIdempotent == ASSUME OneTask PROVE Spec => []ResolveIdempotent
<1>1. SerialInv => ResolveIdempotent
  BY DEF SerialInv, AnswersCurrent, ResolveIdempotent
<1>. QED  BY <1>1, SerialInit, SerialStep, Typing, DrawnHold, PTL DEF Spec

\* Where calls do not overlap, a forget_person that returned Ok has left nothing, even
\* if earlier ones broke off half-way and no reference is enforced.
THEOREM ForgetIsCompleteSerial == ASSUME OneTask PROVE Spec => []ForgetErasesFootprint
<1>1. SerialInv => ForgetErasesFootprint
  BY DEF SerialInv
<1>. QED  BY <1>1, SerialInit, SerialStep, Typing, DrawnHold, PTL DEF Spec

=============================================================================
