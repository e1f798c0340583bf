--------------------------- MODULE KeyCustodyProofs ---------------------------
(***************************************************************************)
(* Theorems about KeyCustody, for any number of processes, passphrases and *)
(* random values, and any subset of the modes.                             *)
(***************************************************************************)
EXTENDS KeyCustody, TLAPS

LEMMA RestIsProc ==
  ASSUME NEW step \in {"down", "refused"}
  PROVE  At(step, NoSettings) \in Proc /\ At(step, NoSettings).at = step
BY DEF At, Proc, NoLock, Lock, Key

\* The place a starting process is at.
LEMMA HereIsPlace ==
  ASSUME TypeOK, NEW p \in Process, Mid(p)
  PROVE  /\ proc[p] \in Proc
         /\ proc[p].by \in Settings
         /\ proc[p].by.mode \in Mode
         /\ Here(p) \in Place
<1>1. proc[p] \in Proc /\ proc[p].by \in Settings
  BY DEF TypeOK
<1>2. proc[p].by.mode \in Mode /\ proc[p].slot \in {1, 2}
  BY <1>1 DEF Settings, Proc
<1>. QED  BY <1>1, <1>2 DEF Here, Place

LEMMA TypeInit == Init => TypeOK
<1>. SUFFICES ASSUME Init PROVE TypeOK
  OBVIOUS
<1>1. proc \in [Process -> Proc]
  BY RestIsProc DEF Init
<1>2. \A p \in Process : proc[p].at = "down"
  BY RestIsProc DEF Init
<1>. QED  BY <1>1, <1>2 DEF Init, TypeOK, Key, Mid, Starting

\* The part of TypeOK about processes, when one of them moves on.
LEMMA MoveType ==
  ASSUME TypeOK, NEW p \in Process, NEW c \in Proc,
         c.at \in Starting \cup {"serving"} => c.by \in Settings,
         proc' = [proc EXCEPT ![p] = c]
  PROVE  /\ proc' \in [Process -> Proc]
         /\ \A q \in Process : Mid(q)' \/ proc'[q].at = "serving" => proc'[q].by \in Settings
         /\ \A q \in Process : proc'[q] = IF q = p THEN c ELSE proc[q]
BY DEF TypeOK, Mid

LEMMA RefuseType ==
  ASSUME TypeOK, NEW p \in Process, Refuse(p)
  PROVE  TypeOK'
<1>1. At("refused", NoSettings) \in Proc /\ At("refused", NoSettings).at = "refused"
  BY RestIsProc
<1>. QED  BY <1>1, MoveType DEF Refuse, TypeOK, Starting

LEMMA UseType ==
  ASSUME TypeOK, NEW p \in Process, Mid(p), NEW v \in Key, Use(p, v),
         place' \in [Place -> Stored \cup {Absent, Torn}],
         UNCHANGED <<tpmKey, db, drawn, disturbed>>
  PROVE  TypeOK'
<1>. DEFINE c == [proc[p] EXCEPT !.values[proc[p].slot] = v, !.lock = NoLock]
            d == [c EXCEPT !.at = "read", !.slot = 2]
            e == [c EXCEPT !.at = "openDatabase"]
<1>1. proc[p] \in Proc /\ proc[p].by \in Settings
  BY HereIsPlace
<1>2. c \in Proc /\ c.by = proc[p].by
  BY <1>1 DEF Proc, NoLock, Lock, Key
<1>. HIDE DEF c
<1>3. d \in Proc /\ e \in Proc /\ d.by = proc[p].by /\ e.by = proc[p].by
  BY <1>2 DEF Proc, Starting
<1>4. CASE proc' = [proc EXCEPT ![p] = d] /\ UNCHANGED loaded
  <2>. HIDE DEF d
  <2>. QED  BY <1>1, <1>3, <1>4, MoveType DEF TypeOK
<1>5. CASE /\ proc' = [proc EXCEPT ![p] = e]
           /\ loaded' = loaded \cup {[by |-> c.by, values |-> c.values]}
  <2>1. [by |-> c.by, values |-> c.values] \in [by: Settings, values: [{1, 2} -> Key]]
    BY <1>1, <1>2 DEF Proc
  <2>. HIDE DEF e
  <2>. QED  BY <1>1, <1>3, <1>5, <2>1, MoveType DEF TypeOK
<1>. QED  BY <1>4, <1>5 DEF Use, c

LEMMA FindType ==
  ASSUME TypeOK, NEW p \in Process, Mid(p), NEW lock \in Lock, Find(p, lock)
  PROVE  TypeOK'
<1>1. place[Here(p)].value \in Key
  BY DEF Find, Opens, Stored
<1>. QED  BY <1>1, UseType DEF Find, TypeOK

LEMMA MintType ==
  ASSUME TypeOK, NEW p \in Process, Mid(p), NEW lock \in Lock,
         NEW step \in Starting, Mint(p, step, lock), disturbed' \in BOOLEAN
  PROVE  TypeOK'
<1>. DEFINE c == [proc[p] EXCEPT !.at = step, !.values[proc[p].slot] = drawn',
                                 !.lock = lock]
<1>1. proc[p] \in Proc /\ proc[p].by \in Settings
  BY HereIsPlace
<1>2. drawn' \in Key
  BY DEF Mint, TypeOK, Key
<1>3. c \in Proc /\ c.by = proc[p].by
  BY <1>1, <1>2 DEF Proc
<1>4. proc' = [proc EXCEPT ![p] = c]
  BY DEF Mint, TypeOK
<1>. HIDE DEF c
<1>. QED  BY <1>1, <1>2, <1>3, <1>4, MoveType DEF Mint, TypeOK

LEMMA SealType ==
  ASSUME TypeOK, NEW p \in Process, Mid(p), NEW key \in Key, SealWith(p, key),
         tpmKey' \in Key, drawn' \in Key, UNCHANGED <<place, db, disturbed, loaded>>
  PROVE  TypeOK'
<1>. DEFINE c == [proc[p] EXCEPT !.at = "truncate", !.lock.key = key]
<1>1. proc[p] \in Proc /\ proc[p].by \in Settings
  BY HereIsPlace
<1>2. c \in Proc /\ c.by = proc[p].by
  BY <1>1 DEF Proc, Starting, Lock
<1>3. proc' = [proc EXCEPT ![p] = c]
  BY DEF SealWith, TypeOK
<1>. HIDE DEF c
<1>. QED  BY <1>1, <1>2, <1>3, MoveType DEF TypeOK

LEMMA GotoType ==
  ASSUME TypeOK, NEW p \in Process, Mid(p), NEW step \in Starting \cup {"serving"},
         Goto(p, step), place' \in [Place -> Stored \cup {Absent, Torn}],
         db' \in [key: Key, by: Settings] \cup {NoDatabase},
         UNCHANGED <<tpmKey, drawn, disturbed, loaded>>
  PROVE  TypeOK'
<1>. DEFINE c == [proc[p] EXCEPT !.at = step]
<1>1. proc[p] \in Proc /\ proc[p].by \in Settings
  BY HereIsPlace
<1>2. c \in Proc /\ c.by = proc[p].by
  BY <1>1 DEF Proc
<1>3. proc' = [proc EXCEPT ![p] = c]
  BY DEF Goto, TypeOK
<1>. HIDE DEF c
<1>. QED  BY <1>1, <1>2, <1>3, MoveType DEF TypeOK

LEMMA LocksAre ==
  ASSUME TypeOK
  PROVE  /\ NoLock \in Lock /\ TpmLock \in Lock
         /\ \A p \in Process : Mid(p) => proc[p].lock \in Lock
         /\ \A p \in Process : Reading(p, "passphrase", {2}) => Kek(proc[p]) \in Lock
<1>1. NoLock \in Lock /\ TpmLock \in Lock
  BY DEF NoLock, TpmLock, Lock, Key, TypeOK
<1>2. ASSUME NEW p \in Process, Mid(p) PROVE proc[p].lock \in Lock
  BY <1>2, HereIsPlace DEF Proc
<1>3. ASSUME NEW p \in Process, Reading(p, "passphrase", {2}) PROVE Kek(proc[p]) \in Lock
  BY <1>3, HereIsPlace DEF Reading, Mid, Starting, Proc, Settings, Kek, Lock
<1>. QED  BY <1>1, <1>2, <1>3

LEMMA TypeStep == TypeOK /\ [Next]_vars => TypeOK'
<1>. SUFFICES ASSUME TypeOK, [Next]_vars PROVE TypeOK'
  OBVIOUS
<1>1. CASE UNCHANGED vars
  BY <1>1 DEF vars, TypeOK, Mid
<1>2. ASSUME NEW p \in Process, NEW s \in Settings, Start(p, s) PROVE TypeOK'
  <2>1. At("read", s) \in Proc /\ At("read", s).by = s
    BY DEF At, Proc, Starting, NoLock, Lock, Key
  <2>2. disturbed' \in BOOLEAN
    BY <1>2 DEF Start
  <2>. QED  BY <1>2, <2>1, <2>2, MoveType DEF Start, TypeOK
<1>3. ASSUME NEW p \in Process, Continue(p) PROVE TypeOK'
  <2>1. Mid(p)
    BY <1>3 DEF Continue, ReadEntry, ReadSealed, ReadSalt, ReadWrapped, Reading, Seal,
                CreateKey, FinalizeKey, Truncate, Fill, OpenDatabase, Mid, Starting
  <2>2. disturbed \in BOOLEAN /\ tpmKey \in Key /\ drawn \in Key
    BY DEF TypeOK
  <2>3. CASE ReadEntry(p)
    BY <2>1, <2>2, <2>3, LocksAre, FindType, MintType DEF ReadEntry, Starting
  <2>4. CASE ReadSealed(p)
    BY <2>1, <2>2, <2>4, LocksAre, FindType, MintType, RefuseType
       DEF ReadSealed, FirstRun, Mismatch, Starting
  <2>5. CASE ReadSalt(p)
    BY <2>1, <2>2, <2>5, LocksAre, FindType, MintType DEF ReadSalt, Starting
  <2>6. CASE ReadWrapped(p)
    BY <2>1, <2>2, <2>6, LocksAre, FindType, MintType, RefuseType
       DEF ReadWrapped, FirstRun, Mismatch, Starting
  <2>7. CASE Seal(p)
    BY <2>1, <2>2, <2>7, SealType, GotoType DEF Seal, Starting, TypeOK
  <2>8. CASE CreateKey(p)
    BY <2>1, <2>2, <2>8, SealType, GotoType DEF CreateKey, Starting, TypeOK
  <2>9. CASE FinalizeKey(p)
    <3>1. drawn + 1 \in Key
      BY <2>2 DEF Key
    <3>. QED  BY <2>1, <2>9, <3>1, SealType, RefuseType DEF FinalizeKey
  <2>10. CASE Truncate(p)
    BY <2>1, <2>10, HereIsPlace, GotoType DEF Truncate, Starting, TypeOK
  <2>11. CASE Fill(p)
    <3>1. proc[p].values[proc[p].slot] \in Key
      BY <2>1, HereIsPlace DEF Proc
    <3>2. [value |-> proc[p].values[proc[p].slot], lock |-> proc[p].lock] \in Stored
      BY <2>1, <3>1, LocksAre DEF Stored
    <3>. QED  BY <2>1, <2>11, <3>1, <3>2, HereIsPlace, UseType DEF Fill, TypeOK
  <2>12. CASE OpenDatabase(p)
    <3>1. [key |-> Dek(proc[p]), by |-> proc[p].by] \in [key: Key, by: Settings]
      BY <2>1, HereIsPlace DEF Dek, DekSlot, Proc
    <3>. QED  BY <2>1, <2>12, <3>1, GotoType, RefuseType DEF OpenDatabase, TypeOK
  <2>. QED  BY <1>3, <2>3, <2>4, <2>5, <2>6, <2>7, <2>8, <2>9, <2>10, <2>11, <2>12
            DEF Continue
<1>4. ASSUME NEW p \in Process, Stop(p) PROVE TypeOK'
  BY <1>4, RestIsProc, MoveType DEF Stop, TypeOK, Starting
<1>. QED  BY <1>1, <1>2, <1>3, <1>4 DEF Next

\* Every variable always holds what its declaration says.
THEOREM TypeCorrect == Spec => []TypeOK
BY TypeInit, TypeStep, PTL DEF Spec

-----------------------------------------------------------------------------
\* What the parts the steps share do to the process they are about.
Others(p) == \A q \in Process : q # p => proc'[q] = proc[q]

LEMMA RefuseMoves ==
  ASSUME TypeOK, NEW p \in Process, Refuse(p)
  PROVE  /\ Others(p)
         /\ proc'[p].at = "refused"
         /\ UNCHANGED <<place, tpmKey, db, disturbed, loaded>>
BY DEF Refuse, TypeOK, Others, At

LEMMA UseMoves ==
  ASSUME TypeOK, NEW p \in Process, Mid(p), NEW v \in Key, Use(p, v)
  PROVE  /\ Others(p)
         /\ proc'[p].by = proc[p].by /\ proc'[p].slot = 2
         /\ proc[p].slot = 1 =>
              /\ proc'[p].at = "read" /\ proc'[p].values[1] = v
              /\ UNCHANGED loaded
         /\ proc[p].slot = 2 =>
              /\ proc'[p].at = "openDatabase"
              /\ proc'[p].values[1] = proc[p].values[1] /\ proc'[p].values[2] = v
              /\ loaded' = loaded \cup {[by |-> proc[p].by, values |-> proc'[p].values]}
         /\ proc[p].slot \in {1, 2}
<1>. DEFINE c == [proc[p] EXCEPT !.values[proc[p].slot] = v, !.lock = NoLock]
            d == [c EXCEPT !.at = "read", !.slot = 2]
            e == [c EXCEPT !.at = "openDatabase"]
<1>1. proc[p] \in Proc
  BY HereIsPlace
<1>2. /\ c.by = proc[p].by /\ c.slot = proc[p].slot /\ c.slot \in {1, 2}
      /\ c.values[c.slot] = v
      /\ c.slot = 2 => c.values[1] = proc[p].values[1]
      /\ c \in Proc
  <2>1. proc[p].slot \in {1, 2} /\ proc[p].values \in [{1, 2} -> Key]
    BY <1>1 DEF Proc
  <2>2. c.values = [proc[p].values EXCEPT ![proc[p].slot] = v]
    BY <1>1 DEF Proc
  <2>3. c.slot = proc[p].slot /\ c.by = proc[p].by
    BY <1>1 DEF Proc
  <2>4. c \in Proc
    BY <1>1 DEF Proc, NoLock, Lock, Key
  <2>. QED  BY <2>1, <2>2, <2>3, <2>4
<1>3. c.slot = 1 => proc' = [proc EXCEPT ![p] = d] /\ UNCHANGED loaded
  BY <1>2 DEF Use
<1>4. c.slot = 2 => proc' = [proc EXCEPT ![p] = e]
                    /\ loaded' = loaded \cup {[by |-> c.by, values |-> c.values]}
  BY <1>2 DEF Use
<1>5. /\ d.at = "read" /\ d.slot = 2 /\ d.by = c.by /\ d.values = c.values
      /\ e.at = "openDatabase" /\ e.slot = c.slot /\ e.by = c.by /\ e.values = c.values
  BY <1>2 DEF Proc
<1>. HIDE DEF c, d, e
<1>6. CASE c.slot = 1
  BY <1>2, <1>3, <1>5, <1>6 DEF TypeOK, Others
<1>7. CASE c.slot = 2
  BY <1>2, <1>4, <1>5, <1>7 DEF TypeOK, Others
<1>. QED  BY <1>2, <1>6, <1>7

LEMMA MintMoves ==
  ASSUME TypeOK, NEW p \in Process, Mid(p), NEW step, NEW lock, Mint(p, step, lock)
  PROVE  /\ Others(p)
         /\ proc'[p].at = step /\ proc'[p].by = proc[p].by
         /\ proc'[p].slot = proc[p].slot /\ proc'[p].lock = lock
         /\ proc[p].slot = 2 => proc'[p].values[1] = proc[p].values[1]
         /\ UNCHANGED <<place, tpmKey, db, loaded>>
<1>1. proc[p] \in Proc
  BY HereIsPlace
<1>. QED  BY <1>1 DEF Mint, TypeOK, Others, Proc

LEMMA SealMoves ==
  ASSUME TypeOK, NEW p \in Process, Mid(p), NEW key, SealWith(p, key)
  PROVE  /\ Others(p)
         /\ proc'[p].at = "truncate" /\ proc'[p].by = proc[p].by
         /\ proc'[p].slot = proc[p].slot /\ proc'[p].values = proc[p].values
         /\ proc[p].lock = NoLock =>
              proc'[p].lock = [passphrase |-> NoPassphrase, key |-> key]
<1>1. proc[p] \in Proc
  BY HereIsPlace
<1>. QED  BY <1>1 DEF SealWith, TypeOK, Others, Proc, NoLock, Lock

LEMMA GotoMoves ==
  ASSUME TypeOK, NEW p \in Process, Mid(p), NEW step, Goto(p, step)
  PROVE  /\ Others(p)
         /\ proc'[p].at = step /\ proc'[p].by = proc[p].by
         /\ proc'[p].slot = proc[p].slot /\ proc'[p].values = proc[p].values
         /\ proc'[p].lock = proc[p].lock
<1>1. proc[p] \in Proc
  BY HereIsPlace
<1>. QED  BY <1>1 DEF Goto, TypeOK, Others, Proc

LEMMA FindMoves ==
  ASSUME TypeOK, NEW p \in Process, Mid(p), NEW lock, Find(p, lock)
  PROVE  /\ Use(p, place[Here(p)].value) /\ place[Here(p)].value \in Key
         /\ place[Here(p)] \in Stored /\ place[Here(p)].lock = lock
         /\ UNCHANGED <<place, tpmKey, db, disturbed>>
BY DEF Find, Opens, Stored

LEMMA ContinueIsMid ==
  ASSUME NEW p \in Process, Continue(p) PROVE Mid(p)
BY DEF Continue, ReadEntry, ReadSealed, ReadSalt, ReadWrapped, Reading, Seal, CreateKey,
       FinalizeKey, Truncate, Fill, OpenDatabase, Mid, Starting

-----------------------------------------------------------------------------
(* Sealed blobs, with overlapping starts and failing reads *)

\* What is sealed, or about to be written, is under the TPM key that exists.
SealedUnder(lock) == tpmKey # 0 /\ lock = TpmLock

SealInv ==
  /\ TypeOK
  /\ \A i \in {1, 2} :
       <<"tpm", i>> \in Place /\ place[<<"tpm", i>>] \in Stored
         => SealedUnder(place[<<"tpm", i>>].lock)
  /\ \A p \in Process : proc[p].by.mode = "tpm" =>
       /\ proc[p].at \in {"seal", "createKey", "finalizeKey"} => proc[p].lock = NoLock
       /\ proc[p].at \in {"truncate", "fill"} => SealedUnder(proc[p].lock)

LEMMA SealInit == Init => SealInv
BY TypeInit, PlaceAssumption, RestIsProc DEF Init, SealInv

LEMMA SealStep == SealInv /\ [Next]_vars => SealInv'
<1>. SUFFICES ASSUME SealInv, [Next]_vars PROVE SealInv'
  OBVIOUS
<1>0. TypeOK /\ TypeOK'
  BY TypeStep DEF SealInv
<1>1. CASE UNCHANGED vars
  BY <1>0, <1>1 DEF vars, SealInv, SealedUnder, TpmLock
<1>2. ASSUME UNCHANGED <<place, tpmKey>>, NEW p \in Process, Others(p),
             proc'[p].by.mode = "tpm" =>
               /\ proc'[p].at \in {"seal", "createKey", "finalizeKey"}
                    => proc'[p].lock = NoLock
               /\ proc'[p].at \in {"truncate", "fill"} => SealedUnder(proc'[p].lock)
      PROVE  SealInv'
  BY <1>0, <1>2 DEF SealInv, SealedUnder, TpmLock, Others
<1>3. ASSUME NEW p \in Process, NEW s \in Settings, Start(p, s) PROVE SealInv'
  BY <1>0, <1>2, <1>3 DEF Start, At, TypeOK, Others
<1>4. ASSUME NEW p \in Process, Stop(p) PROVE SealInv'
  BY <1>0, <1>2, <1>4 DEF Stop, At, TypeOK, Others
<1>5. ASSUME NEW p \in Process, Continue(p) PROVE SealInv'
  <2>1. Mid(p) /\ proc[p] \in Proc /\ proc[p].by.mode \in Mode /\ Here(p) \in Place
    BY <1>0, <1>5, ContinueIsMid, HereIsPlace
  <2>2. CASE Refuse(p)
    BY <1>0, <1>2, <2>2, RefuseMoves
  <2>3. ASSUME NEW lock, Find(p, lock) PROVE SealInv'
    BY <1>0, <1>2, <2>1, <2>3, FindMoves, UseMoves
  <2>4. CASE ReadEntry(p)
    BY <1>0, <1>2, <2>1, <2>3, <2>4, MintMoves DEF ReadEntry, Reading
  <2>5. CASE ReadSealed(p)
    BY <1>0, <1>2, <2>1, <2>2, <2>3, <2>5, MintMoves DEF ReadSealed, Reading, Mismatch
  <2>6. CASE ReadSalt(p)
    BY <1>0, <1>2, <2>1, <2>3, <2>6, MintMoves DEF ReadSalt, Reading
  <2>7. CASE ReadWrapped(p)
    BY <1>0, <1>2, <2>1, <2>2, <2>3, <2>7, MintMoves DEF ReadWrapped, Reading, Mismatch
  <2>8. ASSUME proc[p].at \in {"seal", "createKey"}, tpmKey # 0, SealWith(p, tpmKey),
               UNCHANGED <<place, tpmKey>>
        PROVE  SealInv'
    BY <1>0, <1>2, <2>1, <2>8, SealMoves DEF SealInv, SealedUnder, TpmLock
  <2>9. ASSUME proc[p].at \in {"seal", "createKey"}, NEW step \in {"createKey", "finalizeKey"},
               Goto(p, step), UNCHANGED <<place, tpmKey>>
        PROVE  SealInv'
    BY <1>0, <1>2, <2>1, <2>9, GotoMoves DEF SealInv
  <2>10. CASE Seal(p)
    BY <2>8, <2>9, <2>10 DEF Seal
  <2>11. CASE CreateKey(p)
    BY <2>8, <2>9, <2>11 DEF CreateKey, NameFree
  <2>12. CASE FinalizeKey(p)
    <3>1. CASE tpmKey = 0 /\ tpmKey' = drawn + 1 /\ SealWith(p, drawn + 1) /\ UNCHANGED place
      <4>1. tpmKey' # 0
        BY <1>0, <3>1 DEF TypeOK, Key
      <4>2. proc'[p].by.mode = "tpm" =>
              proc'[p].at = "truncate" /\ SealedUnder(proc[p].lock)'
        BY <1>0, <2>1, <2>12, <3>1, <4>1, SealMoves
           DEF FinalizeKey, SealInv, SealedUnder, TpmLock
      <4>3. \A q \in Process : q # p => proc'[q] = proc[q]
        BY <1>0, <2>1, <3>1, SealMoves DEF Others
      <4>. QED  BY <1>0, <3>1, <4>2, <4>3 DEF SealInv, SealedUnder
    <3>. QED  BY <2>2, <2>12, <3>1 DEF FinalizeKey, NameFree
  <2>13. CASE Truncate(p)
    <3>1. place' = [place EXCEPT ![Here(p)] = Torn] /\ UNCHANGED tpmKey
      BY <2>13 DEF Truncate
    <3>2. /\ Others(p) /\ proc'[p].at = "fill" /\ proc[p].at = "truncate"
          /\ proc'[p].lock = proc[p].lock /\ proc'[p].by = proc[p].by
      BY <1>0, <2>1, <2>13, GotoMoves DEF Truncate
    <3>3. \A pl \in Place : place'[pl] \in Stored => place'[pl] = place[pl]
      BY <1>0, <3>1, PlaceAssumption DEF TypeOK
    <3>. QED  BY <1>0, <3>1, <3>2, <3>3 DEF SealInv, SealedUnder, TpmLock, Others
  <2>14. CASE Fill(p)
    <3>. DEFINE v == proc[p].values[proc[p].slot]
    <3>1. /\ place' = [place EXCEPT ![Here(p)] = [value |-> v, lock |-> proc[p].lock]]
          /\ UNCHANGED tpmKey /\ Use(p, v) /\ proc[p].at = "fill" /\ v \in Key
      BY <2>1, <2>14 DEF Fill, Proc
    <3>. HIDE DEF v
    <3>2. Others(p) /\ proc'[p].at \in {"read", "openDatabase"}
      BY <1>0, <2>1, <3>1, UseMoves
    <3>3. \A i \in {1, 2} : <<"tpm", i>> \in Place /\ place'[<<"tpm", i>>] \in Stored
                             => SealedUnder(place'[<<"tpm", i>>].lock)
      BY <1>0, <2>1, <3>1 DEF SealInv, Here, TypeOK
    <3>. QED  BY <1>0, <3>1, <3>2, <3>3 DEF SealInv, SealedUnder, TpmLock, Others
  <2>15. CASE OpenDatabase(p)
    BY <1>0, <1>2, <2>1, <2>2, <2>15, GotoMoves DEF OpenDatabase
  <2>. QED  BY <1>5, <2>4, <2>5, <2>6, <2>7, <2>10, <2>11, <2>12, <2>13, <2>14, <2>15
            DEF Continue
<1>. QED  BY <1>1, <1>3, <1>4, <1>5 DEF Next

\* In every interleaving of first starts, sealed blobs stay decryptable.
THEOREM SealedBlobsOpen == Spec => []SealedStayOpenable
<1>1. SealInv => SealedStayOpenable
  BY DEF SealInv, SealedStayOpenable, SealedUnder, Place
<1>. QED  BY <1>1, SealInit, SealStep, PTL DEF Spec

-----------------------------------------------------------------------------
(* The rest, while starts do not overlap and reads do not fail *)

\* Place i of settings s holds v whole, behind the lock a start with s would try.
Holds(s, i, v) ==
  LET content == place[<<s.mode, i>>] IN
  /\ content \in Stored /\ content.value = v
  /\ s.mode = "keystore" => content.lock = NoLock
  /\ s.mode = "tpm" => SealedUnder(content.lock)
  /\ s.mode = "passphrase" /\ i = 1 => content.lock = NoLock
  /\ s.mode = "passphrase" /\ i = 2 =>
       /\ place[SaltPlace] \in Stored
       /\ content.lock = [passphrase |-> s.passphrase, key |-> place[SaltPlace].value]

HoldsDek(s, key) == Holds(s, DekSlot(s.mode), key)

\* At most one process is between its start and its first request.
OneStarts == \A p, q \in Process : Mid(p) /\ Mid(q) => p = q

\* What a process knows of the places at each step.
Sees(c) ==
  /\ c.at \in Starting /\ c.slot = 2 => Holds(c.by, 1, c.values[1])
  /\ c.at \in {"seal", "createKey", "finalizeKey"} => c.by.mode = "tpm"
  /\ c.at \in {"seal", "createKey", "finalizeKey", "truncate", "fill"} =>
       place[<<c.by.mode, c.slot>>] \notin Stored
  /\ c.at \in {"truncate", "fill"} =>
       /\ c.by.mode = "keystore" => c.lock = NoLock
       /\ c.by.mode = "passphrase" => c.lock = IF c.slot = 1 THEN NoLock ELSE Kek(c)
  /\ c.at = "openDatabase" => c.slot = 2 /\ Holds(c.by, 2, c.values[2])
  /\ c.at = "serving" => db # NoDatabase /\ HoldsDek(c.by, db.key)

Calm ==
  /\ OneStarts
  /\ \A p \in Process : Sees(proc[p])
  /\ db # NoDatabase => HoldsDek(db.by, db.key)
  /\ \A l \in loaded : Holds(l.by, 1, l.values[1]) /\ Holds(l.by, 2, l.values[2])

CustodyInv == SealInv /\ (disturbed \/ Calm)

\* A step writes over nothing that was stored whole.
Keeps ==
  /\ \A pl \in Place : place[pl] \in Stored => place'[pl] = place[pl]
  /\ tpmKey # 0 => tpmKey' = tpmKey

LEMMA HoldsStays ==
  ASSUME Keeps, NEW s \in Settings, NEW i \in {1, 2}, NEW v, Holds(s, i, v)
  PROVE  Holds(s, i, v)'
<1>1. <<s.mode, i>> \in Place /\ (s.mode = "passphrase" => SaltPlace \in Place)
  BY DEF Settings, Place, SaltPlace
<1>2. place'[<<s.mode, i>>] = place[<<s.mode, i>>]
  BY <1>1 DEF Keeps, Holds
<1>3. s.mode = "passphrase" /\ i = 2 => place'[SaltPlace] = place[SaltPlace]
  BY <1>1 DEF Keeps, Holds
<1>4. s.mode = "tpm" => tpmKey' = tpmKey
  BY DEF Keeps, Holds, SealedUnder
<1>. QED  BY <1>2, <1>3, <1>4 DEF Holds, SealedUnder, TpmLock

LEMMA DekStays ==
  ASSUME Keeps, NEW s \in Settings, NEW v, HoldsDek(s, v)
  PROVE  HoldsDek(s, v)'
<1>1. DekSlot(s.mode) \in {1, 2}
  BY DEF DekSlot
<1>. QED  BY <1>1, HoldsStays DEF HoldsDek

\* What is left to show of a step of the one process that is starting.
LEMMA CalmMoves ==
  ASSUME TypeOK, TypeOK', Calm, Keeps, NEW p \in Process, Mid(p), Others(p),
         Sees(proc[p])',
         \/ UNCHANGED db
         \/ db = NoDatabase /\ (db # NoDatabase /\ HoldsDek(db.by, db.key))',
         \A l \in loaded' \ loaded :
           (Holds(l.by, 1, l.values[1]) /\ Holds(l.by, 2, l.values[2]))'
  PROVE  Calm'
<1>1. \A q \in Process : q # p => ~Mid(q)
  BY DEF Calm, OneStarts
<1>2. OneStarts'
  BY <1>1 DEF OneStarts, Others, Mid
<1>3. ASSUME NEW q \in Process, q # p PROVE Sees(proc[q])'
  <2>1. proc'[q] = proc[q] /\ proc[q].at \notin Starting
    BY <1>1, <1>3 DEF Others, Mid
  <2>2. ASSUME proc[q].at = "serving"
        PROVE  db' = db /\ db # NoDatabase /\ HoldsDek(proc[q].by, db.key)'
    <3>1. db' = db /\ db # NoDatabase /\ HoldsDek(proc[q].by, db.key)
      BY <2>2 DEF Calm, Sees
    <3>2. proc[q].by \in Settings
      BY <2>2 DEF TypeOK
    <3>. DEFINE s == proc[q].by
               key == db.key
    <3>3. s' = s /\ key' = key
      BY <2>1, <3>1
    <3>. HIDE DEF s, key
    <3>4. HoldsDek(s, key) /\ s \in Settings
      BY <3>1, <3>2 DEF s, key
    <3>5. HoldsDek(s, key)'
      BY <3>3, <3>4, DekStays DEF HoldsDek, Holds, DekSlot
    <3>. QED  BY <3>1, <3>5 DEF s, key
  <2>. QED  BY <2>1, <2>2 DEF Sees, Calm, Starting
<1>4. (db # NoDatabase => HoldsDek(db.by, db.key))'
  BY DekStays DEF Calm, TypeOK
<1>5. ASSUME NEW l \in loaded'
      PROVE  (Holds(l.by, 1, l.values[1]) /\ Holds(l.by, 2, l.values[2]))'
  <2>1. CASE l \in loaded
    BY <2>1, HoldsStays DEF Calm, TypeOK
  <2>. QED  BY <1>5, <2>1
<1>. QED  BY <1>2, <1>3, <1>4, <1>5 DEF Calm

LEMMA CustodyInit == Init => CustodyInv
BY SealInit, RestIsProc DEF Init, CustodyInv, Calm, OneStarts, Sees, Mid, Starting

LEMMA UseCalm ==
  ASSUME TypeOK, TypeOK', Calm, Keeps, NEW p \in Process, Mid(p), NEW v \in Key,
         Use(p, v), NEW s, s = proc[p].by, NEW i, i = proc[p].slot, Holds(s, i, v)',
         UNCHANGED db
  PROVE  Calm'
<1>. PICK w : w = proc[p].values[1]
  OBVIOUS
<1>1. /\ s \in Settings /\ Others(p) /\ proc'[p].by = s /\ proc'[p].slot = 2
      /\ i \in {1, 2}
  BY HereIsPlace, UseMoves
<1>2. CASE i = 1
  <2>1. /\ proc'[p].at = "read" /\ proc'[p].values[1] = v /\ UNCHANGED loaded
    BY <1>2, UseMoves
  <2>2. Sees(proc[p])'
    BY <1>1, <1>2, <2>1 DEF Sees
  <2>. QED  BY <1>1, <2>1, <2>2, CalmMoves
<1>3. CASE i = 2
  <2>1. /\ proc'[p].at = "openDatabase" /\ proc'[p].values[1] = w
        /\ proc'[p].values[2] = v
        /\ loaded' = loaded \cup {[by |-> s, values |-> proc'[p].values]}
    BY <1>3, UseMoves
  <2>2. Holds(s, 1, w)
    BY <1>3 DEF Calm, Sees, Mid
  <2>3. Holds(s, 1, w)'
    BY <1>1, <2>2, HoldsStays
  <2>4. Sees(proc[p])'
    BY <1>1, <1>3, <2>1, <2>3 DEF Sees
  <2>5. \A l \in loaded' \ loaded :
          (Holds(l.by, 1, l.values[1]) /\ Holds(l.by, 2, l.values[2]))'
    BY <1>1, <1>3, <2>1, <2>3
  <2>. QED  BY <1>1, <2>4, <2>5, CalmMoves
<1>. QED  BY <1>1, <1>2, <1>3

LEMMA CalmStep ==
  ASSUME SealInv, TypeOK', Calm, NEW p \in Process, Continue(p),
         UNCHANGED disturbed, ~disturbed
  PROVE  Calm'
<1>. PICK s, i : s = proc[p].by /\ i = proc[p].slot
  OBVIOUS
<1>0. /\ TypeOK /\ Mid(p) /\ Sees(proc[p])
      /\ proc[p] \in Proc /\ s \in Settings /\ s.mode \in Mode
      /\ Here(p) \in Place /\ Here(p) = <<s.mode, i>> /\ i \in {1, 2}
  BY ContinueIsMid, HereIsPlace DEF SealInv, Calm, Proc, Here
<1>1. UNCHANGED <<place, tpmKey>> => Keeps
  BY DEF Keeps
<1>2. CASE Refuse(p)
  <2>1. Sees(proc[p])'
    BY <1>0, <1>2, RefuseMoves DEF Sees, Starting
  <2>. QED  BY <1>0, <1>1, <1>2, <2>1, RefuseMoves, CalmMoves
\* The lock a process holds, or is about to try, is the one its place should have.
<1>3. ASSUME NEW lock,
             s.mode = "keystore" => lock = NoLock,
             s.mode = "tpm" => SealedUnder(lock),
             s.mode = "passphrase" => lock = IF i = 1 THEN NoLock ELSE Kek(proc[p])
      PROVE  /\ s.mode = "passphrase" /\ i = 1 => lock = NoLock
             /\ s.mode = "passphrase" /\ i = 2 =>
                  /\ place[SaltPlace] \in Stored
                  /\ lock = [passphrase |-> s.passphrase,
                             key |-> place[SaltPlace].value]
  BY <1>0, <1>3 DEF Sees, Mid, Holds, SaltPlace, Kek
<1>4. ASSUME NEW lock, Find(p, lock),
             s.mode = "keystore" => lock = NoLock,
             s.mode = "tpm" => lock = TpmLock,
             s.mode = "passphrase" => lock = IF i = 1 THEN NoLock ELSE Kek(proc[p])
      PROVE  Calm'
  <2>. PICK v : v = place[Here(p)].value
    OBVIOUS
  <2>1. /\ Use(p, v) /\ v \in Key /\ place[Here(p)] \in Stored
        /\ place[Here(p)].lock = lock /\ UNCHANGED <<place, tpmKey, db>>
    BY <1>0, <1>4, FindMoves
  <2>2. s.mode = "tpm" => SealedUnder(lock)
    BY <1>0, <1>4, <2>1 DEF SealInv
  <2>3. Holds(s, i, v)
    BY <1>0, <1>3, <1>4, <2>1, <2>2 DEF Holds
  <2>4. Holds(s, i, v)'
    BY <1>0, <1>1, <2>1, <2>3, HoldsStays
  <2>. QED  BY <1>0, <1>1, <2>1, <2>4, UseCalm
<1>5. ASSUME NEW step \in {"seal", "truncate", "fill"}, NEW lock, Mint(p, step, lock),
             place[Here(p)] \notin Stored,
             step = "seal" => s.mode = "tpm",
             s.mode = "keystore" => lock = NoLock,
             s.mode = "passphrase" => lock = IF i = 1 THEN NoLock ELSE Kek(proc[p])
      PROVE  Calm'
  <2>. PICK w : w = proc[p].values[1]
    OBVIOUS
  <2>1. /\ Others(p) /\ proc'[p].at = step /\ proc'[p].by = s /\ proc'[p].slot = i
        /\ proc'[p].lock = lock /\ (i = 2 => proc'[p].values[1] = w)
        /\ UNCHANGED <<place, tpmKey, db, loaded>>
    BY <1>0, <1>5, MintMoves
  <2>2. i = 2 => Holds(s, 1, w)'
    BY <1>0, <1>1, <2>1, HoldsStays DEF Sees, Mid
  <2>3. Kek(proc[p])' = Kek(proc[p]) \/ i = 1
    BY <1>0, <2>1 DEF Kek
  <2>4. Sees(proc[p])'
    BY <1>0, <1>5, <2>1, <2>2, <2>3 DEF Sees
  <2>. QED  BY <1>0, <1>1, <2>1, <2>4, CalmMoves
<1>6. CASE ReadEntry(p)
  BY <1>0, <1>4, <1>5, <1>6, PlaceAssumption DEF ReadEntry, Reading
<1>7. CASE ReadSealed(p)
  <2>1. ASSUME FirstRun(p, TpmLock) PROVE place[Here(p)] \notin Stored
    BY <2>1, PlaceAssumption DEF FirstRun
  <2>. QED  BY <1>0, <1>2, <1>4, <1>5, <1>7, <2>1 DEF ReadSealed, Reading, Mismatch
<1>8. CASE ReadSalt(p)
  <2>1. s.mode = "passphrase" /\ i = 1 /\ Here(p) = SaltPlace
    BY <1>0, <1>8 DEF ReadSalt, Reading, SaltPlace
  <2>2. \/ Find(p, NoLock)
        \/ place[Here(p)] \notin Stored /\ Mint(p, "truncate", NoLock)
    BY <1>8, <2>1 DEF ReadSalt, SaltKept
  <2>. QED  BY <1>4, <1>5, <2>1, <2>2
<1>9. CASE ReadWrapped(p)
  <2>. PICK kek : kek = Kek(proc[p])
    OBVIOUS
  <2>1. s.mode = "passphrase" /\ i = 2
    BY <1>9 DEF ReadWrapped, Reading
  <2>2. ASSUME FirstRun(p, kek) PROVE place[Here(p)] \notin Stored
    BY <2>2, PlaceAssumption DEF FirstRun
  <2>3. \/ Find(p, kek)
        \/ Refuse(p)
        \/ FirstRun(p, kek) /\ Mint(p, "truncate", kek)
    BY <1>9 DEF ReadWrapped, Mismatch
  <2>. QED  BY <1>2, <1>4, <1>5, <2>1, <2>2, <2>3
<1>10. ASSUME proc[p].at \in {"seal", "createKey", "finalizeKey"}, Keeps, Others(p),
              proc'[p].at \in {"createKey", "finalizeKey", "truncate"},
              proc'[p].by = s, proc'[p].slot = i, proc'[p].values = proc[p].values,
              UNCHANGED <<place, db, loaded>>
       PROVE  Calm'
  <2>. PICK w : w = proc[p].values[1]
    OBVIOUS
  <2>1. s.mode = "tpm" /\ place[Here(p)] \notin Stored
    BY <1>0, <1>10 DEF Sees
  <2>2. i = 2 => Holds(s, 1, w)'
    BY <1>0, <1>10, HoldsStays DEF Sees, Mid
  <2>3. Sees(proc[p])'
    BY <1>0, <1>10, <2>1, <2>2 DEF Sees
  <2>. QED  BY <1>0, <1>10, <2>3, CalmMoves
<1>11. CASE Seal(p)
  BY <1>0, <1>1, <1>10, <1>11, SealMoves, GotoMoves DEF Seal
<1>12. CASE CreateKey(p)
  BY <1>0, <1>1, <1>10, <1>12, SealMoves, GotoMoves DEF CreateKey
<1>13. CASE FinalizeKey(p)
  <2>1. CASE /\ tpmKey = 0 /\ SealWith(p, drawn') /\ UNCHANGED <<place, db, loaded>>
    BY <1>0, <1>10, <1>13, <2>1, SealMoves DEF FinalizeKey, Keeps
  <2>. QED  BY <1>2, <1>13, <2>1 DEF FinalizeKey, NameFree
<1>14. CASE Truncate(p)
  <2>. PICK w : w = proc[p].values[1]
    OBVIOUS
  <2>1. place' = [place EXCEPT ![Here(p)] = Torn] /\ UNCHANGED <<tpmKey, db, loaded>>
    BY <1>14 DEF Truncate
  <2>2. /\ Others(p) /\ proc'[p].at = "fill" /\ proc'[p].by = s /\ proc'[p].slot = i
        /\ proc'[p].values = proc[p].values /\ proc'[p].lock = proc[p].lock
    BY <1>0, <1>14, GotoMoves DEF Truncate
  <2>3. Keeps
    BY <1>0, <1>14, <2>1 DEF Truncate, Keeps, Sees, SealInv, TypeOK
  <2>4. i = 2 => Holds(s, 1, w)'
    BY <1>0, <2>3, HoldsStays DEF Sees, Mid
  <2>5. place'[Here(p)] = Torn
    BY <1>0, <2>1 DEF TypeOK
  <2>6. Kek(proc[p])' = Kek(proc[p])
    BY <2>2 DEF Kek
  <2>7. Sees(proc[p])'
    BY <1>0, <1>14, <2>2, <2>4, <2>5, <2>6, PlaceAssumption DEF Sees, Truncate
  <2>. QED  BY <1>0, <2>1, <2>2, <2>3, <2>7, CalmMoves
<1>15. CASE Fill(p)
  <2>. PICK v, lock : v = proc[p].values[i] /\ lock = proc[p].lock
    OBVIOUS
  <2>1. /\ place' = [place EXCEPT ![Here(p)] = [value |-> v, lock |-> lock]]
        /\ Use(p, v) /\ UNCHANGED <<tpmKey, db>> /\ proc[p].at = "fill"
    BY <1>15 DEF Fill
  <2>2. v \in Key /\ [value |-> v, lock |-> lock] \in Stored
    BY <1>0, LocksAre DEF Proc, Stored
  <2>3. place'[Here(p)] = [value |-> v, lock |-> lock]
    BY <1>0, <2>1 DEF TypeOK
  <2>4. Keeps
    BY <1>0, <2>1 DEF Keeps, Sees, SealInv, TypeOK
  <2>5. /\ s.mode = "keystore" => lock = NoLock
        /\ s.mode = "tpm" => SealedUnder(lock)
        /\ s.mode = "passphrase" => lock = IF i = 1 THEN NoLock ELSE Kek(proc[p])
    BY <1>0, <2>1 DEF Sees, SealInv
  <2>6. s.mode = "tpm" => SealedUnder(lock)'
    BY <2>1, <2>5 DEF SealedUnder, TpmLock
  <2>7. s.mode = "passphrase" /\ i = 2 => place'[SaltPlace] = place[SaltPlace]
    BY <1>0, <1>3, <2>4, <2>5 DEF Keeps, SaltPlace, Place
  <2>8. Holds(s, i, v)'
    BY <1>0, <1>3, <2>2, <2>3, <2>5, <2>6, <2>7 DEF Holds
  <2>. QED  BY <1>0, <2>1, <2>2, <2>4, <2>8, UseCalm
<1>16. CASE OpenDatabase(p)
  <2>. PICK k : k = Dek(proc[p])
    OBVIOUS
  <2>1. HoldsDek(s, k)
    BY <1>0, <1>16 DEF OpenDatabase, Sees, HoldsDek, Dek, DekSlot, Starting
  <2>2. ASSUME Goto(p, "serving"), UNCHANGED <<place, tpmKey, loaded>>,
               db' # NoDatabase, db'.key = k,
               UNCHANGED db \/ (db = NoDatabase /\ db'.by = s)
        PROVE  Calm'
    <3>1. /\ Others(p) /\ proc'[p].at = "serving" /\ proc'[p].by = s
      BY <1>0, <2>2, GotoMoves
    <3>2. HoldsDek(s, k)'
      BY <1>0, <1>1, <2>1, <2>2, DekStays
    <3>3. HoldsDek(proc[p].by, db.key)'
      BY <2>2, <3>1, <3>2
    <3>4. Sees(proc[p])'
      BY <2>2, <3>1, <3>3 DEF Sees, Starting
    <3>5. UNCHANGED db \/ (db = NoDatabase /\ (db # NoDatabase /\ HoldsDek(db.by, db.key))')
      BY <2>2, <3>2
    <3>. QED  BY <1>0, <1>1, <2>2, <3>1, <3>4, <3>5, CalmMoves
  <2>3. [key |-> k, by |-> s] # NoDatabase
    BY <1>0, DatabaseAssumption DEF Dek, DekSlot, Proc
  <2>. QED  BY <1>2, <1>16, <2>2, <2>3 DEF OpenDatabase
<1>. QED  BY <1>6, <1>7, <1>8, <1>9, <1>11, <1>12, <1>13, <1>14, <1>15, <1>16 DEF Continue

\* What a process knows stays true while the places stay as they are.
LEMMA SeesStays ==
  ASSUME NEW c, Sees(c), UNCHANGED <<place, tpmKey, db>> PROVE Sees(c)'
BY DEF Sees, HoldsDek, Holds, DekSlot, SealedUnder, TpmLock, Kek

\* A start or a stop, which touches no place.
LEMMA CalmRests ==
  ASSUME Calm, NEW p \in Process, Others(p), Sees(proc[p])', OneStarts',
         UNCHANGED <<place, tpmKey, db, loaded>>
  PROVE  Calm'
<1>1. ASSUME NEW q \in Process, q # p PROVE Sees(proc[q])'
  <2>. PICK c : c = proc[q]
    OBVIOUS
  <2>1. Sees(c) /\ proc'[q] = c
    BY <1>1 DEF Calm, Others
  <2>2. Sees(c)'
    BY <2>1, SeesStays
  <2>. QED  BY <2>1, <2>2, SMTT(30) DEF Sees, HoldsDek, Holds, DekSlot, SealedUnder, TpmLock, Kek
<1>2. (db # NoDatabase => HoldsDek(db.by, db.key))'
  BY DEF Calm, HoldsDek, Holds, DekSlot, SealedUnder, TpmLock
<1>3. (\A l \in loaded : Holds(l.by, 1, l.values[1]) /\ Holds(l.by, 2, l.values[2]))'
  BY DEF Calm, Holds, SealedUnder, TpmLock
<1>. QED  BY <1>1, <1>2, <1>3 DEF Calm

\* A step that meets no overlap and no failing read leaves disturbed alone.
LEMMA DisturbedStays ==
  ASSUME TypeOK, [Next]_vars, ~disturbed'
  PROVE  ~disturbed /\ UNCHANGED disturbed
<1>1. ASSUME NEW p \in Process, Continue(p) PROVE ~disturbed
  BY <1>1 DEF Continue, ReadEntry, ReadSealed, ReadSalt, ReadWrapped, Seal, CreateKey,
              FinalizeKey, Truncate, Fill, OpenDatabase, Find, Mismatch, FirstRun, Refuse
<1>2. ASSUME NEW p \in Process, Stop(p) PROVE ~disturbed
  BY <1>2 DEF Stop
<1>3. ASSUME NEW p \in Process, NEW s \in Settings, Start(p, s) PROVE ~disturbed
  BY <1>3 DEF Start
<1>4. ~disturbed
  BY <1>1, <1>2, <1>3 DEF Next, vars
<1>. QED  BY <1>4, TypeStep DEF TypeOK

LEMMA CustodyStep == CustodyInv /\ [Next]_vars => CustodyInv'
<1>. SUFFICES ASSUME CustodyInv, [Next]_vars, ~disturbed' PROVE Calm'
  BY SealStep DEF CustodyInv
<1>1. /\ SealInv /\ TypeOK /\ TypeOK' /\ Calm /\ ~disturbed /\ UNCHANGED disturbed
  BY TypeStep, DisturbedStays DEF CustodyInv, SealInv
<1>2. CASE UNCHANGED vars
  <2>1. UNCHANGED <<place, tpmKey, db, proc, loaded>>
    BY <1>2 DEF vars
  <2>2. OneStarts'
    BY <1>1, <2>1 DEF Calm, OneStarts, Mid
  <2>3. ASSUME NEW p \in Process PROVE Calm'
    <3>. PICK c : c = proc[p]
      OBVIOUS
    <3>1. Sees(c)'
      BY <1>1, <2>1, SeesStays DEF Calm
    <3>2. Sees(proc[p])'
      BY <2>1, <3>1 DEF Sees, HoldsDek, Holds, DekSlot, SealedUnder, TpmLock, Kek
    <3>. QED  BY <1>1, <2>1, <2>2, <3>2, CalmRests DEF Others
  <2>4. CASE Process = {}
    BY <1>1, <2>1, <2>4 DEF Calm, OneStarts, HoldsDek, Holds, DekSlot, SealedUnder, TpmLock
  <2>. QED  BY <2>3, <2>4
<1>3. ASSUME NEW p \in Process, NEW s \in Settings, Start(p, s) PROVE Calm'
  <2>1. Others(p) /\ proc'[p] = At("read", s) /\ \A q \in Process : ~Mid(q)
    BY <1>1, <1>3 DEF Start, TypeOK, Others
  <2>2. OneStarts'
    BY <2>1 DEF OneStarts, Others, Mid
  <2>3. Sees(proc[p])'
    BY <2>1 DEF Sees, At
  <2>. QED  BY <1>1, <1>3, <2>1, <2>2, <2>3, CalmRests DEF Start
<1>4. ASSUME NEW p \in Process, Stop(p) PROVE Calm'
  <2>1. Others(p) /\ proc'[p] = At("down", NoSettings)
    BY <1>1, <1>4 DEF Stop, TypeOK, Others
  <2>2. OneStarts'
    BY <1>1, <2>1 DEF Calm, OneStarts, Others, Mid, At, Starting
  <2>3. Sees(proc[p])'
    BY <2>1 DEF Sees, At, Starting
  <2>. QED  BY <1>1, <1>4, <2>1, <2>2, <2>3, CalmRests DEF Stop
<1>5. ASSUME NEW p \in Process, Continue(p) PROVE Calm'
  BY <1>1, <1>5, CalmStep
<1>. QED  BY <1>2, <1>3, <1>4, <1>5 DEF Next

\* What Holds says of the data key is what Yields does.
LEMMA HeldIsYielded ==
  ASSUME NEW s \in Settings, NEW key, HoldsDek(s, key) PROVE Yields(s, key)
<1>1. CASE s.mode = "passphrase"
  BY <1>1 DEF HoldsDek, Holds, DekSlot, Yields
<1>2. CASE s.mode # "passphrase"
  BY <1>2 DEF HoldsDek, Holds, DekSlot, Yields, SealedUnder
<1>. QED  BY <1>1, <1>2

\* Where starts do not overlap and reads do not fail, whoever made the database can
\* open it again, whatever was killed half-way or tried with other settings.
THEOREM DatabaseStaysOpenable == Spec => []DatabaseOpenable
<1>1. CustodyInv => DatabaseOpenable
  BY HeldIsYielded DEF CustodyInv, SealInv, TypeOK, Calm, DatabaseOpenable, OwnerNotLockedOut
<1>. QED  BY <1>1, CustodyInit, CustodyStep, PTL DEF Spec

\* ... every start with the same settings goes by the same values ...
THEOREM KeysAreStable == Spec => []KeysStable
<1>1. ASSUME CustodyInv, ~disturbed, NEW a \in loaded, NEW b \in loaded, a.by = b.by
      PROVE  a.values = b.values
  <2>1. /\ Holds(a.by, 1, a.values[1]) /\ Holds(a.by, 2, a.values[2])
        /\ Holds(b.by, 1, b.values[1]) /\ Holds(b.by, 2, b.values[2])
    BY <1>1 DEF CustodyInv, Calm
  <2>2. a.values[1] = b.values[1] /\ a.values[2] = b.values[2]
    BY <1>1, <2>1 DEF Holds
  <2>3. a.values \in [{1, 2} -> Key] /\ b.values \in [{1, 2} -> Key]
    BY <1>1 DEF CustodyInv, SealInv, TypeOK
  <2>. QED  BY <2>2, <2>3
<1>2. CustodyInv => KeysStable
  BY <1>1 DEF KeysStable, SameSettingsSameKeys
<1>. QED  BY <1>2, CustodyInit, CustodyStep, PTL DEF Spec

\* ... and only a process whose settings lead to the database's key serves it.
THEOREM OnlyKeyHoldersServe == Spec => []ServesOnlyKeyHolders
<1>1. ASSUME CustodyInv, ~disturbed, NEW p \in Process, proc[p].at = "serving"
      PROVE  db # NoDatabase /\ Yields(proc[p].by, db.key)
  <2>1. db # NoDatabase /\ HoldsDek(proc[p].by, db.key)
    BY <1>1 DEF CustodyInv, Calm, Sees
  <2>2. proc[p].by \in Settings
    BY <1>1 DEF CustodyInv, SealInv, TypeOK
  <2>. QED  BY <2>1, <2>2, HeldIsYielded
<1>2. CustodyInv => ServesOnlyKeyHolders
  BY <1>1 DEF ServesOnlyKeyHolders
<1>. QED  BY <1>2, CustodyInit, CustodyStep, PTL DEF Spec

\* No step of a start writes where a value is stored whole.
LEMMA CalmKeeps ==
  ASSUME CustodyInv, [Next]_vars, ~disturbed'
  PROVE  \A pl \in Place : place[pl] \in Stored => place'[pl] = place[pl]
<1>1. TypeOK /\ Calm
  BY DisturbedStays DEF CustodyInv, SealInv
<1>2. ASSUME NEW p \in Process, Truncate(p) \/ Fill(p)
      PROVE  /\ place[Here(p)] \notin Stored
             /\ \A pl \in Place : pl # Here(p) => place'[pl] = place[pl]
  <2>1. Sees(proc[p]) /\ proc[p].at \in {"truncate", "fill"}
    BY <1>1, <1>2 DEF Calm, Truncate, Fill
  <2>. QED  BY <1>1, <1>2, <2>1 DEF Sees, Here, Truncate, Fill, TypeOK
<1>3. ASSUME NEW p \in Process, Continue(p) PROVE Truncate(p) \/ Fill(p) \/ UNCHANGED place
  BY <1>3 DEF Continue, ReadEntry, ReadSealed, ReadSalt, ReadWrapped, Seal, CreateKey,
              FinalizeKey, OpenDatabase, Find, Mismatch, Mint, Refuse
<1>. QED  BY <1>2, <1>3 DEF Next, Start, Stop, vars

\* What a start finds is what every earlier start with those settings left.
THEOREM StoredIsKept == Spec => StoredOnce
<1>1. CustodyInv /\ [Next]_vars
        => [\A pl \in Place :
              place[pl] \in Stored /\ place'[pl] # place[pl] => disturbed']_vars
  BY CalmKeeps
<1>. QED  BY <1>1, CustodyInit, CustodyStep, PTL DEF Spec, StoredOnce

-----------------------------------------------------------------------------
(* The owner's starts *)

\* A database is made, and a start comes to it, after resolve_keys has returned.
Returned(s) == \E l \in loaded : l.by = s

ReturnedInv ==
  /\ TypeOK
  /\ db # NoDatabase => Returned(db.by)
  /\ \A p \in Process : proc[p].at = "openDatabase" => Returned(proc[p].by)

LEMMA ReturnedStep ==
  /\ Init => ReturnedInv
  /\ ReturnedInv /\ [Next]_vars => ReturnedInv'
<1>1. Init => ReturnedInv
  BY TypeInit, RestIsProc DEF Init, ReturnedInv
<1>2. ASSUME ReturnedInv, [Next]_vars PROVE ReturnedInv'
  <2>1. TypeOK /\ TypeOK'
    BY <1>2, TypeStep DEF ReturnedInv
  <2>2. ASSUME NEW p \in Process, Others(p), loaded \subseteq loaded',
               (proc[p].at = "openDatabase" => Returned(proc[p].by))',
               db' = db \/ (proc[p].at = "openDatabase" /\ db'.by = proc[p].by)
        PROVE  ReturnedInv'
    BY <1>2, <2>1, <2>2 DEF ReturnedInv, Returned, Others
  <2>3. CASE UNCHANGED vars
    BY <1>2, <2>1, <2>3 DEF ReturnedInv, Returned, vars
  <2>4. ASSUME NEW p \in Process, NEW s \in Settings, Start(p, s) PROVE ReturnedInv'
    BY <2>1, <2>2, <2>4 DEF Start, At, TypeOK, Others
  <2>5. ASSUME NEW p \in Process, Stop(p) PROVE ReturnedInv'
    BY <2>1, <2>2, <2>5 DEF Stop, At, TypeOK, Others
  <2>6. ASSUME NEW p \in Process, Continue(p) PROVE ReturnedInv'
    <3>1. Mid(p) /\ proc[p] \in Proc
      BY <2>1, <2>6, ContinueIsMid, HereIsPlace
    <3>2. CASE Refuse(p)
      BY <2>1, <2>2, <3>2, RefuseMoves
    <3>3. ASSUME NEW v \in Key, Use(p, v), UNCHANGED db PROVE ReturnedInv'
      <4>1. /\ Others(p) /\ proc'[p].by = proc[p].by /\ proc[p].slot \in {1, 2}
            /\ proc[p].slot = 1 => proc'[p].at = "read" /\ UNCHANGED loaded
            /\ proc[p].slot = 2 =>
                 loaded' = loaded \cup {[by |-> proc[p].by, values |-> proc'[p].values]}
        BY <2>1, <3>1, <3>3, UseMoves
      <4>2. CASE proc[p].slot = 1
        BY <2>2, <3>3, <4>1, <4>2
      <4>3. CASE proc[p].slot = 2
        <5>. PICK l : l = [by |-> proc[p].by, values |-> proc'[p].values]
          OBVIOUS
        <5>1. l \in loaded' /\ l.by = proc'[p].by
          BY <4>1, <4>3
        <5>2. Returned(proc[p].by)'
          BY <5>1 DEF Returned
        <5>. QED BY <2>2, <3>3, <4>1, <4>3, <5>2
      <4>. QED BY <4>1, <4>2, <4>3
    <3>4. ASSUME NEW lock, Find(p, lock) PROVE ReturnedInv'
      BY <2>1, <3>1, <3>3, <3>4, FindMoves
    <3>5. ASSUME NEW step \in {"seal", "truncate", "fill"}, NEW lock, Mint(p, step, lock)
          PROVE  ReturnedInv'
      BY <2>1, <2>2, <3>1, <3>5, MintMoves
    <3>6. ASSUME NEW key, SealWith(p, key), UNCHANGED <<db, loaded>> PROVE ReturnedInv'
      BY <2>1, <2>2, <3>1, <3>6, SealMoves
    <3>7. ASSUME NEW step \in {"createKey", "finalizeKey", "fill"}, Goto(p, step),
                 UNCHANGED <<db, loaded>>
          PROVE  ReturnedInv'
      BY <2>1, <2>2, <3>1, <3>7, GotoMoves
    <3>8. CASE ReadEntry(p) \/ ReadSealed(p) \/ ReadSalt(p) \/ ReadWrapped(p)
      BY <3>2, <3>4, <3>5, <3>8 DEF ReadEntry, ReadSealed, ReadSalt, ReadWrapped, Mismatch
    <3>9. CASE Seal(p) \/ CreateKey(p) \/ FinalizeKey(p) \/ Truncate(p)
      BY <3>2, <3>6, <3>7, <3>9 DEF Seal, CreateKey, FinalizeKey, Truncate
    <3>10. CASE Fill(p)
      BY <3>1, <3>3, <3>10 DEF Fill, Proc
    <3>11. CASE OpenDatabase(p)
      <4>1. ASSUME Goto(p, "serving"), UNCHANGED loaded,
                   db' = db \/ db' = [key |-> Dek(proc[p]), by |-> proc[p].by]
            PROVE  ReturnedInv'
        <5>1. Others(p) /\ proc'[p].at = "serving"
          BY <2>1, <3>1, <4>1, GotoMoves
        <5>. QED BY <2>2, <3>11, <4>1, <5>1 DEF OpenDatabase
      <4>. QED BY <3>2, <3>11, <4>1 DEF OpenDatabase
    <3>. QED BY <2>6, <3>8, <3>9, <3>10, <3>11 DEF Continue
  <2>. QED BY <1>2, <2>3, <2>4, <2>5, <2>6 DEF Next
<1>. QED BY <1>1, <1>2

\* Whoever made the database has both its places whole, each behind its lock.
LEMMA OwnerHoldsBoth ==
  ASSUME CustodyInv, ReturnedInv, ~disturbed, db # NoDatabase
  PROVE  \E v, w : Holds(db.by, 1, v) /\ Holds(db.by, 2, w)
<1>1. PICK l \in loaded : l.by = db.by
  BY DEF ReturnedInv, Returned
<1>2. Holds(l.by, 1, l.values[1]) /\ Holds(l.by, 2, l.values[2])
  BY DEF CustodyInv, Calm
<1>. QED BY <1>1, <1>2

LEMMA OwnerGoesOn ==
  ASSUME CustodyInv, ReturnedInv, [Next]_vars, ~disturbed', NEW p \in Process,
         Mid(p), db # NoDatabase, proc[p].by = db.by
  PROVE  proc'[p].at # "refused"
<1>. PICK s, i : s = db.by /\ i = proc[p].slot
  OBVIOUS
<1>0. /\ TypeOK /\ Calm /\ SealInv /\ ~disturbed /\ Sees(proc[p]) /\ proc[p].by = s
      /\ proc[p] \in Proc /\ s \in Settings /\ Here(p) = <<s.mode, i>> /\ i \in {1, 2}
  BY HereIsPlace, DisturbedStays DEF CustodyInv, SealInv, Calm, Here, Proc
<1>1. PICK v : Holds(s, i, v)
  BY <1>0, OwnerHoldsBoth
<1>2. proc[p].at # "refused"
  BY DEF Mid, Starting
<1>3. ASSUME NEW q \in Process, q # p, \/ Continue(q) \/ Stop(q)
                                       \/ \E t \in Settings : Start(q, t)
      PROVE  proc'[p] = proc[p]
  <2>1. Stop(q) \/ (\E t \in Settings : Start(q, t)) => proc'[p] = proc[p]
    BY <1>0, <1>3 DEF Stop, Start, TypeOK
  <2>2. Continue(q) => ~OneStarts
    BY <1>3, ContinueIsMid DEF OneStarts
  <2>. QED BY <1>0, <1>3, <2>1, <2>2 DEF Calm
<1>4. ASSUME Stop(p) \/ \E t \in Settings : Start(p, t) PROVE proc'[p].at # "refused"
  BY <1>0, <1>4 DEF Stop, Start, TypeOK, At
<1>5. ASSUME Continue(p) PROVE proc'[p].at # "refused"
  <2>1. place[Here(p)] \in Stored /\ place[Here(p)] # Absent
    BY <1>0, <1>1, PlaceAssumption DEF Holds
  <2>2. ASSUME NEW w, Use(p, w), w \in Key PROVE proc'[p].at # "refused"
    BY <1>0, <2>2, UseMoves
  <2>3. ASSUME NEW lock, Find(p, lock) PROVE proc'[p].at # "refused"
    BY <1>0, <2>2, <2>3, FindMoves
  <2>4. ASSUME NEW step \in {"seal", "truncate", "fill"}, NEW lock, Mint(p, step, lock)
        PROVE  proc'[p].at # "refused"
    BY <1>0, <2>4, MintMoves
  <2>5. CASE ReadEntry(p) \/ ReadSalt(p)
    BY <2>3, <2>4, <2>5 DEF ReadEntry, ReadSalt
  <2>6. CASE ReadSealed(p)
    <3>1. ~Mismatch(p, TpmLock)
      BY <1>0, <1>1, <2>1, <2>6 DEF Mismatch, Opens, Holds, SealedUnder, ReadSealed, Reading
    <3>. QED BY <2>3, <2>4, <2>6, <3>1 DEF ReadSealed
  <2>7. CASE ReadWrapped(p)
    <3>. PICK kek : kek = Kek(proc[p])
      OBVIOUS
    <3>1. s.mode = "passphrase" /\ i = 2 /\ Holds(s, 1, proc[p].values[1])
      BY <1>0, <2>7 DEF ReadWrapped, Reading, Sees, Mid
    <3>2. kek = [passphrase |-> s.passphrase, key |-> place[SaltPlace].value]
      BY <1>0, <3>1 DEF Kek, Holds, SaltPlace
    <3>3. ~Mismatch(p, kek)
      BY <1>0, <1>1, <2>1, <3>1, <3>2 DEF Mismatch, Opens, Holds
    <3>4. Find(p, kek) \/ Mint(p, "truncate", kek)
      BY <2>7, <3>3 DEF ReadWrapped
    <3>. QED BY <2>3, <2>4, <3>4
  <2>8. CASE Seal(p) \/ CreateKey(p) \/ FinalizeKey(p) \/ Truncate(p) \/ Fill(p)
    BY <1>0, <2>1, <2>8 DEF Sees, Seal, CreateKey, FinalizeKey, Truncate, Fill, Here
  <2>9. CASE OpenDatabase(p)
    <3>1. Holds(s, 1, proc[p].values[1]) /\ Holds(s, 2, proc[p].values[2]) /\ HoldsDek(s, db.key)
      BY <1>0, <2>9 DEF OpenDatabase, Sees, Calm, Mid
    <3>2. db.key = Dek(proc[p])
      BY <1>0, <3>1 DEF Dek, DekSlot, HoldsDek, Holds
    <3>3. Goto(p, "serving")
      BY <2>9, <3>2 DEF OpenDatabase
    <3>. QED BY <1>0, <3>3, GotoMoves
  <2>. QED BY <1>5, <2>5, <2>6, <2>7, <2>8, <2>9 DEF Continue
<1>6. CASE UNCHANGED vars
  BY <1>2, <1>6 DEF vars
<1>. QED BY <1>2, <1>3, <1>4, <1>5, <1>6 DEF Next

\* Where starts do not overlap and reads do not fail, no start of whoever made the
\* database ends with an error, in any mode.
THEOREM OwnerIsNeverRefused == Spec => OwnerNeverRefused
<1>1. CustodyInv /\ ReturnedInv /\ [Next]_vars
        => [\A p \in Process :
              Mid(p) /\ db # NoDatabase /\ proc[p].by = db.by
                => proc'[p].at # "refused" \/ disturbed']_vars
  BY OwnerGoesOn
<1>. QED BY <1>1, CustodyInit, CustodyStep, ReturnedStep, PTL DEF Spec, OwnerNeverRefused

=============================================================================
