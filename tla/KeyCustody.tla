------------------------------ MODULE KeyCustody ------------------------------
(***************************************************************************)
(* The start of a server of the encrypted store: custody.rs resolve_keys   *)
(* in each of its three modes, with keys.rs and tpm.rs below it, and       *)
(* Store::open on the database the keys are for.                           *)
(*                                                                         *)
(* A mode keeps two values in two places: the OS keychain (keystore), two  *)
(* sidecars sealed by a TPM key (tpm), or a salt and a data key wrapped    *)
(* under a passphrase (passphrase).  What is there is used, and what is    *)
(* not there is made.  Several processes may serve one database, and       *)
(* nothing locks the places.  fs::write truncates a file and then fills    *)
(* it, and a process may stop between any two steps.                       *)
(***************************************************************************)
EXTENDS Naturals

CONSTANTS
  Process,      \* server processes configured for one database path
  Mode,         \* the modes wired in this build
  Passphrase,   \* values of COGNITIVE_MCP_PASSPHRASE
  MaxDrawn,     \* bound on the random values drawn for places
  Disturbance,  \* what may go wrong: "overlap" of starts, "misread" files
  Absent, Torn, NoPassphrase, NoDatabase

ASSUME ModeAssumption == Mode \subseteq {"keystore", "tpm", "passphrase"}

\* Random keys and salts, numbered as they are drawn; 0 stands for none.
Key == Nat

\* What protects a stored value: nothing, a key derived from a passphrase and a salt,
\* or a TPM key.
Lock == [passphrase: Passphrase \cup {NoPassphrase}, key: Key]

NoLock == [passphrase |-> NoPassphrase, key |-> 0]

Stored == [value: Key, lock: Lock]

ASSUME PlaceAssumption == Absent # Torn /\ Absent \notin Stored /\ Torn \notin Stored

\* The two places of each mode, in the order it asks for them:
\*   keystore    the keychain entries dek and pepper
\*   tpm         the sidecars <db>.dek.tpm and <db>.pepper.tpm
\*   passphrase  the sidecars <db>.salt and <db>.dek
Place == Mode \X {1, 2}

SaltPlace == <<"passphrase", 1>>

\* Which of the two holds the data key.
DekSlot(mode) == IF mode = "passphrase" THEN 2 ELSE 1

\* What the environment variables select.
Settings == {s \in [mode: Mode, passphrase: Passphrase \cup {NoPassphrase}] :
               s.mode = "passphrase" <=> s.passphrase # NoPassphrase}

NoSettings == [mode |-> "none", passphrase |-> NoPassphrase]

ASSUME DatabaseAssumption == NoDatabase \notin [key: Key, by: Settings]

VARIABLES
  place,      \* what each place holds: Absent, Torn (truncated) or a stored value
  tpmKey,     \* the machine's persisted TPM key, or 0
  db,         \* the data key the database is encrypted for, and for whom it was made
  proc,       \* where each process is, and the locals it holds
  drawn,      \* how many random values have been drawn
  disturbed,  \* history: have two starts overlapped, or a read of a file failed?
  loaded      \* history: the values resolve_keys went by, for which settings

vars == <<place, tpmKey, db, proc, drawn, disturbed, loaded>>

-----------------------------------------------------------------------------

Starting == {"read", "seal", "createKey", "finalizeKey", "truncate", "fill",
             "openDatabase"}

Proc == [at:     Starting \cup {"down", "refused", "serving"},
         by:     Settings \cup {NoSettings},
         slot:   {1, 2},
         values: [{1, 2} -> Key],
         lock:   Lock]

At(step, s) ==
  [at |-> step, by |-> s, slot |-> 1, values |-> [i \in {1, 2} |-> 0], lock |-> NoLock]

Mid(p) == proc[p].at \in Starting

Goto(p, step) == proc' = [proc EXCEPT ![p].at = step]

\* Mutant of Refuse: the error is dropped, and the start goes on with a default key.
RefuseNot(p) ==
  /\ proc' = [proc EXCEPT ![p] = At("openDatabase", NoSettings)]
  /\ UNCHANGED <<place, tpmKey, db, drawn, disturbed, loaded>>

\* The process ends its start with an error.
Refuse(p) ==
  /\ proc' = [proc EXCEPT ![p] = At("refused", NoSettings)]
  /\ UNCHANGED <<place, tpmKey, db, drawn, disturbed, loaded>>

\* resolve_keys.  An unknown mode, a missing passphrase, a missing or short pepper or
\* a TPM that is not there ends it before it reads a place: the same as not starting.
Start(p, s) ==
  LET overlap == \E q \in Process : Mid(q) IN
  /\ ~Mid(p) /\ proc[p].at # "serving"
  /\ overlap => "overlap" \in Disturbance
  /\ disturbed' = (disturbed \/ overlap)
  /\ proc' = [proc EXCEPT ![p] = At("read", s)]
  /\ UNCHANGED <<place, tpmKey, db, drawn, loaded>>

Here(p) == <<proc[p].by.mode, proc[p].slot>>

Reading(p, mode, slots) ==
  proc[p].at = "read" /\ proc[p].by.mode = mode /\ proc[p].slot \in slots

\* The process has v from the place it is at: it goes on to the next place, or returns
\* from resolve_keys.
Use(p, v) ==
  LET c == [proc[p] EXCEPT !.values[proc[p].slot] = v, !.lock = NoLock] IN
  \/ /\ c.slot = 1
     /\ proc' = [proc EXCEPT ![p] = [c EXCEPT !.at = "read", !.slot = 2]]
     /\ UNCHANGED loaded
  \/ /\ c.slot = 2
     /\ proc' = [proc EXCEPT ![p] = [c EXCEPT !.at = "openDatabase"]]
     /\ loaded' = loaded \cup {[by |-> c.by, values |-> c.values]}

\* Key::random or random_salt: a fresh value for the place the process is at, to be
\* stored behind lock.
Mint(p, step, lock) ==
  /\ drawn < MaxDrawn
  /\ drawn' = drawn + 1
  /\ proc' = [proc EXCEPT ![p].at = step, ![p].values[proc[p].slot] = drawn',
                          ![p].lock = lock]
  /\ UNCHANGED <<place, tpmKey, db, loaded>>

\* Mutant of Opens: what a place holds is not authenticated.
OpensAnything(content, lock) == content \in Stored

\* Authenticated decryption: a stored value comes out with its own lock only.
Opens(content, lock) == content \in Stored /\ content.lock = lock

\* The lock fits what is there, and its value is used.
Find(p, lock) ==
  /\ Opens(place[Here(p)], lock)
  /\ Use(p, place[Here(p)].value)
  /\ UNCHANGED <<place, tpmKey, db, drawn, disturbed>>

\* Something is there, and the lock does not fit it.
Mismatch(p, lock) ==
  /\ place[Here(p)] # Absent
  /\ ~Opens(place[Here(p)], lock)
  /\ Refuse(p)

\* Mutant of FirstRun: a value that does not come out counts as missing.
FirstRunOrLocked(p, lock) == ~Opens(place[Here(p)], lock) /\ UNCHANGED disturbed

\* What load_or_init_dek and load_or_seal_key take for a first run: fs::read failed,
\* because the file is not there or for any other reason.
FirstRun(p, lock) ==
  \/ place[Here(p)] = Absent /\ UNCHANGED disturbed
  \/ place[Here(p)] # Absent /\ "misread" \in Disturbance /\ disturbed' = TRUE

\* load_or_create_keystore_key: only NoEntry makes a key; other errors end the start.
ReadEntry(p) ==
  /\ Reading(p, "keystore", {1, 2})
  /\ \/ Find(p, NoLock)
     \/ place[Here(p)] = Absent /\ Mint(p, "fill", NoLock) /\ UNCHANGED disturbed

\* unseal opens blobs with the TPM key that exists, and creates none.
TpmLock == [passphrase |-> NoPassphrase, key |-> tpmKey]

ReadSealed(p) ==
  /\ Reading(p, "tpm", {1, 2})
  /\ \/ Find(p, TpmLock)
     \/ Mismatch(p, TpmLock)
     \/ FirstRun(p, TpmLock) /\ Mint(p, "seal", NoLock)

\* Mutant of SaltKept: every start draws a new salt.
SaltKeptNever == FALSE

SaltKept == place[SaltPlace] \in Stored

\* read_or_create_salt: whatever is not 16 readable bytes is replaced.
ReadSalt(p) ==
  /\ Reading(p, "passphrase", {1})
  /\ \/ SaltKept /\ Find(p, NoLock)
     \/ /\ \/ ~SaltKept /\ UNCHANGED disturbed
           \/ SaltKept /\ "misread" \in Disturbance /\ disturbed' = TRUE
        /\ Mint(p, "truncate", NoLock)

\* The key-encryption key: Argon2id of the passphrase over the salt that was read.
Kek(c) == [passphrase |-> c.by.passphrase, key |-> c.values[1]]

\* The rest of load_or_init_dek.  A file that can be read is unwrapped, even an empty one.
ReadWrapped(p) ==
  LET kek == Kek(proc[p]) IN
  /\ Reading(p, "passphrase", {2})
  /\ \/ Find(p, kek)
     \/ Mismatch(p, kek)
     \/ FirstRun(p, kek) /\ Mint(p, "truncate", kek)

-----------------------------------------------------------------------------
(* tpm.rs: seal a fresh key under the TPM key, which get_key opens or creates *)

SealWith(p, key) ==
  proc' = [proc EXCEPT ![p].at = "truncate", ![p].lock.key = key]

\* get_key opens the key that exists.
Seal(p) ==
  /\ proc[p].at = "seal"
  /\ \/ tpmKey # 0 /\ SealWith(p, tpmKey)
     \/ tpmKey = 0 /\ Goto(p, "createKey")
  /\ UNCHANGED <<place, tpmKey, db, drawn, disturbed, loaded>>

\* Mutant of NameFree: the key is created with NCRYPT_OVERWRITE_KEY_FLAG.
NameFreeAlways == TRUE

\* The provider gives the name of a persisted key to one key only.
NameFree == tpmKey = 0

\* NCryptCreatePersistedKey; on NTE_EXISTS get_key opens the other process's key.
CreateKey(p) ==
  /\ proc[p].at = "createKey"
  /\ \/ NameFree /\ Goto(p, "finalizeKey")
     \/ ~NameFree /\ SealWith(p, tpmKey)
  /\ UNCHANGED <<place, tpmKey, db, drawn, disturbed, loaded>>

\* NCryptFinalizeKey persists the key, unless another process took the name meanwhile.
FinalizeKey(p) ==
  /\ proc[p].at = "finalizeKey"
  /\ \/ /\ NameFree
        /\ drawn' = drawn + 1
        /\ tpmKey' = drawn'
        /\ SealWith(p, drawn')
        /\ UNCHANGED <<place, db, disturbed, loaded>>
     \/ ~NameFree /\ Refuse(p)

-----------------------------------------------------------------------------

\* fs::write opens the file and cuts it off ...
Truncate(p) ==
  /\ proc[p].at = "truncate"
  /\ place' = [place EXCEPT ![Here(p)] = Torn]
  /\ Goto(p, "fill")
  /\ UNCHANGED <<tpmKey, db, drawn, disturbed, loaded>>

\* ... and writes its bytes; set_password stores its value in one go.
Fill(p) ==
  LET v == proc[p].values[proc[p].slot] IN
  /\ proc[p].at = "fill"
  /\ place' = [place EXCEPT ![Here(p)] = [value |-> v, lock |-> proc[p].lock]]
  /\ Use(p, v)
  /\ UNCHANGED <<tpmKey, db, drawn, disturbed>>

Dek(c) == c.values[DekSlot(c.by.mode)]

\* Store::open: a new database is encrypted for the key that opens it first, and an
\* existing one opens with no other.
OpenDatabase(p) ==
  LET c == proc[p] IN
  /\ c.at = "openDatabase"
  /\ \/ /\ db = NoDatabase
        /\ db' = [key |-> Dek(c), by |-> c.by]
        /\ Goto(p, "serving")
        /\ UNCHANGED <<place, tpmKey, drawn, disturbed, loaded>>
     \/ /\ db # NoDatabase /\ db.key = Dek(c)
        /\ Goto(p, "serving")
        /\ UNCHANGED <<place, tpmKey, db, drawn, disturbed, loaded>>
     \/ db # NoDatabase /\ db.key # Dek(c) /\ Refuse(p)

\* A write or a call to the keychain or the TPM fails, the process is killed, or a
\* serving one shuts down: the places stay as they are.
Stop(p) ==
  /\ Mid(p) \/ proc[p].at = "serving"
  /\ proc' = [proc EXCEPT ![p] = At("down", NoSettings)]
  /\ UNCHANGED <<place, tpmKey, db, drawn, disturbed, loaded>>

Init ==
  /\ place = [pl \in Place |-> Absent]
  /\ tpmKey = 0
  /\ db = NoDatabase
  /\ proc = [p \in Process |-> At("down", NoSettings)]
  /\ drawn = 0
  /\ disturbed = FALSE
  /\ loaded = {}

Continue(p) ==
  \/ ReadEntry(p)
  \/ ReadSealed(p)
  \/ ReadSalt(p)
  \/ ReadWrapped(p)
  \/ Seal(p)
  \/ CreateKey(p)
  \/ FinalizeKey(p)
  \/ Truncate(p)
  \/ Fill(p)
  \/ OpenDatabase(p)

Next == \E p \in Process : Continue(p) \/ Stop(p) \/ \E s \in Settings : Start(p, s)

Spec == Init /\ [][Next]_vars

\* A start is sequential code that waits for no one: it goes on unless it is killed.
Fairness == \A p \in Process : WF_vars(Continue(p))

FairSpec == Spec /\ Fairness

-----------------------------------------------------------------------------
(* Properties *)

\* The places hold what a process writes, and each process what its step needs.
TypeOK ==
  /\ place \in [Place -> Stored \cup {Absent, Torn}]
  /\ tpmKey \in Key
  /\ db \in [key: Key, by: Settings] \cup {NoDatabase}
  /\ proc \in [Process -> Proc]
  /\ \A p \in Process : Mid(p) \/ proc[p].at = "serving" => proc[p].by \in Settings
  /\ drawn \in Key
  /\ disturbed \in BOOLEAN
  /\ loaded \subseteq [by: Settings, values: [{1, 2} -> Key]]

\* A start with these settings would come out with this data key.
Yields(s, key) ==
  LET dek == place[<<s.mode, DekSlot(s.mode)>>] IN
  /\ dek \in Stored /\ dek.value = key
  /\ s.mode = "keystore" => dek.lock = NoLock
  /\ s.mode = "tpm" => dek.lock = TpmLock
  /\ s.mode = "passphrase" =>
       /\ place[SaltPlace] \in Stored
       /\ dek.lock = [passphrase |-> s.passphrase, key |-> place[SaltPlace].value]

\* Whoever made the database can go on opening it: its key is where its mode keeps it,
\* and fits the passphrase or the TPM key (keys.rs:34: the KEK is derived over a
\* persisted salt, and a DEK minted on first run).
OwnerNotLockedOut == db # NoDatabase => Yields(db.by, db.key)

\* So it is where starts do not overlap and reads do not fail, whichever starts, kills,
\* cut-off writes, wrong passphrases and changes of mode came before (README.md:69).
DatabaseOpenable == disturbed \/ OwnerNotLockedOut

\* Every start with the same settings goes by the same values: data key and pepper,
\* or salt and data key (test, keys.rs:66).
SameSettingsSameKeys ==
  \A a, b \in loaded : a.by = b.by => a.values = b.values

KeysStable == disturbed \/ SameSettingsSameKeys

\* A process serves only with settings that would get it the database's key again: no
\* wrong passphrase and no other mode does.
ServesOnlyKeyHolders ==
  \A p \in Process :
    disturbed \/ (proc[p].at = "serving" =>
                     db # NoDatabase /\ Yields(proc[p].by, db.key))

\* No start, in any mode, touches a value that was stored whole.
StoredOnce ==
  [][\A pl \in Place :
       place[pl] \in Stored /\ place'[pl] # place[pl] => disturbed']_vars

\* The TPM key is never clobbered, so all sealed blobs stay decryptable (tpm.rs:67),
\* in every race of get_key with another first start.
SealedStayOpenable ==
  \A pl \in Place :
    pl[1] = "tpm" /\ place[pl] \in Stored => place[pl].lock = TpmLock

\* A start of whoever made the database is never ended by an error of resolve_keys or of
\* Store::open: whatever an earlier start was killed in the middle of, both its places are
\* whole and fit.
OwnerNeverRefused ==
  [][\A p \in Process :
       Mid(p) /\ db # NoDatabase /\ proc[p].by = db.by
         => proc'[p].at # "refused" \/ disturbed']_vars

\* Whoever made the database and starts again gets to serve it, unless killed: no kill
\* or cut-off write of an earlier start leaves a place that stops this one.
OwnerIsServed ==
  \A p \in Process :
    (Mid(p) /\ db # NoDatabase /\ proc[p].by = db.by)
      ~> (proc[p].at \in {"serving", "down"} \/ disturbed)

=============================================================================
