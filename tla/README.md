# cognitive-mcp in TLA+

This directory is a verification project for cognitive-mcp, a persistent memory server
for agents: a TypeScript server over one plain SQLite file (`src/src/`), and a Rust
rewrite over an encrypted database with an identity layer and key custody
(`src/rust/src/`). The modules model what these programs do at the granularity at which
they can be interrupted, the configurations check them with TLC on small instances, and
the `...Proofs` modules prove the main properties for every instance with TLAPS.

`PROJECT.json` names, for every definition, the source lines it stands for.

## 1. The system

| Component | State it keeps | Operations | What is hard about it | What makes it correct |
|---|---|---|---|---|
| Identity layer, `rust/src/store.rs` 318-547 | tables `person`, `person_key`, `person_identifier`, `person_attribute` | `lookup_person`, `resolve_or_create_person`, `link_identifier`, `add_attribute`, `get_attributes`, `forget_person` | methods take `&self` and await between statements, no transactions, any statement may fail, the process may die | one person per identifier; erased data stays unreadable; the rest stays readable; a forget erases everything |
| Memory layer, `rust/src/store.rs` 186-316 | table `memories`, the connection's last rowid | `store_memory`, `list`, `search`, `forget`, `purge_scope`, `purge_expired` | one shared connection, lazily deleted rows, TTL arithmetic, label normalization | reads show exactly the live memories of the scopes asked for; ids name what they were reported for |
| Encrypted server, `rust/src/main.rs` | the `Arc<Store>` | five MCP tools | every request is a task of its own | the answers are true |
| Passphrase custody, `keys.rs`, `custody.rs` 151-164 | sidecars `<db>.salt`, `<db>.dek` | `load_or_init_dek`, `Store::open` | files written non-atomically, several processes, wrong passphrases, reads that fail | whoever has the passphrase can open the database, and nobody else |
| Keystore and TPM custody, `custody.rs` 51-149, `tpm.rs` | OS keychain entries, sealed sidecars, the TPM key | `load_or_create_keystore_key`, `load_or_seal_key`, `get_key` | creation races, kills between the two values, a change of mode | the values on disk go on fitting each other, the TPM key and the database; the owner gets to serve it again after any kill |
| Crypto and pseudonyms, `crypto.rs`, `pseudonym.rs` | none | seal/open, wrap/unwrap, `blind_index` | - | only their contract is used |
| TypeScript store, `src/db.ts` | the SQLite file, migrated from version 0.1 | constructor, `store`, `list`, `search`, `forget`, `purgeScope` | several server processes on one file, two-statement pages, offset paging | nothing is served unmigrated; ids name what they were reported for; a client that pages to the end finds everything, once |
| Term and tag matching, `rust/src/store.rs` 228-253, `src/db.ts` 54-100, 240-252 | the columns `content` and `tags` | `tokenize`, `normalizeTags`, the WHERE clause | two case foldings, LIKE's wildcards, tags matched inside JSON text | a search finds what was asked for and nothing else |
| TypeScript server, `src/index.ts` | what its client does next | five MCP tools | clients page with `next_offset` | `has_more` and `next_offset` lead to the end |
| Rendering, errors (`format.ts`, `error.rs`, `lib.rs`) | none | - | - | not modelled |

How they interact: `main.rs` gets the keys from `custody.rs`, opens the `Store` with
them and serves requests as concurrent tasks over its one connection; the memory and the
identity layer share that connection and the sweep of expired rows, and nothing else.
The identity layer is not behind a tool: it is the library's interface, called by whoever
holds a `Store`. Processes that serve the same path share the database file and the
sidecars. The TypeScript server shares neither tables nor files with the Rust one.

The list of hazards, each at its line and with the properties that would catch it, is in
`PROJECT.json`. The ones no property covers yet have a note.

## 2. Modules

| Module | Models | State and steps |
|---|---|---|
| `PersonStore` | identity layer | the four tables, and per task the method it is in (`call`) with its locals. One SQL statement, with the code up to the next one, is one action: `ResolveUnseen`, `InsertPerson`, `InsertIdentifier` are one `resolve_or_create_person`; `AddAttribute`, `ReadKey`, `MintKey`, `InsertAttribute` one first `add_attribute`; `ForgetPerson`, `DeleteAttributes`, `DeleteIdentifiers`, `DeletePerson` the loop of `forget_person`. `StatementFails` ends any method with `Err` where it stands. `Crash` and `Open` lose the calls and keep the tables. |
| `MemoryStore` | memory layer and Rust tools | table `memory`, the AUTOINCREMENT `sequence`, the connection's `lastRowid`. `StoreMemory` ends with the INSERT and `ReportMemory` reads the id, since the await is between them. A search or list is a cursor: `OpenCursor` binds the clock and the filters, each `FetchRow` is one `rows.next`, which finds the table as it then is, and `CloseCursor` answers; `ReadFails` drops the rows got so far. `memory_forget` and `memory_purge` are one statement each. |
| `ScopedMemory` | nothing: the abstract specification | memories that exist until their deadline, no restarts and no sweeps. A read takes time: its answer holds nothing that did not exist at some instant of it, and leaves out nothing that existed throughout unless it is full of newer memories. A deadline is exact up to the largest integer (`Horizon`), and beyond it any instant |
| `Recency` | `ORDER BY created_at DESC, id DESC`, which both stores use | one operator |
| `PersonDirectory` | nothing: the abstract specification of the identity layer | the person each identifier leads to, the facts that were learned and not taken, and the persons of whom a read fails as a whole (`failing`), which only those can be that a forget ever touched; a forget takes all facts of a person in one step |
| `KeyCustody` | the three custody modes, the TPM key and opening the database | the two places of each mode (absent, torn or holding a value behind a lock), the TPM key, the key the database is for, and where each process is. Every read, every creation and every half of an `fs::write` (truncate, then fill) is a step of `resolve_keys`. |
| `TextMatch` | what the searches of both programs match | one memory and one search of it; texts are sequences of characters. `Terms`, `NormalizeTags`, `JsonArray`, `Like` and `Matches` are the algorithm, `Deserved` is the definition it is compared with. |
| `PlainStore` | TypeScript store and tools | the file's schema, its rows, and where each process is in starting or in the two statements of a page. `FirstPage` and `NextPage` are the COUNT, `SelectPage` the SELECT and the answer; `sweep` keeps what a client that pages through a query has got, is owed, and may miss for deletions (`lost`) and for stores between the two statements of its page (`late`) |
| `MC...` | | small instances: labels, queries, limits, symmetry |
| `PersonStoreProofs`, `PersonSerialProofs`, `PersonDirectoryProofs`, `KeyCustodyProofs`, `MemoryStoreProofs`, `PlainStoreProofs`, `TextMatchProofs` | | theorems |

An operator named as a mutant in its comment is a plausible wrong version of the next
definition; replacing the definition by it must break the property it is listed with.

### What is abstracted

- Random UUIDs, keys and salts are drawn from a supply and never drawn twice. Sealing
  is the pair of key and data; opening with another key fails. HMAC is injective.
- A content, its tags and a search term are replaced by the set of contents a query
  matches in the modules of the stores; which contents a term matches is `TextMatch`. A
  label is the scope it trims to, with a flag for the blanks around it where the code
  looks at the untrimmed label.
- In `KeyCustody` random values are numbered as they are drawn. What protects a stored
  value is its lock: none, the key derived from a passphrase and a salt, or the TPM key,
  and a value comes out with its own lock only. A TPM key has one value for its life; the
  provider gives its name to one key only, at `NCryptFinalizeKey` at the latest, which is
  external behaviour taken from how `get_key` handles `NTE_EXISTS`. A keychain entry is
  written in one go, since the keychain is a service. The constant `Disturbance` says
  which of two things the environment does: `"overlap"`, a start begins while another is
  under way, and `"misread"`, a read of a file that is there returns an error.
- In `TextMatch` the alphabet is a constant. The run's 12 characters stand for all: an
  ASCII letter and a foreign one in both cases, and every character that SQL or JSON
  treats specially. `CharAssumption` says what the theorems need to know of it: lower case
  is a character that has no other, the special characters are different ones and have no
  case, and no letter has one of them for its lower case. Characters whose lower case is
  several (such as the Turkish capital I with a dot) are left out, and so are control
  characters, which JSON escapes too.
- A read of the Rust memory layer is a step for each row, since SQLite does not shield a
  cursor from the other statements of its own connection. `ORDER BY created_at` goes along
  an index (`store.rs:71`) and `id DESC` is sorted within one instant, so SQLite looks at
  all rows of an instant at once; `FetchRow` allows more, as a read that looks ahead is
  one whose next steps come before any other request's. Only `get_attributes` has a SELECT
  of one step: there is no index for its ORDER BY, so that SQLite gathers and sorts all
  rows before it returns the first. The statements of `node:sqlite` are synchronous, and
  other processes do not show within one, so those of `PlainStore` are one step each.
- `now_millis` and the statement it is bound to are one step in the Rust modules, whose
  clock does not step back. In `PlainStore` a stored time stamp is any instant, since
  other processes may delay the INSERT and the wall clock may step back.
- `purge_expired` sweeps two tables; each of `MemoryStore` and `PersonStore` has the
  statement for its own. The layers share no other data.
- A failing statement of a method that has not yet changed anything is the same as the
  method not having been called, so only the ones between two changes are steps.
- Whether SQLite enforces the REFERENCES clauses depends on how it was built: the code
  issues no `PRAGMA foreign_keys`. `PersonStore` takes it as the constant `ForeignKeys`,
  and the runs and theorems say for which value they hold. SQLite itself leaves
  them unenforced unless it is told otherwise; some builds that are bundled with a
  library are told so when they are compiled.
- Whether integer overflow panics depends on the build profile: the constant
  `OverflowChecks`. In a build without checks, which a release build of this
  `Cargo.toml` is, `ExpiresAt` wraps around.
- Variables marked `history` in their declaration are not in the program; properties
  speak about them, and no guard of an action that models code reads them, but for two: a
  caller passes only person ids it was given (`known`), and a client asks for the next
  page only if it was told there is one (`sweep[p].more`).

## 3. Runs

All runs are exhaustive on their instance, and deadlock is checked in each: no model
ever stops, since a process can always be restarted and a client can always ask again.

| Run | Instance | What it asks |
|---|---|---|
| `person_serial` | 1 task, 2 handles in 2 spellings, 2 persons, 2 keys, 2 attributes, a clock of 2 instants | When methods may break off after any statement: is resolution idempotent, does a forget that returned Ok leave nothing, and does a reader see the abstract directory, deadlines included (`ImplementsDirectory`)? |
| `person_concurrent` | 2 tasks, 1 handle, 2 persons, 2 keys, 2 attributes, 1 instant, references enforced | What survives every interleaving: `CryptoShred`, `UntouchedReadable`, `NoPoisonedRead`, `NoErasedAnswer`, `IdentifierNeverMoves`, `ForgetErasesFootprint`; and do the tables show the abstract directory (`ImplementsDirectory`), with a leftover of a broken-off forget beside a row under a new key? |
| `person_resolve_race` | 2 tasks | Violated: two overlapping resolves answer two persons. |
| `person_forget_race` | 2 tasks, references not enforced | Violated: an identifier linked between the last two DELETEs survives its person. |
| `key_custody` | 2 processes, 3 modes, 2 passphrases, 4 random values, overlapping starts and failing reads allowed | Do the stored values go on fitting the database through kills, cut-off writes, wrong passphrases and changes of mode? Is the owner ever refused (`OwnerNeverRefused`), and does he get to serve it again (`OwnerIsServed`, under fairness)? Which of this survives overlap and failing reads (`SealedStayOpenable`)? |
| `key_race` | passphrase mode, overlapping starts | Violated: two data keys for one passphrase. |
| `key_misread` | passphrase mode, one start at a time, failing reads | Violated: the salt is overwritten, and the owner locked out. |
| `memory_overlap` | 2 requests at a time, of which one may store and the other read, and either forget and purge; 2 scopes, 2 contents, no TTL or one that wraps around on the late clock, 2 memories, 2 instants; no overflow checks | Does the table with its lazily purged rows, read row by row, implement `ScopedMemory`? Are reported ids right? |
| `memory_id_race` | 2 requests that may both store | Violated: a call reports the id of another call's memory. |
| `memory_purge_label` | 1 request, a padded label for purge | Violated: the purge deletes nothing. |
| `plain_store` | 2 processes, 1 content, 2 scopes, pages of 1 and 2, 3 memories, time stamps in any order, a new or an old file | Migration, ids, and paging with the other process writing between any two statements: what is missed (`SweepMissesFew`), what comes twice (`NoMemoryTwice`) |
| `text_match` | all contents and queries of up to 3 characters of 6; all lists of up to 2 tags of up to 2 characters, all filters of one tag | Does a search find every memory it should, and no other? |

Why the bounds are enough to meet the interesting cases. Two tasks are the smallest number
with an overlap, and every race the code has is between two. Two keys let a forgotten
person be given a fresh one; two persons let a lost race leave one behind. The bound
`MaxTime` (1 or 2) lets a row expire before, during and after a call; `MaxId` lets an id
be stored, deleted and stored past; `MaxInt` 1 makes the deadline of a TTL of 1 overflow
on the late clock and fit on the early one (that the product with `Millis` overflows is
left to the proof). The clock and two attributes together are too many states for two
tasks, so `person_concurrent` has no clock and `person_serial` has. Two memories are
enough for a read to have got one when the other goes away, appears or expires. Supplies
of random values bound the length of a history: when they are used up the drawing actions
stop. Four random values in `key_custody` are a first run of a mode whose two values are
made, with the TPM key, and one more value drawn by whatever goes wrong. The mutants of
its definitions, each of which is caught within the bound, show that it is long enough.
Three characters are a term between two others or two terms with a blank between them; two
tags are the smallest list with a comma in its JSON text. Three memories in `plain_store`
make up to three pages of one, or two pages with an insert or a deletion between them or
inside one.

Where references are not enforced, the runs about overlap are `person_forget_race` and the
theorems: `Shredding`, `Readability`, `ReadsAreClean`, `IdentifiersStay` and
`DirectoryIsImplemented` hold for both values of `ForeignKeys`.

### What the violated runs show

1. `resolve_or_create_person` is a check and an act in separate statements, and
   INSERT OR IGNORE hides the lost race (`store.rs:349`): the loser holds a person that no
   identifier leads to.
2. `forget_person` (`store.rs:535`) runs four DELETEs without a transaction: where
   references are not enforced, what is written for the person in between may stay, and
   the caller is told Ok. The run ends with an identifier that `link_identifier` inserted
   after the DELETE of the identifiers; it leads to a person that has no row. What was
   there when the forget began is nevertheless unreadable: that is `CryptoShred`, which
   holds.
3. `load_or_init_dek` (`keys.rs:43`) does not exclude a second process at its first run
   (`key_race`). `read_or_create_salt` (`keys.rs:22`) takes every error of `fs::read` for
   a first run (`key_misread`): the run ends with the second start truncating the salt it
   could not read for a moment, as when another program holds the file open. The wrapped
   key is whole, and no passphrase unwraps it any more. Line 43 does the same to the
   wrapped key; the keystore mode is careful about it (`custody.rs:99`).
4. `store_memory` (`store.rs:217`) takes the id from the shared connection after an await.
5. `purge_scope` (`store.rs:308`) is the only place that does not trim a label.

### What the passing runs leave out on purpose

`get_attributes` opens every row it has read and fails at the first that does not open
(`store.rs:523`). After a `forget_person` that broke off behind its first DELETE the old
rows are still there, and the next `add_attribute` or `get_attributes` mints a new key:
from then on every read of the person fails, also of what was added since, until the old
rows expire or a forget gets further. So it is with a row that an overlapping
`add_attribute` inserts under a key the forget has taken; enforced references refuse the
row once the person's row is gone, and before that make the forget return an error.
`PersonDirectory` says so (`failing`): it promises that a read of a person no forget has
ever touched never fails, and that no read, of whomever, answers a fact that was taken.

`ImplementsDirectory` is about the tables as a call finds them that no other overlaps. Of
overlapping reads `NoPoisonedRead` and `NoErasedAnswer` speak: one that has read its rows
before a forget and its key after it fails, and does not answer them.

A deadline beyond the largest integer wraps around in a release build, so that the memory
is hidden at once though `main.rs:46` says it expires after its TTL. `ScopedMemory` lets
such a deadline be any instant, and so nothing here says that it is right; a TTL that
large is some hundred million years. `ToldIdsNameTheirMemory` of the Rust store speaks of
stores that do not overlap each other, since `memory_id_race` shows it violated otherwise.

`DatabaseOpenable`, `KeysStable`, `ServesOnlyKeyHolders`, `StoredOnce`,
`OwnerNeverRefused` and `OwnerIsServed` speak of histories in which no two starts
overlapped and no read of a file failed (the history variable `disturbed`): the violated
runs show that the code gives no such promise otherwise. `SealedStayOpenable` is about all
histories.

`FindsEveryMatch` excuses memories with a capital letter outside ASCII, which SQLite's
LOWER leaves as it is: no term in lower case matches it. `FindsOnlyMatches` excuses `%` and
`_` in what is asked, which LIKE takes as wildcards; a filter by the tag `,`, which matches
every memory with two tags, since `","` stands between them in the JSON text; and memories
with a quote within a tag, whose rest looks like a tag of its own. TLC finds each of these
when its condition is taken away, and nothing else on the instance.

`query` of the TypeScript store counts and selects in two statements (`db.ts:261`), so
`has_more` may be wrong for a page in which another process wrote between the two. A
deletion there makes the count too large, which costs the client an empty page at most. A
match stored there makes it too small: with pages of one, when a client that was answered
the newer of two memories asks for the next page and a third is stored between the count
of two and the SELECT, it is answered the newer one again, told that there is no more, and
misses the older. The offset of the next page counts rows that may be gone by then: each
match deleted before it makes the client miss at most one. `SweepMissesFew` says that it
misses no more than these two come to: one for each match deleted before its offsets, and
one for each stored between the two statements of its last page. A match stored before
what a client has got pushes some of that into its next page, and `NoMemoryTwice` excuses
a client from then on. Offsets can promise neither.

## 4. Fairness and liveness

`KeyCustody` is the one module whose specification has a fair form, `FairSpec`: a process
that is in the middle of a start takes its next step unless it is killed (`WF_vars` of
`Continue(p)`). That is the scheduling of sequential code that waits for no one: nothing
in `resolve_keys` or `Store::open` is a lock, a queue or a retry. No start is assumed to
happen, and no kill to cease. Under this, `OwnerIsServed` says that whoever made the
database and starts with the same settings is serving it in the end, if the process is not
killed: no kill or cut-off write at any earlier point has left a place that stops it. That
he is never refused is a property of the steps, `OwnerNeverRefused`, and is proved;
`OwnerIsServed` adds that a start does not come to a step that cannot be taken. The bound
`MaxDrawn` does not make it vacuous: once a database exists, the start of its owner draws
nothing.

The stores have no liveness property. Every method ends after a fixed number of
statements, there are no retries, waits or queues, and nothing they promise is of the form
that something eventually happens: an expired row is hidden at its deadline by the reads
themselves, which is part of `ImplementsScopedMemory` and `ImplementsDirectory`, and is
deleted only when a process next opens the store.

## 5. Theorems

| Theorem | Statement | Assumes |
|---|---|---|
| `PersonStoreProofs!TypeCorrect` | `TypeOK` | |
| `Shredding`, `Readability`, `ReadsAreClean`, `ErasedIsNotAnswered` | `CryptoShred`, `UntouchedReadable`, `NoPoisonedRead`, `NoErasedAnswer` | |
| `IdentifiersStay` | `IdentifierNeverMoves` | |
| `ForgetIsCompleteEnforced` | `ForgetErasesFootprint` | `ForeignKeys` |
| `PersonDirectoryProofs!DirectoryIsImplemented` | `ImplementsDirectory` | |
| `PersonSerialProofs!ResolvingIsIdempotent`, `ForgetIsCompleteSerial` | `ResolveIdempotent`, `ForgetErasesFootprint` | `OneTask`: one caller at a time |
| `KeyCustodyProofs!TypeCorrect`, `SealedBlobsOpen` | `TypeOK`, `SealedStayOpenable` | |
| `DatabaseStaysOpenable`, `KeysAreStable`, `OnlyKeyHoldersServe`, `StoredIsKept`, `OwnerIsNeverRefused` | `DatabaseOpenable`, `KeysStable`, `ServesOnlyKeyHolders`, `StoredOnce`, `OwnerNeverRefused` | (the properties themselves speak of undisturbed histories) |
| `MemoryStoreProofs!TypeCorrect` | `TypeOK` | |
| `Implementation` | `ImplementsScopedMemory` | no padded label in a purge |
| `ToldIds` | `ToldIdsNameTheirMemory` | `OneStore`: calls of `memory_store` do not overlap each other |
| `PlainStoreProofs!TypeCorrect`, `Migration`, `ToldIds`, `PagesMissFew`, `PagesDontRepeat` | `TypeOK`, `ServingIsMigrated`, `ToldIdsNameTheirMemory`, `SweepMissesFew`, `NoMemoryTwice` | |
| `TextMatchProofs!EveryMatchIsFound`, `OnlyMatchesAreFound` | `FindsEveryMatch`, `FindsOnlyMatches` | (the properties themselves name the texts they excuse) |

Besides these, the proofs use only the named ASSUMEs of the modules: the null values are
outside the sets they stand beside, bounds are natural numbers, labels and limits have
their types. The sets of tasks, processes, persons, keys and scopes may be of any size,
infinite included. Each assumption of the table is one the code does not establish, and
without it a violated run, or a note under `hazards`, shows what goes wrong.

The inductive invariants:

- `PersonStoreProofs!KeyInv`. `CryptoShred` is not inductive: a task may hold a key it
  read before a forget and may write a row under it. What makes it hold is that a key,
  once drawn, is never drawn again (`KeysDrawn`), so that after the first DELETE no minted
  key can be a condemned row's. `UntouchedReadable` needs to know what the calls hold:
  until a forget touches a person, the key a task is about to write under is the stored
  one, and the rows a task has read are under it (`CallKeys`). That MintKey is a plain
  INSERT, which fails for the loser of a race, is what keeps it.
- `FootprintInv`. With enforced references every row that names a person implies the row
  of the person, so deleting the person's row last is the proof that nothing is left; the
  other half is that a forgotten id is never drawn again (`PersonsDrawn`).
- `PersonDirectoryProofs` needs to know of a step that it changes at most one thing the
  directory shows: minting a key makes nothing readable, since no row is sealed under a
  key that was never drawn, and by `UntouchedReadable` a person no forget has touched has
  no row that does not open; the first DELETE of a forget makes all of the person's rows
  unreadable, and its second takes them and the failing with them. A row inserted under a
  key that a forget has taken is `Lose`. The references need not be enforced for this, and
  any number of tasks may overlap.
- `ErasedIsNotAnswered` needs `RowsRead` besides `KeyInv`: a read holds rows of its own
  person. A condemned one among them is under a key that is not the stored one
  (`CryptoShred`) and was drawn (`KeysDrawn`), so that no key the read may yet mint opens
  it.
- `PersonSerialProofs!SerialInv` says of the one call in progress what the tables look
  like where it stands: which identifiers are unseen until its INSERT, and which of a
  person's rows are gone after each DELETE.
- `KeyCustodyProofs!SealInv`: what is sealed, or about to be written, is under the TPM key
  that exists; nobody takes its name from it. `CustodyInv` adds, for undisturbed histories,
  what the one process that is starting knows of the places (`Sees`), that the database's
  key is in the place of its mode behind its lock, and that everything `resolve_keys` ever
  returned is still where it was read (`Calm`). A start is disturbed by another only while
  both are under way, so the first step of a start finds the places at rest.
  `ReturnedInv` adds that the database was made with keys that `resolve_keys` returned to
  its owner, so that, by `Calm`, both of the owner's places hold values that open
  with his locks: whichever step of a start finds them, it has nothing to refuse him for.
- `MemoryStoreProofs!Implementation` maps the abstract memories to the rows that have not
  expired; a sweep and a reopening are stutters, a Tick removes what expires at it, and
  each `FetchRow` is one. `CursorInv` is what a cursor in progress knows: what it has got
  are rows that existed and that it selects (`Backed`), newest first, and of what has
  existed throughout it has left out nothing newer than its last row (`Rooted` ties what
  existed throughout to the table). So when it has come to the end, or to its limit,
  the answer is one that `ScopedMemory` allows. The lemma `DeadlineIsPromised` is the
  arithmetic: a deadline that fits is computed without wrapping. `IdInv` is about the ids
  issued and the store in progress.
- `PlainStoreProofs!PagingInv`: while a client goes on asking, no more of the matches it
  is owed rank before its next offset than it has lost, and the count of a page in progress
  is too small by no more than came late; afterwards it is owed no more than the two make
  together. The lemmas on
  ranks carry it: no two rows share one and they leave no gap (`RanksDiffer`,
  `RanksAreDense`), so that a window of OFFSET and LIMIT moves the offset past exactly what
  it returned (`WindowSize`, `WindowRanks`), a store only moves ranks up, and a deletion
  lets no more rows slip past the offset than it takes from before it (`MovedUp`).
- `BehindInv`: everything a client got ranks before its next offset. A window begins at the
  offset, so it holds none of it (`PagesDontRepeat`).
- `TextMatchProofs!MatchInv`: the row is what `Store` makes of what was given, and the
  answer what `Matches` makes of the row. The theorems then are about the algorithm, for
  texts and lists of tags of any length over any alphabet. The definitions that go along a
  sequence (`Like`, and `FlattenSeq` of the community modules) are recursive functions;
  what they come to is shown by induction in the form of a least counterexample
  (`NatMin`, `SetInduction`, `RecursiveFunction`), since an induction theorem that takes
  an operator cannot be used here. `FlattenOffsets` then says where each piece of a
  flattened sequence stands, and `LikeSteps` what each character of a pattern can reach.
  The rest is the argument why the quoted token is a good thing to look for:
  `TokenPrefix`, no token is the beginning of another one; `JsonArrayTokens`, an array
  holds nothing but tokens with commas between them; `TagOnly`, so a token that is found
  in an array either is one of its own or lies between two quotes of different tags, where
  only a comma stands. Had a tag of the memory a quote, that would be a third place.

Only model-checked: `OwnerIsServed`, a liveness property, which is out of the prover's
reach. Every other property of a passing run is proved.

## 6. Plan

Done, in this order: identity layer, memory layer with its abstract specification, TypeScript
store and their proofs; then `KeyCustody` (which took the place of a model of the
passphrase mode alone), `TextMatch`, `PersonDirectory` and the proofs about one caller at
a time; then the proofs about `TextMatch`, about what a client that pages can miss and get
twice, and that the owner of a database is never refused; then reads that step a cursor,
integers that wrap, and reads that fail for a leftover of a forget.

Open:

1. `PlainStore` as an implementation of an abstract paged memory.
2. The composition of `KeyCustody` with the identity layer's pepper: nothing in the code
   compares the pepper of a start with the one the blind indexes were made with.

## 7. Not modelled

- `format.ts`: wording and layout of answers, without state.
- `error.rs`, `lib.rs`: declarations. `test/smoke.mjs`: read as a source of expected
  behaviour.
- `crypto.rs` and `pseudonym.rs` are modelled by their contract only: the ciphers, the
  binding of AAD, HMAC and the canonical forms of identifiers beyond trimming and case.
Not planned: the ciphers and HMAC themselves, Argon2 parameters, zeroizing of memory, the
MCP protocol and its schemas, rendering and logging.
