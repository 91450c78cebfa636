# pve-meta in TLA+

A verification development of pve-meta: metadata documents kept per guest under
`/etc/pve/meta`, edited through a REST API and a CLI, kept in step with the life of the
guest by hooks patched into Proxmox VE, and (deprecated, still shipped) written into
containers as files.

## The system

| component | state | operations | hard part |
|---|---|---|---|
| document store (`store.rs`) | `<vmid>.yaml`, `<vmid>.<snapshot>.yaml` | put_raw, delete, snapshot, rollback, delete_snapshot, purge | purge is several unlinks; a stale copy of a reused snapshot name |
| document API (`api.rs`, `Meta.pm`) | none of its own | PUT (replace, merge), DELETE (view, whole) | read, plan, write under a lock; a digest is optional |
| CLI (`bin/pve-meta`) | none | set, merge, delete, rm, scan-notes | the vmlist is checked inside the lock; scan-notes rewrites guest configurations |
| lifecycle hooks (`AbstractConfig.pm.diff`, `Hooks.pm`, `pve-meta-perl/src/lib.rs`) | `/run/pve-meta/<vmid>` and `<vmid>.existing` | create, restore, destroy, snapshot, rollback, delsnap, every config write | two lock levels, hooks that may be missed, markers that outlive a task |
| backup notes (`backup.rs`, vzdump patches) | a block in the guest's notes | export, import, strip | which of several blocks counts |
| guest files (`pve-meta-guest-files`) | the manifest in the guest, the daemon's memory, a flock | the poll loop, hand-run sync, operators' hand-overs | a read, a decision and two writes, several `pct` calls apart, while the guest runs; a cache of the documents in the daemon |
| views, patches, lint (`view.rs`, `patch.rs`, `model.rs`) | - | pure | comment keys, null semantics |
| prefix registry, shapes (`registry.rs`, `shape.rs`) | prefix files, packaged and cluster | load, resolve, findings | which file a read and a write mean; which finding is new |
| browser editor (`60-doc.js`, `61-text-card.js`, `62-tree-panel.js`, `56-text-window.js`, `41-monaco.js`) | digest and data of the document shown, the open editor's input, requests in flight, whether the text editor has loaded | load, edit, apply, revert, Save anyway, conflict re-read | answers that land after the user moved on; unwritten work kept over a 409 |
| wasm, page layout, pve-ext loader and patcher | - | presentation, packaging | - |

How they meet: an API request or CLI command takes the cluster-wide lock
`pve-meta-<vmid>`, looks the guest up in the vmlist, and calls the Rust core, which reads,
plans and writes the file. PVE's own tasks hold the node-local guest lock
(`lock_config`) and call hooks that take the document lock inside it (config writes,
destroy) or after it (create, the snapshot trio). A hook that fails only warns. The
guest-files daemon reads documents under no lock and never writes them; it shares a
per-container `flock` with `sync` and with operators.

## Modules

| module | models | used by |
|---|---|---|
| `MetaStore` | the files of one guest and what each store operation does to them | `MetaLifecycle` |
| `MetaEdit` | what one request asks, and the plan, repair and nothing-changed rules | `AtomicDocument`, `MetaLifecycle` |
| `AtomicDocument` | the abstract promise: a request is one atomic edit of the document under the digest it named, or nothing | refined by `MetaLifecycle` |
| `MetaLifecycle` | the processes, both locks, the vmlist, config writes, markers, hooks, rm, scan-notes, faults | `MCMetaLifecycle` |
| `MetaLifecycle_proofs` | theorems: types, the document lock, the refinement of `AtomicDocument` | `MetaGuest_proofs` |
| `MetaGuest_proofs` | theorems: who owns the configuration, who owes a purge, where a marker can be left | `MetaSnapshots_proofs` |
| `MetaSnapshots_proofs` | theorem: copies and snapshots | |
| `DocumentPaths` | documents as ordered maps, the walk of a view through them, and what replace, merge and remove do at its end | `DocumentTree` |
| `DocumentPaths_proofs` | theorems: a write lands at its view and nowhere else | |
| `DocumentTree` | trees as a whole: merge patches, diff, notes, lint, the plan of a write | `DocumentViews`, `Shape` |
| `DocumentViews` | one document under GET, PUT and DELETE through views | `MCDocumentViews` |
| `Shape` | schemas: which prefix governs, findings, what a write is answerable for | `SchemaGate` |
| `PrefixRegistry` | prefix files in two directories, their edits and load, a guest's PUT judged by them | `SchemaGate` |
| `PrefixRegistry_proofs` | theorems about it | |
| `SchemaGate` | `PrefixRegistry` with the schemas of `Shape` and the trees of `DocumentTree` | `MCPrefixRegistry` |
| `BackupNotes` | the block in the notes through backup, restore and scan | `MCBackupNotes` |
| `BackupNotes_proofs` | theorems about it | |
| `DocumentEditor` | one panel of the browser editor against the API and another writer | `MCDocumentEditor` |
| `DocumentEditor_proofs` | theorems about it | |
| `GuestFiles` | one container's files, manifest, syncers, daemon and guest | `MCGuestFiles` |
| `GuestFiles_proofs` | theorems about it | |

The modules cut the document at different heights. `MetaLifecycle` is about who may write
when and sees a document as its set of top-level keys; `DocumentViews` is about what one
write does and sees the whole tree; `SchemaGate` composes `PlanWrite` of
`DocumentTree` and the findings of `Shape` with the registry; `BackupNotes` sees the lines of a notes text, of which
`MetaLifecycle` only knows whether a block is good, mangled or absent; `DocumentEditor`
sees the API from outside, as a digest check. `DocumentTree`, `Shape`, `DocumentViews` and
`SchemaGate` walk whole trees by recursive operators and are for TLC only; the loops over a
path (`Cur`, `Made`) and over the blocks of a notes text (`Rounds`) are functions on the
number of rounds.

### MetaStore, MetaEdit, MetaLifecycle

A document's text is abstracted to whether it is there, whether it parses, and its set of
top-level keys; two texts have one digest exactly if they agree on those. The field `gen`
of a file is history: the incarnation of the guest it was written for. No guard reads it.

A process is in a *job* at a *label*, and the labels are the points between which another
process can run:

* request and rm: `want` (waiting in `cfs_lock_domain`), `check` (vmlist), `read`, `write`,
  or `purge`, `sweep`. `Refuse` stands for each error answer and for a dry run; the ones
  that depend on data left out (permission, lint, schema, availability) are always possible;
* config writes: `config` is the patched head of `write_config` (take the marker, decide
  between import, clear and nothing), `file` the `cfs_write_file` after it. A create goes on
  to its hook, `mark_created`, and the several writes of a create or restore (`BuildWrite`:
  the bare locked skeleton, the configuration with the backup's notes, the unlocking write),
  or is cleaned up by `AbortCreate`;
* hooks: `hookwait`, `hook`, `hooksweep` are `locked_warn` and the two halves of purge and
  of a restoring import. `HookMiss` is its soft failure.

`Die` ends a process anywhere, `Garble` is a hand edit that no longer parses. Hand edits
take no lock in reality; here they happen only while no writer holds the document lock,
which is an assumption and listed among the hazards. Code of PVE that is not in the
repository (lock_config, check_lock, the order of a restore's writes, one configuration
per vmid in pmxcfs) is modelled from how the patch and its comments use it.

### DocumentPaths, DocumentTree, DocumentViews

A value is a tagged tuple, a map a sequence of its entries in file order; a key is a name
and how many `__` follow it, so that notes and their subjects are arithmetic and not
strings. Numbers are integers, and the text of a file is identified with its ordered tree:
whatever `format::dump` writes is read back as that tree. `Splice` is `descend_creating`
and the insert after it, `Done` and `Refusal` the two outcomes of every operation.
`ApplyEntry` has the four arms of `apply_obj`, in their order. `PutDocument` and
`DeleteDocument` run parse, plan, lint and write in one step, since the lock around them is
`MetaLifecycle`'s subject; `last` keeps the request, the file it met and the answer until
`Return`.

### Shape, PrefixRegistry, SchemaGate

A schema node is a record of the keywords the loader checks and `check_value` reads;
`default`, `description`, `format`, `multiline` and `optional` are left out (the loader
checks only the type of each, and none of them reaches a finding the server enforces). A file is none,
garbled or a text with the fields of `RawPrefixDef`; its digest is the file itself. An
edit is `EditBegin` (the precondition), `EditRead` (the read, which looks at the file anew,
and the repair rule), `EditPut` (put_raw's digest check) and `EditWrite` (its rename), or
ends in `EditRemove` or `EditAnswer`, with upgrades, hand edits and guests' requests between
any two of them: API requests for one prefix exclude each other by the lock, packages and
editors take none. `raced` is history: a change of the file since the precondition, or since
put_raw's check. To locate the effective file and to read it is one step. A
guest's PUT is `PutBegin` (tags, node and names listed), one `LoadPrefix` per file in the
order of names, and `PutDocument`; `quiet` remembers that nothing moved since.

How files are edited and loaded does not depend on what a schema or a document looks like, so
`PrefixRegistry` takes that as four parameters: `LoadsAs` (a schema passes
`check_schema_dialect`), `Plan` (`plan_write`), `LintOf` (`model::lint`) and `Answerable`
(what `check_enforced` finds). `registry.cfg` gives them `CheckSchemaDialect` of `Shape`,
`PlanWrite` and `Lint` of `DocumentTree` and `AnswerableFindings` of `SchemaGate`; the theorems hold for
every choice.

### BackupNotes

Notes are a sequence of lines, each of the kind the parser tells apart. `FindAt` and
`Block` are `find` after `last_header`; `Strip` takes the blank lines with the block, as the
trims of `strip` do. `Restore` is the marked write of a restore over the guest,
`RestoreNew` the one at a vmid whose create hook has cleared it, `RestoreElsewhere` the
same archive on a host without pve-meta, where the block stays as text.

### DocumentEditor

`state` is `docState` (digest and parsed data), `rows` what the tree shows, `text` the
original and the buffer of the Text card, `editor` the open window with the data it opened
on. A digest is the text it belongs to, and `Missing` is no document, whose digest is empty
(`SetDigest` does not take it, `loadDocument` and `conflictInEditor` do). A read is in `reads` from the request until its
answer is applied, and is served in between, so an answer can be old when it lands. `met`
of a write, `saw` and `shown` of an editor are history: what the user has seen of what the
write replaces. To enter Text is a read (`EnterArrives`: digest and original) and then the
load of the text editor, which shows the buffer (`EditorShows`) or rejects and leaves the tree
with the digest just read (`EditorFails`, until it has loaded once: `monaco`); `apart`
remembers that until the next load. The editor of a list member reads the document as the list: its keys are the
members, and `WriteListMember` sends all of them as the panel holds them now, one replaced,
or nothing if that member is not the one its row showed. `Patient` says that the user starts nothing while a read is under way or
an error covers the panel. The code does not see to that (the mask covers the body, not the
bars); what it costs is the run `stale_digest`.

### GuestFiles

`want` is the guest-files section of the document as `of_document` reads it: nothing,
held, or one `Ask` per entry (absent, refused, or a file with path, content hash and
`overwrite`). What is above a path is directories, nothing, a symlink or something else in a
directory's place, and the path then leads to nothing, a regular file with a hash and the
right or wrong mode and owner, or neither (`Node`); `Assess` judges the two together, as the
probe does. A sync is `TakeFlock`, `ReadManifest`, `Inspect` (probe and plan), `MakeDirs`,
for each file operation `CheckOp` (the temporary file and the check of the file) and
`ApplyOp` (the rename or the removal), or `ChangedOp` or `FailOp`, and `WriteManifest`;
`GiveUp` and `Killed` end it with nothing recorded. The operations of one commit touch
different paths and are taken in any order. As in the script, `MakeDirs` looks only at
directories the probe found missing, and `StillAsSeen` only at the file itself, so a parent
swapped for a symlink is written through. A poll is `Poll` (which containers run, then the
digest), and `QueueDue` or `NotDue`, with the document read in between unless its files are in
`cache` under that digest (`Filed`); `PollFails` drops the cache with the poll. `QueueDue`
leaves open whether the drift or retry time has come. `ours` is history: the paths whose
content a sync put there, that nobody changed since, and whose record nobody took away; a sync
cut off in its commit takes `Unrecorded` out of it, the paths whose record it had not written
yet. So is `late`: the paths the guest wrote between an operation's check and its rename.

## Runs

All bounds are constants. For the lifecycle: processes, nodes, keys, snapshot names,
incarnations (`MaxGen`), faults. Two processes are the smallest number that interleave, and
each lock has at most one holder and one waiter that matter; two incarnations are needed
for a vmid to be reused, two nodes for anything that only one node's guest lock excludes; a
second snapshot name adds nothing to one that can be taken, deleted and taken again (that
it does not is proved, see `RollbacksFindTheirCopies`). For
guest files: entries, paths, contents, edits, guest edits, boots, failing operations,
faults; two contents tell "as wanted", "as recorded" and "neither" apart, since the wanted
content changes. For trees: two plain keys, a note on one, the bare note, a key outside the
charset, lists with notes inside, views of depth up to two, documents of up to six values
(`MaxValues`, where every combination of a note, its subject, a nested map and a list
occurs). For the registry: a prefix and one below it (shadowing needs two), a tag, two
nodes, and two changes (`MaxChanges`), an edit and what disturbs it. For
notes: up to three pieces, so that a good block stands before, between or after anything
else, and one line taken out by hand (`MaxEdits`). For the editor: two keys (an edit here
and a change there), two values beside unset, two changes by others and one
failure, of a read or of the text editor's scripts.
Deadlock is checked in every run: a server can always take up a request, the daemon always
polls, and the user can always do something.

| run | checks | shows |
|---|---|---|
| `guest` | SettledGuestOwnsItsFiles, DeadGuestLeavesNothing | nothing of one incarnation reaches the next, with one fault |
| `notes` | PurgeSparesTheLiving, PastedBlockStaysOut, NoMarkerOutlivesItsCreate, OnlyCreateMakesAGuest | the marker protocol of a restore, with one fault; rm and a late purge never meet a live guest's document |
| `requests` | PlannedWriteIsFresh, RollbackMatchesSnapshot, RequestsAreAtomic | requests are atomic against the hooks; copies follow snapshots, also through a restore over the guest, when tasks do not overlap (`Serial`) |
| `progress` | DocumentLock, RequestsAreAnswered, DocumentLockIsLetGo | the lock across two nodes, two creates racing for one vmid; no deadlock between the two lock levels. What a document holds plays no part here: `Keys` is empty |
| `files` | TypeOK, LocalEditsSurvive, WritersStayApart, OwnFileIsNoLocalEdit | a guest's edit is not lost to a sync not told to overwrite, unless it was made between the check and the rename of that very operation; writers sharing a path refuse each other, the manifest stays right through partial failure |
| `converge` | FilesConverge | the poll loop brings a watched container round, unless its cache has come to file other files under the document's digest |
| `tree` | TypeOK, TouchedTellsTheWrite, NotesFollowTheirKeys, StrippedReadWritesBack, ReplaceStoresThePayload, MergeIsRfc7386, NullsOnlyDelete, MergeTwiceIsOnce | what a write answers is what it did; notes go and stay with their keys; merges against RFC 7386 as a reference definition |
| `registry` | TypeOK, FindingsAreWhatIsWrong, IndexIsSchemaAt, RefusedForOwnChanges, UnforcedWritesKeepTheSchema, NamedDigestIsAtomic, EditsKeepItLoading | the walks of `shape.rs` agree with a path-by-path reference; the 422 gate is neither too wide nor too narrow; edits of prefix files, step by step, against upgrades and hand edits |
| `backup` | CarriedDocumentComesBack, UserTextStays, NoBlockLeftToImport | a document survives backup and restore whatever the notes hold |
| `editor` | NoLostUpdate, RowsMatchTheDigest, MemberEditsSpareTheRest, UnwrittenTextIsKept | conflicts, refusals and failures lose neither the other writer's change nor the user's text |

Fairness. `progress`: weak fairness of each running process; PVE workers and CLI commands
run to their end, and `cfs_lock_domain` gives up after its timeout (10 s), which is what
`LockTimeout` and `HookMiss` are. Nothing is assumed about who gets a free lock.
`converge`: weak fairness of the poll and what follows it, of the skip of a queued container,
and of every syncer's next step; the loop in `Daemon::run` has no way out and a `pct` call is
killed after 120 s. `QueueDue` is strongly fair: it stands for a poll that finds the drift or
retry time come, and both are finite after every sync, so of infinitely many polls at which a
watched container runs one is such. The other runs check safety and assume none.

### Where the code and its documents part

Two runs end in a violation of what a document or comment says.

| run | what happens | said where |
|---|---|---|
| `destroy_race` | the destroy hook purges the document of a guest created again on another node | AbstractConfig.pm.diff:114 |
| `stale_digest` | Reload is pressed, Edit opens from the toolbar while the load is in flight, someone else writes, the load lands under the editor and hands it the new digest, and OK writes over the change nobody showed; Text entered while a load is in flight meets the same | DESIGN.md:19, 60-doc.js:80 |

Met while modelling, and left out of the passing runs by a constant or a hypothesis that is
named here, or let in and excepted by the property named. Each breaks a property, or a sentence
of a document, without that.

* A PUT to a guest just created is lost to its create hook, which runs after the guest is
  in the vmlist and its lock is gone (AbstractConfig.pm.diff:78; LIFECYCLE.md:74-76).
* A rollback's hook may run after that of the delsnap that followed it, and removes the
  document for want of a copy (AbstractConfig.pm.diff:155; `Serial = FALSE` in `requests`).
* A remote scan writes a destroyed guest's configuration back, or an old snapshot list
  (bin/pve-meta:393; two nodes in `notes`).
* A missed delsnap hook leaves a copy that a later snapshot taken without a document does
  not clear (`MaxFaults = 1` in `requests`).
* A mangled block, or notes that merely mention `[pve-meta v`, restored over an existing
  guest: neither imported nor cleared, the old document stays (AbstractConfig.pm.diff:33,
  52; LIFECYCLE.md:131-134 says it goes). SettledGuestOwnsItsFiles excuses it through
  `missed`, CarriedDocumentComesBack through `Mentions`. The old snapshots' copies stay as
  well: a snapshot of that name taken from the restored guest without a document, and rolled
  back, brings the old guest's document back. RollbackMatchesSnapshot excuses it the same way.
* A create that died leaves its marker for a block pasted later (PastedBlockStaysOut
  excuses it through `missed`).
* A `mark_created` or a companion marker that fails only warns (AbstractConfig.pm.diff:87-105):
  `MarkCreated` may miss either, is then a fault like a missed hook, and the restore takes no
  document or clears none. That the marker cannot be *taken*, or its companion not removed
  (AbstractConfig.pm.diff:38-40, an `unlink` under /run failing), is not modelled; it would stay
  for the next write of the guest, against NoMarkerOutlivesItsCreate.
* A restarted daemon forgets containers whose document has no guest-files any more though
  their manifest has records (daemon.rs:102; GUEST-FILES.md:106-107).
* A guest's write between the commit script's hash check and its rename is lost
  (pct.rs:185-187; LocalEditsSurvive excuses it through `late`). A directory above a file that
  is swapped for a symlink after the probe is written through: the script looks only at
  directories that were missing (pct.rs:171-176, plan.rs:340-343), where plan.rs:6-9 says
  "A write lands where the document names it or not at all". In the runs such a write happens and
  LocalEditsSurvive is about what stands at the path itself; where the symlink leads is nobody's
  property, and such a file does not count as the sync's own.
* The daemon files the files it reads of a document under a digest it read just before
  (daemon.rs:195, 201). An edit between the two that is undone before the next poll leaves
  the wrong files under a digest that matches for as long as the document stays, and every
  drift sync writes them. FilesConverge excuses that state and no other (`Misfiled`).
* A call killed between the commit and the manifest leaves
  a sync's own file without a record, and so does a guest that removes the manifest while a
  sync runs whose records come out as they were, so that nothing is written back (guest.rs:103).
  OwnFileIsNoLocalEdit does not count such a file as the sync's own. A manifest above 1 MiB is
  a read error at every poll, where GUEST-FILES.md:71-73 says it is distrusted (`Meddling`
  with `"huge"` in `converge`).
* A stripped read written back drops a note without a subject and every note inside a list
  (view.rs:278-279 says "the same bytes"); StrippedReadWritesBack asks for documents whose
  notes are about something.
* An older good block that stands before a malformed one stays in the notes after an
  import (LIFECYCLE.md:124 says "without any block"); NoBlockLeftToImport speaks of blocks
  a scan would take. A header and an end line left over from a block taken apart by hand
  become one again when what stood between them is stripped (`TakenApart`, which also takes
  out notes that hold a whole block of another version). A document saved by hand that ends in no
  newline or in several comes back ending in one (backup.rs:118 and 294); the model of the block
  does not see line ends and takes that as the identity.
* A document that parses and does not lint is carried by a backup and refused by the
  restore (backup.rs:239-240 says a backup carries "a document the restore can write").
* put_raw looks at the digest and renames in two steps, and the precondition and the read are
  two looks at the file (store.rs:376 and 382; api.rs:583-584). A package upgrade or a hand
  edit takes no lock: between the first two it is written over, between the other two, if it is
  undone before put_raw looks, it is what the edit was made of. NamedDigestIsAtomic names both
  windows by `raced` and claims the rest; the first is in the `registry` run, the second needs
  one change more than it has.
* A whole DELETE that named a digest unlinks the file without looking at the digest again
  (api.rs:751); an upgrade or a hand edit since its read goes unseen. NamedDigestIsAtomic
  leaves whole deletes out.
* A registry changed while a PUT loads it is judged file by file; UnforcedWritesKeepTheSchema
  speaks of a PUT nothing disturbed.
* In the editor: when the text editor does not load, the digest of the read before it is kept
  (61-text-card.js:101, 138-142) and the tree comes back with the rows it had, so the next edit
  of a row passes the digest check against a document its user never saw (DESIGN.md:19). A read
  that fails on the way into Text takes off the mask an earlier failure put over old rows. The
  editor's properties except both until the next load (`apart`), and both are in the run.
* `setDigest` ignores the empty digest of a document that is gone (60-doc.js:43): the Text card
  shows an empty buffer and each Apply is a 409, or writes over the old text if that came back.
  NoLostUpdate excepts an empty original.
* A conflict's re-read that lands after Cancel leaves a reload owed and the rows old; what is
  typed while the refresh after Apply is in flight is lost. `Patient` keeps both out.

The windows are narrow; the runs say they exist, not that they are likely. The passing runs
state the same properties where they hold: RollbackMatchesSnapshot with one task at a
time, PurgeSparesTheLiving and OnlyCreateMakesAGuest on one node, FilesConverge for a
container the daemon watches, NoLostUpdate for a user who waits and
whose text editor loads.

## Proofs

Eight modules of theorems, each for every value of the constants (any number of processes,
nodes, keys, snapshot names, entries, paths, contents, and every bound) from the assumptions
named in the modules they are about. Where a theorem has a hypothesis it is one the code
needs: the run named beside it, or the list above, shows what happens without.

| theorem | states | hypotheses |
|---|---|---|
| `TypeCorrect` | TypeOK of `MetaLifecycle` | - |
| `LockHolder` | DocumentLock | - |
| `FreshWrites` | PlannedWriteIsFresh | - |
| `AtomicRequests` | RequestsAreAtomic, the refinement of `AtomicDocument` | - |
| `GuestsComeFromCreate` | OnlyCreateMakesAGuest | `LocalScans` |
| `MarkersAreTaken` | NoMarkerOutlivesItsCreate | `LocalScans` |
| `FilesBelongToTheGuest` | SettledGuestOwnsItsFiles | `LocalScans` |
| `DestroyedGuestsLeaveNothing` | DeadGuestLeavesNothing | `LocalScans` |
| `PurgesAreOfTheDead` | PurgeSparesTheLiving | `OneNode` (`destroy_race` has two) |
| `PastedBlocksAreNotImported` | PastedBlockStaysOut | `OneNode` |
| `RollbacksFindTheirCopies` | RollbackMatchesSnapshot | `LocalScans`, `Serial`, `MaxFaults = 0` |
| `FilesTypeCorrect` | TypeOK of `GuestFiles` | - |
| `Apart` | WritersStayApart | - |
| `OwnFiles` | OwnFileIsNoLocalEdit | - |
| `EditsSurvive` | LocalEditsSurvive | - |
| `EditorTypeCorrect` | TypeOK of `DocumentEditor` | - |
| `TypedTextStays` | UnwrittenTextIsKept | `Patient` |
| `EditorLosesNoUpdate` | NoLostUpdate | `Patient` (`stale_digest` is not) |
| `RestingTreeIsCurrent` | RowsMatchTheDigest | the same |
| `MemberWriteIsLocal` | MemberEditsSpareTheRest | the same |
| `BackupRestores` | CarriedDocumentComesBack | - |
| `ImportsSpareTheText` | UserTextStays | - |
| `ImportsLeaveNoBlock` | NoBlockLeftToImport | - |
| `RegistryTypes` | TypeOK of `PrefixRegistry` | - |
| `DigestMakesItAtomic` | NamedDigestIsAtomic | - |
| `EditsLeaveALoadingPrefix` | EditsKeepItLoading | `PackagesLoad` |
| `PutsAreJudgedAsItIs` | an undisturbed PUT is judged by the prefixes that reach the guest | - |
| `ReplaceLandsInPlace` | replace changes its view and nothing beside it | `Trees` |
| `MergeLandsInPlace` | the same of merge, and a merge that says it did nothing did nothing | `Trees` |
| `RemoveTakesItAway` | remove takes its view and the note about it, and nothing beside them | `Trees`, no key twice in a map |

`LocalScans` says that scan-notes is not run or there is one node: for a guest of another
node it takes no guest lock and writes an old configuration back. `OneNode` is stronger, one
node whatever is run: the guest lock is a node's own. Faults (missed hooks, dead processes,
garbled files) are unbounded in all but `RollbacksFindTheirCopies`.

### The lifecycle

`MetaLifecycle_proofs`. The inductive invariant is `IInv`, four parts. `DocumentLock` alone is
not inductive: an action that frees the lock must be known to come from its holder, and hooks
and requests reach the lock by different labels, so `Flow` says which jobs, hooks and
continuations go with which label. `PlannedWriteIsFresh` needs more than the equality of the
document: for the refinement, `Planned` also keeps that what a process at `write` read matched
its digest, was repairable, and that its plan is the plan of what it read. Given those,
`WriteDocument` is one `Edit` of the document as it is at that moment. Every other step maps
to `Invoke`, `Reject`, one `Lifecycle` operation or a stutter. There is one lemma per action
and part, so a change of one handler shows up in one place.

`MetaGuest_proofs` starts with one lemma per action that says what it does to its own job
(`BeginMove`, `ConfigMove`, `FileMove`, ...), so that the rest never opens an action's
records again. On these stand, one on top of the other:

* `Ownership`: who is about to write the configuration holds the guest lock of its node and
  knows the guest to be there (`Mine`); while a guest is built its lock line keeps every other
  task out, but for a scan and a create on another node that is going to fail (`Apart`).
  `Pinned` draws the conclusion: nobody moves, removes or unlocks a guest under them.
* `Markers`: an unlocked guest has no marker on its node, and neither has the node of a write
  past the point where it takes the marker and about to leave an unlocked guest.
* `Debts`: unless a hook was missed, the files are those of the guest that is there, or none
  if there is none (`Clean`), or some process still owes a purge (`Debt`). A debt begins
  with an unlink or with a create's first write, is handed from label to label through
  `mark_created` and the writes of a restore, and ends in the second half of a purge or
  import, which leaves everything clean (`SweepCleans`). This needs `Purges`: what a purge
  removed in its first half is still gone in its second. SettledGuestOwnsItsFiles and
  DeadGuestLeavesNothing are what `Debts` says when no create or destroy is under way.
* `Spared`: with one node, the destroy hook's guest lock keeps the next create out; rm saw
  the guest gone, and if one was created since, the document is older than it, because no
  request gets the document lock meanwhile. That needs `Dated`: nothing stored is of an
  incarnation still to come.
* `Blocks`: with one node, the marker of a locked guest belongs to a create still under way
  or to one that died (`MarkerOwned`); what a create writes carries the block of its own
  archive (`Restores`); and a write that is not a create's and would import a block can only
  be the unlock after a create that died (`Takes`).

`MetaSnapshots_proofs`. `Copied` says that a snapshot of the guest has a copy exactly if
there was a document, and no copy is without a snapshot but for the one a delsnap hook is
about to remove; or somebody is in debt. It rests on `OneTask` and on `Sections`: what a task
plans to do to the snapshot sections, and what its hook knows of them later, stays true
because the only processes beside it are requests, rm and scans (`BesideTask`).

### Guest files

`FilesInv`: only the flock's holder is past `queued` (`FlockInv`); the records a sync decides
on are those in the guest, or the guest took them away (`RecordsInv`); an operation still to
be committed has the evidence `plan` found for it, the manifest to be written says what it
will have done, and once its file has been checked that is still as it was seen, unless the guest
wrote it since (`OpsInv`); and the record of each of the syncs' own files is in the manifest,
or while a sync commits in what it read or will write, whichever side of its operation that
file is on (`OursInv`). The last is what OwnFileIsNoLocalEdit needs and the reason why
manifest_after keeps the old record of an operation that failed. `PlanSound` is the lemma
about the decision itself: an operation is planned only on a path no other writer has on
record, and only where nothing is, or a regular file with the recorded hash, or (to replace
it) by an entry or a caller that overwrites; `StillAsSeen` checks the file again in the guest.

### The editor

`ModeInv`: a patient user's panel has at most one read under way, none under a write, and
each in the mode that asked for it. `TextInv`: there is a buffer in Text only, its original is
the text whose digest the next write carries, and a refresh is of the buffer as it still is.
`TreeInv`: rows and data are those of the digest held, unless an error masks the tree or a
reload is owed or under way; an open editor shows, of the keys it writes, what that digest is
of, and so does a write. A failed entry into Text ends that until the next load, which is what
`apart` is for; how often reads or the text editor fail does not matter otherwise.

### Backup notes

Notes and documents of any length. `NotesInv` is the three properties and `Held`: what an
archive holds is what `Assemble` made of notes and a document, and the notes are lines. The
properties are about the step that last imported, so the work is in lemmas about the
operators, in three layers:

* `find`: what it returns is a block as the reference definition `BlockAt` says
  (`FoundBlock`), and with a rendered block appended to any notes it returns that one
  (`AssembledIsFound`). From these `BackupRestores`.
* `strip`: taking the last block out and trimming leaves every other line that is not blank,
  in its order (`OutsideStays`; `Outside` numbers the lines, so order is part of the
  statement). Each line left is traced back to where it stood, and is in a block exactly if
  it was in one before (`SameBlocks`), because no block reaches over the seam: only a header
  and an end line of a block taken apart by hand, `TakenApart`, could.
* `strip_all`: `Rounds` is long enough, since each round but the last makes the notes shorter;
  what one `strip` keeps, all of them keep. The induction over the rounds is on the least
  round at which the claim would fail (`LeastNat`), which needs no induction schema.

### The registry

`RegistryInv`: files and edit have their types, and so has the guest (`FilesInv`, `GuestInv`);
what a PUT has loaded and what it has still to load make up the shape the guest has, as long as
it is `quiet` (`LoadInv`). That is what `PutsAreJudgedAsItIs` says at the end of the load,
and why UnforcedWritesKeepTheSchema may speak of the shape as it is now. The two action
properties follow from lemmas on the steps of an edit. For NamedDigestIsAtomic `EditInv` keeps,
from the precondition to the read, that the file named is the one there unless `raced` says
otherwise, then that it is the one read, and from put_raw's check on again that it is the one
there. `PackagesLoad` says that every file a package ships loads: with one
that does not, removing the cluster file in front of it uncovers it, and no check of
`delete_document` looks at that.

### View paths

`Trees(K, V)`: V is a set of values whose maps have their keys in K and their values in V;
every set of documents is inside one. Along a path inside the view, `Made` is shown by the same
least-counterexample argument to be what `Cur` finds (`SpliceSets`); a path beside the view
leaves it at some segment, where `Insert` of one key changes no other (`SpliceSpares`). A
remove is a splice of the map above its view without two of its keys (`ShiftRemoveDrops`),
and a path that goes on from there by a third key sees nothing of it (`BesideTheKey`).
This is the part of TouchedTellsTheWrite and ReplaceStoresThePayload that is about where a
write lands, for paths of any depth.

### Only model-checked

Liveness (FilesConverge, RequestsAreAnswered, DocumentLockIsLetGo), which is outside the
prover's reach. The properties of `tree` (but for what the theorems on view paths say) and
the four of `registry` that look into documents and schemas (FindingsAreWhatIsWrong,
IndexIsSchemaAt, RefusedForOwnChanges, UnforcedWritesKeepTheSchema): they are about walks of
whole trees, recursive operators that the prover cannot use, and would need an induction
over trees.

## Not modelled, and the plan

Still open, in this order:

1. Theorems: `PastedBlockStaysOut` and `PurgeSparesTheLiving` for several nodes where
   creates and destroys stay on one of them.
2. Migration in `MetaLifecycle`, and the expiry of a document lock (a holder that outlives
   its lock).
3. In `DocumentEditor` list members added and removed, and a panel destroyed with requests in flight.
4. Notes on notes (`a____`) in the instance of `tree`; the definitions cover them.

Left out for good: page layout and wasm bindings (presentation over the same core), the
meta-schema the browser shows for a registry document (`metaschema.rs`, constant data),
`format:` checks (the browser's alone), the version token, the pve-ext loader and patcher and
the Debian packaging (installation), YAML and JSON reading and printing (library code),
size caps of the store (one more refusal, which `MetaLifecycle` has), audit and log lines.
