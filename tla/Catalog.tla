------------------------------- MODULE Catalog -------------------------------
(***************************************************************************)
(* The image catalog: catalog.json, changed by the manager's calls under   *)
(* its catalog_lock and by `fluxvm catalog sign` in a process of its own,  *)
(* and the download cache, which every fetch uses without a lock.  A call  *)
(* is an action up to its first await or its write of the file, and one    *)
(* for each that follows.                                                  *)
(***************************************************************************)
EXTENDS Naturals, FiniteSets

CONSTANTS
  Task,     \* the requests served at a time
  Name,     \* the names of catalog entries
  Source,   \* the URLs images are fetched from
  BaseName, \* the last path segment of each URL: its file in the cache
  Vm,       \* the VMs ever created
  NoVm

ASSUME CatalogAssumption ==
  /\ DOMAIN BaseName = Source
  /\ {"absent", "part", "none"} \cap Source = {}
  /\ NoVm \notin Vm

File == {BaseName[s] : s \in Source}

\* What bytes a file holds: those of a source, or some that are no whole image.
Bytes == Source \cup {"part"}

NoSig == [name |-> "none", source |-> "none", sha256 |-> "none"]

NoEntry == [source |-> "none", sha256 |-> "none", signature |-> NoSig, read_only |-> FALSE]

VARIABLES
  catalog, \* catalog.json: its entry of every name
  cache,   \* state_dir/downloads: the bytes of every file, or "absent"
  job      \* job[t]: the call of task t and how far it is

catalogVars == <<catalog, cache, job>>

\* read: what it makes of the file it has read; raced: a write of the file that
\* no lock keeps from this call has come since.
Idle == [op |-> "none", at |-> "idle", name |-> "none", entry |-> NoEntry, read |-> <<>>,
         raced |-> FALSE, hold |-> "none", vm |-> NoVm]

CatalogInit ==
  /\ catalog = [n \in Name |-> NoEntry]
  /\ cache = [f \in File |-> "absent"]
  /\ job = [t \in Task |-> Idle]

Listed(n) == catalog[n] # NoEntry

Done(t) == job' = [job EXCEPT ![t] = Idle]

Goes(t, at) == job' = [job EXCEPT ![t].at = at]

-----------------------------------------------------------------------------
(* fetch_if_needed: by the file's name, with no lock and no temporary.     *)

FileOf(t) == BaseName[job[t].entry.source]

\* The tasks that have the file open to write it.
Writers(f) == {u \in Task : job[u].at = "writing" /\ job[u].hold # "gone" /\ FileOf(u) = f}

\* A file that is there is taken as it is.
FetchHit(t) ==
  /\ job[t].at = "fetch"
  /\ Goes(t, IF cache[FileOf(t)] = "absent" THEN "asking" ELSE "fetched")
  /\ UNCHANGED <<catalog, cache>>

\* The server answers: the file is created, or emptied, in place.
FetchOpens(t) ==
  /\ job[t].at = "asking"
  /\ LET f == FileOf(t)
         others == Writers(f)
     IN /\ cache' = [cache EXCEPT ![f] = "part"]
        /\ job' = [u \in Task |->
             CASE u = t -> [job[t] EXCEPT !.at = "writing", !.hold = IF others = {} THEN "own" ELSE "shared"]
               [] u \in others -> [job[u] EXCEPT !.hold = "shared"]
               [] OTHER -> job[u]]
  /\ UNCHANGED catalog

\* The last chunk is written.  A file two tasks wrote at once, or that was
\* emptied in between, may hold either image or neither.
FetchWritten(t) ==
  /\ job[t].at = "writing"
  /\ LET f == FileOf(t)
     IN \E b \in CASE job[t].hold = "own" -> {job[t].entry.source}
                   [] job[t].hold = "shared" -> {job[t].entry.source, "part"}
                   [] OTHER -> {cache[f]} :
          cache' = [cache EXCEPT ![f] = b]
  /\ job' = [job EXCEPT ![t].at = "fetched", ![t].hold = "none"]
  /\ UNCHANGED catalog

\* The request or the transfer fails; what was written stays in the cache.
FetchFails(t) ==
  /\ job[t].at \in {"asking", "writing"}
  /\ Done(t)
  /\ UNCHANGED <<catalog, cache>>

Fetch(t) == FetchHit(t) \/ FetchOpens(t) \/ FetchWritten(t) \/ FetchFails(t)

-----------------------------------------------------------------------------
(* Calls under catalog_lock.                                               *)

\* Bug: the lock is let go while the image is downloaded.
FreeWhileFetching == \A t \in Task : job[t].op \notin {"export", "edit"}

\* add_entry, export_entry and the calls that edit the file hold it.
Unlocked == \A t \in Task : job[t].op \notin {"add", "export", "edit"}

Begin(t, op, n, e) ==
  /\ job[t] = Idle
  /\ job' = [job EXCEPT ![t] = [Idle EXCEPT !.op = op, !.at = "fetch", !.name = n, !.entry = e]]

\* Task t writes c to the file.  `catalog sign` and a call of the manager that
\* has read the file do not see each other's writes.
Writes(t, c) ==
  /\ catalog' = c
  /\ job' = [u \in Task |->
       CASE u = t -> Idle
         [] u # t /\ job[u].op \in {"add", "edit", "sign"} /\ "sign" \in {job[t].op, job[u].op} ->
              [job[u] EXCEPT !.raced = TRUE]
         [] OTHER -> job[u]]

Unsigned(s) == [NoEntry EXCEPT !.source = s]

\* add_entry reads the file before it downloads ...
AddEntry(t, n, s) ==
  /\ Unlocked /\ ~ Listed(n)
  /\ job[t] = Idle
  /\ job' = [job EXCEPT ![t] =
       [Idle EXCEPT !.op = "add", !.at = "fetch", !.name = n, !.entry = Unsigned(s), !.read = catalog]]
  /\ UNCHANGED <<catalog, cache>>

\* ... and writes what it read back with an entry for the bytes that landed.
AddSaved(t) ==
  /\ job[t].op = "add" /\ job[t].at = "fetched"
  /\ LET b == cache[FileOf(t)]
     IN IF b = "absent" THEN Done(t) /\ UNCHANGED catalog
        ELSE Writes(t, [job[t].read EXCEPT ![job[t].name] = [job[t].entry EXCEPT !.sha256 = b]])
  /\ UNCHANGED cache

\* Task t has read the file and made c of it.
Reads(t, op, c) ==
  /\ job[t] = Idle
  /\ job' = [job EXCEPT ![t] = [Idle EXCEPT !.op = op, !.at = "edit", !.read = c]]
  /\ UNCHANGED <<catalog, cache>>

\* A call that changes the file without waiting for anything: load_catalog ...
Edit(t, c) == Unlocked /\ Reads(t, "edit", c)

\* ... and save_catalog, a temporary and a rename.
SaveCatalog(t) ==
  /\ job[t].op = "edit"
  /\ Writes(t, job[t].read)
  /\ UNCHANGED cache

RemoveEntry(t, n) ==
  /\ Listed(n) /\ ~ catalog[n].read_only
  /\ Edit(t, [catalog EXCEPT ![n] = NoEntry])

\* The new name is another entry's, or free, or the old one.
RenameEntry(t, n, m) ==
  /\ Listed(n) /\ ~ catalog[n].read_only
  /\ m # n => ~ Listed(m)
  /\ Edit(t, [[catalog EXCEPT ![n] = NoEntry] EXCEPT ![m] = [catalog[n] EXCEPT !.signature = NoSig]])

CloneEntry(t, n, m) ==
  /\ Listed(n) /\ ~ Listed(m)
  /\ Edit(t, [catalog EXCEPT ![m] = [catalog[n] EXCEPT !.signature = NoSig]])

SetReadOnly(t, n, flag) ==
  /\ Listed(n)
  /\ Edit(t, [catalog EXCEPT ![n].read_only = flag])

\* The files no entry refers to go, also from under those who are writing them.
CleanDownloads(t) ==
  LET kept == {BaseName[catalog[n].source] : n \in {m \in Name : Listed(m)}}
  IN /\ Unlocked /\ job[t] = Idle
     /\ cache' = [f \in File |-> IF f \in kept THEN cache[f] ELSE "absent"]
     /\ job' = [u \in Task |->
          IF job[u].at = "writing" /\ FileOf(u) \notin kept
            THEN [job[u] EXCEPT !.hold = "gone"] ELSE job[u]]
     /\ UNCHANGED catalog

ExportEntry(t, n) ==
  /\ Unlocked /\ Listed(n)
  /\ Begin(t, "export", n, catalog[n])
  /\ UNCHANGED <<catalog, cache>>

\* The copy reads the cached file, and fails if it is gone.
Exported(t) ==
  /\ job[t].op = "export" /\ job[t].at = "fetched"
  /\ Done(t)
  /\ UNCHANGED <<catalog, cache>>

-----------------------------------------------------------------------------
(* Calls and processes that take no lock.                                  *)

CanonicalPayload(n, e) == [name |-> n, source |-> e.source, sha256 |-> e.sha256]

\* `fluxvm catalog sign --catalog-file`: the operator signs the image that
\* the source serves; the entry replaces the one of its name in what the
\* process has read ...
SignEntry(t, n, s) ==
  LET e == [Unsigned(s) EXCEPT !.sha256 = s]
  IN Reads(t, "sign", [catalog EXCEPT ![n] = [e EXCEPT !.signature = CanonicalPayload(n, e)]])

\* ... and is written over whatever the file holds by then.
SignSaved(t) ==
  /\ job[t].op = "sign"
  /\ Writes(t, job[t].read)
  /\ UNCHANGED cache

\* build_image with a URL no entry need have.
BuildImage(t, s) ==
  /\ Begin(t, "build", "none", Unsigned(s))
  /\ UNCHANGED <<catalog, cache>>

\* The image is converted from the cached file into one of the caller's.
Built(t) ==
  /\ job[t].op = "build" /\ job[t].at = "fetched"
  /\ Done(t)
  /\ UNCHANGED <<catalog, cache>>

\* Bug: an entry without a signature is taken as one that needs none.
UnsignedIsFine(n, e) == e.signature \in {NoSig, CanonicalPayload(n, e)}

\* trusted_signers is not empty.
VerifySignature(n, e) == e.signature = CanonicalPayload(n, e)

VerifySha256(f, wanted) == cache[f] = wanted

\* resolve, when the VM's image is the name of an entry that verifies.
ResolveBegins(t, v, n) ==
  /\ Listed(n) /\ VerifySignature(n, catalog[n])
  /\ job[t] = Idle
  /\ job' = [job EXCEPT ![t] =
       [Idle EXCEPT !.op = "create", !.at = "fetch", !.name = n, !.entry = catalog[n], !.vm = v]]
  /\ UNCHANGED <<catalog, cache>>

\* The file is hashed whole: the create goes on only with the right bytes.
Resolved(t) ==
  /\ job[t].op = "create" /\ job[t].at = "fetched"
  /\ IF VerifySha256(FileOf(t), job[t].entry.sha256) THEN Goes(t, "resolved") ELSE Done(t)
  /\ UNCHANGED <<catalog, cache>>

\* The calls that change entries that are there.
Edits ==
  \E t \in Task, n \in Name :
    \/ RemoveEntry(t, n)
    \/ \E m \in Name : RenameEntry(t, n, m) \/ CloneEntry(t, n, m)
    \/ \E flag \in BOOLEAN : SetReadOnly(t, n, flag)

\* The calls that bring images and entries in.
Administers ==
  \E t \in Task :
    \/ \E n \in Name, s \in Source : AddEntry(t, n, s) \/ SignEntry(t, n, s)
    \/ \E n \in Name : ExportEntry(t, n)
    \/ \E s \in Source : BuildImage(t, s)

Registry ==
  \E t \in Task :
    \/ Fetch(t)
    \/ AddSaved(t) \/ SaveCatalog(t) \/ SignSaved(t) \/ Exported(t) \/ Built(t) \/ Resolved(t)
    \/ CleanDownloads(t)

-----------------------------------------------------------------------------
(* Properties.                                                             *)

Renamed(n, m) ==
  /\ Listed(n) /\ catalog'[n] = NoEntry
  /\ ~ Listed(m) /\ catalog'[m].sha256 = catalog[n].sha256

\* A write of catalog.json changes the entry that was asked for and, but for
\* a rename's second one, no other: no call of the manager undoes what another
\* has done since it read the file (catalog_lock, held over add_entry's
\* download).  `catalog sign`, in a process of its own, has no lock: what it
\* writes while a call has the file read, and what is written while it has,
\* is lost, and nothing else is.
UpdatesKept ==
  [][\A n, m \in Name :
       n # m /\ catalog'[n] # catalog[n] /\ catalog'[m] # catalog[m] =>
         \/ Renamed(n, m) \/ Renamed(m, n)
         \/ \E t \in Task : job[t].raced /\ job'[t] = Idle]_catalog

\* The image a create goes on with is, at that moment, the whole image of the
\* source that the operator signed for this name: never what a failed download
\* or another URL with the same last segment left in the cache, nor an entry
\* that add_entry made of such bytes (resolve with trusted_signers).
ResolvedAsVouched ==
  [][\A t \in Task :
       job[t].at = "fetched" /\ job'[t].at = "resolved" =>
         cache[FileOf(t)] = job[t].entry.source]_job
=============================================================================
