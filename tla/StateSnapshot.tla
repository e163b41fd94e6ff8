--------------------------- MODULE StateSnapshot ----------------------------
(***************************************************************************)
(* The state snapshot writer and reader of src/src/state_snapshot.rs: a    *)
(* directory is archived into sealed chunk objects and a signed manifest   *)
(* chained to the writer's last one; a restore verifies the manifest, the  *)
(* link and every chunk in a sibling directory and renames it into place.  *)
(* The object directory stands for any data plane: objects may be lost,    *)
(* cut or changed between any two steps.  The source may be written while  *)
(* it is read, the target may be filled meanwhile, and either process may  *)
(* crash.                                                                  *)
(*                                                                         *)
(* A chunk stands for the bytes of one file: [declared, size, body], the   *)
(* size in its header, the size and the content read.  Sealing, naming and *)
(* signing are injective, so a chunk is its own id.                        *)
(***************************************************************************)
EXTENDS Naturals, Sequences

CONSTANTS
  MaxWrites,      \* bound: snapshots begun
  MaxFaults       \* bound: changes by others to the source, objects and target

Files == 1..2
Contents == [size : {1, 2}, body : {"x"}] \cup {[size |-> 1, body |-> "y"]}
Lineages == {"mine", "other"}
Keys == {"trusted", "foreign"}

VARIABLES
  source,      \* the directory: [file -> content]
  store,       \* the object directory: chunk -> "sound", "damaged" or "cut"; lost: not there
  manifests,   \* the signed manifests, in the order written
  writer,      \* the write under way
  reader,      \* the restore under way
  staging,     \* the sibling directory: [there, chunks unpacked]
  target,      \* "absent", "empty", "theirs" or "restored"
  restored,    \* what lies at the target once restored
  writes,      \* snapshots begun
  faults       \* changes made by others

snapshotVars == <<source, store, manifests, writer, reader, staging, target, restored, writes, faults>>

Idle == [at |-> "idle", lineage |-> "mine", prev |-> 0, seen |-> <<>>, chunks |-> <<>>]
NoDirectory == [there |-> FALSE, chunks |-> <<>>]
Nothing == [manifest |-> 0, head |-> 0, files |-> <<>>]
Resting == [at |-> "idle", manifest |-> 0, altered |-> FALSE, head |-> 0, next |-> 1]

\* The state directory of an earlier job, and what it left: nothing, or two
\* first snapshots of one lineage.
OldChunk == [declared |-> 1, size |-> 1, body |-> "x"]
OldManifest ==
  [sequence |-> 1, prev |-> 0, lineage |-> "mine", chunks |-> <<OldChunk, OldChunk>>, signer |-> "trusted"]

SnapshotInit ==
  /\ source \in [Files -> {[size |-> 1, body |-> "x"], [size |-> 2, body |-> "x"]}]
  /\ \/ store = <<>> /\ manifests = <<>> /\ target \in {"empty", "theirs"}
     \/ /\ store = [c \in {OldChunk} |-> "sound"]
        /\ manifests = <<OldManifest, OldManifest>>
        /\ target = "absent"
  /\ writer = Idle
  /\ reader = Resting
  /\ staging = NoDirectory
  /\ restored = Nothing
  /\ writes = 0
  /\ faults = 0
-----------------------------------------------------------------------------
Sequence(prev) == IF prev = 0 THEN 1 ELSE manifests[prev].sequence + 1

\* check_well_formed, on what a writer or a data plane can get wrong.
WellFormed(m) == m.sequence > 0 /\ (m.sequence = 1) = (m.prev = 0)

\* verify_successor: the same lineage, the next number, and the digest of
\* the predecessor; a digest is the manifest's place in `manifests`.
SuccessorOK(p, m) ==
  /\ m.lineage = manifests[p].lineage
  /\ m.sequence = manifests[p].sequence + 1
  /\ m.prev = p

\* write, up to the walk (collect_entries).  Its predecessor is the last
\* manifest this writer knows of, which may not be the last one.
WriteStart ==
  /\ writer.at = "idle"
  /\ writes < MaxWrites
  /\ writes' = writes + 1
  /\ \E prev \in 0..Len(manifests), lineage \in Lineages :
       LET m == [sequence |-> Sequence(prev), prev |-> prev, lineage |-> lineage] IN
       /\ WellFormed(m)
       /\ prev # 0 => SuccessorOK(prev, m)
       /\ writer' = [at |-> "read", lineage |-> lineage, prev |-> prev,
                     seen |-> [f \in Files |-> source[f].size], chunks |-> <<>>]
  /\ UNCHANGED <<source, store, manifests, reader, staging, target, restored, faults>>

NextFile == Len(writer.chunks) + 1

\* archive_entries of one file, through ExactReader and the probe after it:
\* a file that shrank or grew since the walk fails the write.
ArchiveFile ==
  /\ writer.at = "read"
  /\ NextFile \in Files
  /\ writer' = IF source[NextFile].size # writer.seen[NextFile] THEN Idle
               ELSE [writer EXCEPT !.at = "store",
                       !.chunks = Append(@, [declared |-> writer.seen[NextFile],
                                             size |-> source[NextFile].size, body |-> source[NextFile].body])]
  /\ UNCHANGED <<source, store, manifests, reader, staging, target, restored, writes, faults>>

Newest == writer.chunks[Len(writer.chunks)]

\* ChunkSink::store and write_object: an object of the right length is
\* reused unopened, one of another length is a conflict, and a missing one
\* is written under a temporary name and renamed.
StoreChunk ==
  /\ writer.at = "store"
  /\ \/ Newest \in DOMAIN store /\ store[Newest] # "cut"
        /\ writer' = [writer EXCEPT !.at = "read"] /\ UNCHANGED store
     \/ Newest \in DOMAIN store /\ store[Newest] = "cut"
        /\ writer' = Idle /\ UNCHANGED store
     \/ /\ Newest \notin DOMAIN store
        /\ \/ store' = [c \in DOMAIN store \cup {Newest} |-> IF c = Newest THEN "sound" ELSE store[c]]
              /\ writer' = [writer EXCEPT !.at = "read"]
           \/ writer' = Idle /\ UNCHANGED store
  /\ UNCHANGED <<source, manifests, reader, staging, target, restored, writes, faults>>

\* sign: the manifest is made after the last chunk; a signer may be away.
SignManifest ==
  /\ writer.at = "read"
  /\ NextFile \notin Files
  /\ \/ \E key \in Keys :
          manifests' = Append(manifests, [sequence |-> Sequence(writer.prev), prev |-> writer.prev,
                                          lineage |-> writer.lineage, chunks |-> writer.chunks, signer |-> key])
     \/ UNCHANGED manifests
  /\ writer' = Idle
  /\ UNCHANGED <<source, store, reader, staging, target, restored, writes, faults>>
-----------------------------------------------------------------------------
\* verify_signature: the manifest as it was signed, by the trusted key.
SignatureOK(k, altered) == ~altered /\ manifests[k].signer = "trusted"

\* restore, up to the link: a manifest, perhaps altered on the way, and the
\* head the reader trusts, if any.
RestoreStart ==
  /\ reader.at = "idle"
  /\ \E k \in 1..Len(manifests), altered \in BOOLEAN, head \in 0..Len(manifests) :
       /\ SignatureOK(k, altered)
       /\ head # 0 => SuccessorOK(head, manifests[k])
       /\ reader' = [at |-> "check", manifest |-> k, altered |-> altered, head |-> head, next |-> 1]
  /\ UNCHANGED <<source, store, manifests, writer, staging, target, restored, writes, faults>>

ChunksOf(k) == manifests[k].chunks

\* check_object: the object is there, with the length of its chunk.
ObjectOK(c) == c \in DOMAIN store /\ store[c] # "cut"

\* Every chunk of the manifest, then the target; a refusal leaves nothing.
CheckObjects ==
  /\ reader.at = "check"
  /\ IF \E i \in 1..Len(ChunksOf(reader.manifest)) : ~ObjectOK(ChunksOf(reader.manifest)[i])
     THEN reader' = Resting /\ UNCHANGED staging
     ELSE IF target \in {"absent", "empty"}
     THEN reader' = [reader EXCEPT !.at = "extract"] /\ staging' = [there |-> TRUE, chunks |-> <<>>]
     ELSE reader' = Resting /\ UNCHANGED staging
  /\ UNCHANGED <<source, store, manifests, writer, target, restored, writes, faults>>

\* Mutant: an object of the right length is taken for its chunk.
OpensByLength(c) == c \in DOMAIN store /\ store[c] # "cut"

\* ChunkStream::load and ChunkKeys::open: the object decrypts under the
\* lineage's key and its plaintext has the id it is stored under.
Opens(c) == c \in DOMAIN store /\ store[c] = "sound"

\* remove_staging may fail too; what is left is never the target.
Refuse ==
  /\ reader' = Resting
  /\ staging' = NoDirectory \/ UNCHANGED staging

\* extract and unpack: one chunk, verified as the archive needs it.
ExtractChunk ==
  /\ reader.at = "extract"
  /\ reader.next <= Len(ChunksOf(reader.manifest))
  /\ LET c == ChunksOf(reader.manifest)[reader.next] IN
     IF Opens(c)
     THEN /\ staging' = [staging EXCEPT !.chunks =
                         Append(@, IF store[c] = "sound" THEN c ELSE [c EXCEPT !.body = "z"])]
          /\ reader' = [reader EXCEPT !.next = @ + 1]
     ELSE Refuse
  /\ UNCHANGED <<source, store, manifests, writer, target, restored, writes, faults>>

\* Every chunk was read; the rename replaces an absent or empty directory.
RenameIntoPlace ==
  /\ reader.at = "extract"
  /\ reader.next > Len(ChunksOf(reader.manifest))
  /\ \/ /\ target \in {"absent", "empty"}
        /\ target' = "restored"
        /\ restored' = [manifest |-> reader.manifest, head |-> reader.head, files |-> staging.chunks]
        /\ staging' = NoDirectory
        /\ reader' = Resting
     \/ Refuse /\ UNCHANGED <<target, restored>>
  /\ UNCHANGED <<source, store, manifests, writer, writes, faults>>
-----------------------------------------------------------------------------
SnapshotCrash ==
  /\ faults < MaxFaults
  /\ faults' = faults + 1
  /\ \/ writer.at # "idle" /\ writer' = Idle /\ UNCHANGED reader
     \/ reader.at # "idle" /\ reader' = Resting /\ UNCHANGED writer
  /\ UNCHANGED <<source, store, manifests, staging, target, restored, writes>>

SourceChanges ==
  /\ faults < MaxFaults
  /\ faults' = faults + 1
  /\ \E f \in Files, c \in Contents : source' = [source EXCEPT ![f] = c]
  /\ UNCHANGED <<store, manifests, writer, reader, staging, target, restored, writes>>

DataPlaneFault ==
  /\ faults < MaxFaults
  /\ faults' = faults + 1
  /\ \E c \in DOMAIN store :
       store' \in {[store EXCEPT ![c] = "damaged"], [store EXCEPT ![c] = "cut"],
                   [d \in DOMAIN store \ {c} |-> store[d]]}
  /\ UNCHANGED <<source, manifests, writer, reader, staging, target, restored, writes>>

TargetTaken ==
  /\ faults < MaxFaults
  /\ faults' = faults + 1
  /\ target \in {"absent", "empty"}
  /\ target' = "theirs"
  /\ UNCHANGED <<source, store, manifests, writer, reader, staging, restored, writes>>

WriteSteps == WriteStart \/ ArchiveFile \/ StoreChunk \/ SignManifest
RestoreSteps == CheckObjects \/ ExtractChunk \/ RenameIntoPlace

SnapshotNext ==
  WriteSteps \/ RestoreStart \/ RestoreSteps \/ SnapshotCrash \/ SourceChanges \/ DataPlaneFault \/ TargetTaken

\* A restore that was started runs on unless it crashes.
SnapshotFairness == WF_snapshotVars(RestoreSteps)
-----------------------------------------------------------------------------
(* What a restore puts in place is what the writer captured: every chunk   *)
(* of a manifest the trusted key signed, in order and undamaged, whatever  *)
(* was lost, cut or changed between the checks and the reads; the manifest *)
(* directly follows the head the reader trusts; and no file of it has      *)
(* another length than its header, whatever was written to the source.     *)
(* What others put at the target is never replaced: restore, write.        *)
SnapshotSafe ==
  /\ target = "restored" =>
       LET m == manifests[restored.manifest] IN
       /\ m.signer = "trusted"
       /\ restored.files = m.chunks
       /\ Len(m.chunks) = 2
       /\ restored.head # 0 =>
            /\ m.prev = restored.head
            /\ m.lineage = manifests[restored.head].lineage
       /\ \A i \in 1..Len(m.chunks) : m.chunks[i].declared = m.chunks[i].size
  /\ target = "theirs" => restored = Nothing

\* A restore whose directory is neither in place nor refused.
RestorePending == reader.at # "idle"
=============================================================================
