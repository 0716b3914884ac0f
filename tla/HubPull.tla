------------------------------ MODULE HubPull -------------------------------
(***************************************************************************)
(* models/hub.rs: `pull` and the resumable download under it.  A file's    *)
(* content is the sequence of its pieces 1, 2, ..; the pieces of an older, *)
(* longer revision are 0.  The server and the network may misbehave a      *)
(* bounded number of times, the process may be killed between any two      *)
(* steps, and the user runs the same pull again until it reports success.  *)
(* What is on disk survives a kill: pieces are written unbuffered.         *)
(***************************************************************************)
EXTENDS Filters, SequencesExt, Functions

CONSTANTS Repos,              \* repository listings, see RepoAssumption
          ForceChoices,       \* whether --force is given
          DOWNLOAD_ATTEMPTS,  \* connections per file and run
          MaxPulls,           \* bound on the pulls begun after a success
          MaxFaults,          \* bound on what the server and the network do wrong
          MaxKills            \* bound on kills

Kinds == {"json", "stindex", "safetensors", "gguf", "other"}

\* A listing names every file once, with its kind, its pieces and, of a GGUF
\* file, its variant; the sizes it gives are known.
ASSUME RepoAssumption ==
    /\ \A repo \in Repos :
          /\ repo \in Seq(Range(repo))
          /\ \A f \in Range(repo) :
                /\ f.kind \in Kinds /\ f.size \in Nat \ {0}
                /\ DOMAIN f = {"name", "kind", "size", "variant"}
          /\ \A f, g \in Range(repo) : f.name = g.name => f = g
    /\ ForceChoices \subseteq BOOLEAN
    /\ DOWNLOAD_ATTEMPTS \in Nat \ {0}
    /\ {MaxPulls, MaxFaults, MaxKills} \subseteq Nat

VARIABLES
    repo,       \* what upstream lists and holds
    ranges,     \* whether the server honours range requests
    dest,       \* whether the destination directory exists
    disk,       \* the files in it, by name
    index,      \* gguf.index: [exists, lines]
    args,       \* the pull being run: [variant, force]
    queue,      \* files still to download in this run
    attempt,    \* connection attempts for the first of them
    total,      \* the length the current body should bring the file to
    downloaded, \* how far into the file it has come
    outcome,    \* how the last run ended
    saved,      \* variants a run reported as saved
    pc, pulls, faults, kills

files == <<dest, disk, index>>
run == <<queue, attempt, total, downloaded>>
bounds == <<pulls, faults, kills>>
vars == <<repo, ranges, files, args, run, outcome, saved, pc, bounds>>

-----------------------------------------------------------------------------

Safetensors == "Safetensors"
NoIndex == [exists |-> FALSE, lines |-> <<>>]
Unknown == -1

Files == Range(repo)
Whole(f) == [i \in 1 .. f.size |-> i]
Present(f) == f.name \in DOMAIN disk
HaveIn(d, f) == IF f.name \in DOMAIN d THEN Len(d[f.name]) ELSE 0
Have(f) == HaveIn(disk, f)
Written(f, data) == [n \in DOMAIN disk \cup {f.name} |-> IF n = f.name THEN data ELSE disk[n]]
Removed(names) == Restrict(disk, DOMAIN disk \ names)
NamesOf(S) == {f.name : f \in S}

\* The files of a variant, and the metadata that comes with every pull.
Variant(v) == {f \in Files : IF v = Safetensors THEN f.kind = "safetensors"
                             ELSE f.kind = "gguf" /\ f.variant = v}
Metadata(v) == {f \in Files : f.kind # "gguf" /\ (f.kind = "safetensors" => v = Safetensors)}
Wanted(v) == Metadata(v) \cup Variant(v)
Variants == {f.variant : f \in {g \in Files : g.kind = "gguf"}}
            \cup IF \E f \in Files : f.kind = "safetensors" THEN {Safetensors} ELSE {}

\* A safetensors file's own header says how long it should be.
safetensors_truncated(f) == Have(f) < f.size

\* Whether what is on disk looks like an interrupted pull.
WeightsIncomplete ==
    LET on_disk == {f \in Files : f.kind = "safetensors" /\ Present(f)}
    IN on_disk = {} \/ \E f \in on_disk : safetensors_truncated(f)

is_incomplete_download ==
    LET shard_index == {f \in Files : f.kind = "stindex" /\ Present(f)}
    IN CASE index.exists -> \E i \in DOMAIN index.lines : index.lines[i] \notin DOMAIN disk
         [] ~index.exists /\ shard_index # {} ->
              \/ \E f \in shard_index : disk[f.name] # Whole(f)
              \/ \E f \in Variant(Safetensors) : ~Present(f) \/ safetensors_truncated(f)
         [] OTHER -> "config.json" \notin DOMAIN disk \/ WeightsIncomplete

Complete(d, f) == f.name \in DOMAIN d /\ Len(d[f.name]) = f.size

\* What a run fetches: JSON first, then in the order of the listing, metadata
\* before GGUF.
Order(d, v) ==
    LET todo == Pick(repo, {f \in Metadata(v) : ~Complete(d, f)})
                \o Pick(repo, {f \in Variant(v) : f.kind = "gguf"})
        json == {f \in Files : f.kind \in {"json", "stindex"}}
    IN Pick(todo, json) \o Pick(todo, Files \ json)

Init ==
    /\ repo \in Repos /\ ranges \in BOOLEAN
    /\ \/ dest = FALSE /\ disk = <<>>
       \/ /\ dest = TRUE
          /\ \E f \in Files : disk = [n \in {f.name} |-> [i \in 1 .. f.size + 1 |-> 0]]
    /\ index = NoIndex
    /\ args = [variant |-> Safetensors, force |-> FALSE]
    /\ queue = <<>> /\ attempt = 1 /\ total = Unknown /\ downloaded = 0
    /\ outcome = "None" /\ saved = {} /\ pc = "off"
    /\ pulls = 0 /\ faults = 0 /\ kills = 0

-----------------------------------------------------------------------------
(* pull, up to the first download.                                          *)

\* A file of known length that is longer than upstream is a prefix of nothing.
TooLong == {f \in Metadata(Safetensors) : Have(f) > f.size}

\* What pull leaves of the directory before it downloads.
DiskAtStart(v, force) ==
    CASE ~dest -> disk
      [] dest /\ force -> IF v = Safetensors THEN <<>> ELSE Removed(NamesOf(Variant(v)))
      [] OTHER -> IF v = Safetensors THEN Removed(NamesOf(TooLong)) ELSE disk

IndexAtStart(v, force) == IF dest /\ (force \/ v # Safetensors) THEN NoIndex ELSE index

Refused(v, force) == v = Safetensors /\ dest /\ ~force /\ ~is_incomplete_download

Begin(v, force) ==
    /\ args' = [variant |-> v, force |-> force]
    /\ IF Refused(v, force)
       THEN outcome' = "Exists" /\ UNCHANGED <<files, run, saved, pc>>
       ELSE /\ disk' = DiskAtStart(v, force)
            /\ index' = IndexAtStart(v, force)
            /\ queue' = Order(DiskAtStart(v, force), v)
            /\ attempt' = 1 /\ total' = Unknown /\ downloaded' = 0
            /\ saved' = IF ~force THEN saved ELSE IF v = Safetensors THEN {} ELSE saved \ {v}
            /\ IF queue' = <<>>
               THEN outcome' = "Nothing" /\ pc' = pc /\ dest' = (dest /\ ~force)
               ELSE outcome' = "Running" /\ pc' = "file" /\ dest' = TRUE
    /\ UNCHANGED <<repo, ranges, faults, kills>>

NewPull ==
    /\ pc = "off" /\ outcome \in {"None", "Saved"} /\ pulls < MaxPulls
    /\ pulls' = pulls + 1
    /\ \E v \in Variants, force \in ForceChoices : Begin(v, force)

\* The same pull again.
Rerun ==
    /\ pc = "off" /\ outcome \in {"Failed", "Killed"}
    /\ Begin(args.variant, args.force)
    /\ UNCHANGED pulls

-----------------------------------------------------------------------------
(* download_file and fetch_from, for the first file of the queue.           *)

Current == Head(queue)

Ended(result) == outcome' = result /\ pc' = "off"

FileDone ==
    /\ queue' = Tail(queue) /\ attempt' = 1 /\ total' = Unknown /\ downloaded' = 0
    /\ pc' = IF Tail(queue) # <<>> THEN "file" ELSE "finish"
    /\ UNCHANGED outcome

\* An attempt is spent; the last one ends the run.  The bytes stay.
Transient ==
    /\ IF attempt < DOWNLOAD_ATTEMPTS
       THEN attempt' = attempt + 1 /\ pc' = "file" /\ UNCHANGED outcome
       ELSE Ended("Failed") /\ UNCHANGED attempt
    /\ UNCHANGED queue /\ total' = Unknown /\ downloaded' = 0

Fault == faults < MaxFaults /\ faults' = faults + 1

Settled == UNCHANGED <<repo, ranges, args, saved, pulls, kills>>

AlreadyThere ==
    /\ pc = "file" /\ Have(Current) = Current.size
    /\ FileDone
    /\ UNCHANGED <<files, faults>> /\ Settled

Requests == pc = "file" /\ Have(Current) # Current.size

\* 206: the rest of the file is appended.
PartialContent ==
    /\ Requests /\ Have(Current) > 0 /\ Have(Current) < Current.size /\ ranges
    /\ total' = Current.size /\ downloaded' = Have(Current) /\ pc' = "body"
    /\ UNCHANGED <<files, queue, attempt, outcome, faults>> /\ Settled

\* 200: asked for everything, or the server ignored the range.  The file starts
\* over.
Opened(f) == disk' = Written(f, <<>>)

FullContent ==
    /\ Requests /\ (Have(Current) = 0 \/ ~ranges)
    /\ Opened(Current)
    /\ total' = Current.size /\ downloaded' = 0 /\ pc' = "body"
    /\ UNCHANGED <<dest, index, queue, attempt, outcome, faults>> /\ Settled

\* 416: the file on disk is longer than upstream and starts over.  Seeded
\* fault: it stays.
StartOverKept(f) == disk' = disk
StartOver(f) == disk' = Removed({f.name})

RangeNotSatisfiable ==
    /\ Requests /\ Have(Current) > Current.size /\ ranges
    /\ StartOver(Current)
    /\ Transient
    /\ UNCHANGED <<dest, index, faults>> /\ Settled

\* A piece arrives and is written; the body is upstream's from where the
\* request asked it to begin.
Chunk ==
    /\ pc = "body" /\ downloaded < Current.size
    /\ disk' = Written(Current, Append(disk[Current.name], downloaded + 1))
    /\ downloaded' = downloaded + 1
    /\ UNCHANGED <<dest, index, queue, attempt, total, outcome, pc, faults>> /\ Settled

\* The body ends.  Seeded fault: its length is not compared.
ShortUnchecked == FALSE
Short == downloaded # total

BodyEnds ==
    /\ pc = "body"
    /\ IF downloaded < Current.size THEN Fault ELSE UNCHANGED faults
    /\ IF Short THEN Transient ELSE FileDone
    /\ UNCHANGED files /\ Settled

\* No answer, or a connection that goes quiet or breaks.  Seeded fault: what
\* arrived is thrown away.
KeptNot(f) == disk' = Removed({f.name})
Kept(f) == disk' = disk

ConnectionLost ==
    /\ (Requests \/ pc = "body") /\ Fault
    /\ Kept(Current)
    /\ Transient
    /\ UNCHANGED <<dest, index>> /\ Settled

\* A status no retry can change, or a write that fails.
FatalError ==
    /\ (Requests \/ pc = "body") /\ Fault
    /\ Ended("Failed")
    /\ UNCHANGED <<files, run>> /\ Settled

-----------------------------------------------------------------------------
(* The index of a GGUF directory: created, then written name by name.       *)

\* What it lists: every GGUF file in the directory.
Indexed == Pick(repo, {f \in Files : f.kind = "gguf" /\ Present(f)})

Lines == [i \in DOMAIN Indexed |-> Indexed[i].name]

Finished ==
    /\ Ended("Saved")
    /\ saved' = saved \cup {args.variant}

NoIndexNeeded ==
    /\ pc = "finish" /\ args.variant = Safetensors
    /\ Finished
    /\ UNCHANGED <<repo, ranges, files, args, run, bounds>>

CreateIndex ==
    /\ pc = "finish" /\ args.variant # Safetensors
    /\ index' = [exists |-> TRUE, lines |-> <<>>]
    /\ pc' = "index"
    /\ UNCHANGED <<repo, ranges, dest, disk, args, run, outcome, saved, bounds>>

IndexLine ==
    /\ pc = "index" /\ Len(index.lines) < Len(Lines)
    /\ index' = [index EXCEPT !.lines = Append(@, Lines[Len(@) + 1])]
    /\ UNCHANGED <<repo, ranges, dest, disk, args, run, outcome, saved, pc, bounds>>

IndexDone ==
    /\ pc = "index" /\ Len(index.lines) = Len(Lines)
    /\ Finished
    /\ UNCHANGED <<repo, ranges, files, args, run, bounds>>

Kill ==
    /\ pc # "off" /\ kills < MaxKills
    /\ kills' = kills + 1
    /\ Ended("Killed")
    /\ UNCHANGED <<repo, ranges, files, args, run, saved, pulls, faults>>

Steps ==
    \/ AlreadyThere \/ PartialContent \/ FullContent \/ RangeNotSatisfiable \/ Chunk \/ BodyEnds
    \/ NoIndexNeeded \/ CreateIndex \/ IndexLine \/ IndexDone

Next == NewPull \/ Rerun \/ Steps \/ ConnectionLost \/ FatalError \/ Kill

Spec == Init /\ [][Next]_vars

\* The process goes on while it lives and the user runs an unfinished pull
\* again; faults and kills are bounded.
FairSpec == Spec /\ WF_vars(Steps) /\ WF_vars(Rerun)

\* loader.rs, find_gguf_files: the index if it names anything, else what is there.
find_gguf_files ==
    IF index.exists /\ index.lines # <<>> THEN Range(index.lines)
    ELSE {f.name : f \in {g \in Files : g.kind = "gguf" /\ Present(g)}}

-----------------------------------------------------------------------------

TypeOK ==
    /\ pc \in {"off", "file", "body", "finish", "index"}
    /\ outcome \in {"None", "Running", "Saved", "Failed", "Killed", "Exists", "Nothing"}
    /\ DOMAIN disk \subseteq NamesOf(Files) /\ (DOMAIN disk # {} => dest)
    /\ attempt \in 1 .. DOWNLOAD_ATTEMPTS
    /\ saved \subseteq Variants

\* When a pull reports success every file of it is whole, and every variant
\* saved so far is whole and among the files the loader will find
\* (hub.rs:594-620, loader.rs:549).
SavedIsWhole ==
    outcome = "Saved" =>
        /\ \A f \in Wanted(args.variant) : Complete(disk, f) /\ disk[f.name] = Whole(f)
        /\ \A v \in saved \ {Safetensors} :
              /\ NamesOf(Variant(v)) \subseteq find_gguf_files
              /\ \A f \in Variant(v) : disk[f.name] = Whole(f)

\* Without --force and with a server that honours ranges, no step gives up a
\* piece that was fetched: not a broken connection, not the last attempt, not
\* a kill and not the rerun after it (hub.rs:690-692, 593).
BytesKept ==
    [][ranges /\ ~args'.force =>
          \A f \in Files : Present(f) /\ IsPrefix(disk[f.name], Whole(f)) =>
              f.name \in DOMAIN disk' /\ IsPrefix(disk[f.name], disk'[f.name])]_vars

\* A pull that has begun and is run again after every failure or kill ends with
\* all of its files whole (hub.rs:597, README.md:228).
RerunCompletes ==
    [](pc # "off" => <>(\A f \in Wanted(args.variant) : Present(f) /\ disk[f.name] = Whole(f)))

=============================================================================
