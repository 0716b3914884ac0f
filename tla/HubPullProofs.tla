---------------------------- MODULE HubPullProofs -----------------------------
(***************************************************************************)
(* `pull` and its reruns, for every repository listing, every number of    *)
(* reruns and retries and every way in which the connection, the server or *)
(* the process may fail.  The inductive invariant:                         *)
(*   Typed        types, and a run's arguments name a variant;             *)
(*   Stored       a file on disk holds upstream's pieces from the first on *)
(*                or is longer than upstream's: no gap, no piece twice;    *)
(*   Running      where a run stands: what downloaded counts is what the   *)
(*                file being fetched has;                                  *)
(*   ToDo, Done   what a run wants is whole or still in its queue;         *)
(*   SavedWhole, ListedInv, IndexInv                                       *)
(*                what an earlier run saved stays whole, and listed in the *)
(*                index unless a run is about to write it anew.            *)
(* SavedIsWhole alone is not inductive: a run that ends looks at sizes     *)
(* only, and a size says that a file is whole only because of Stored.      *)
(***************************************************************************)
EXTENDS HubPull, DataLemmas

-----------------------------------------------------------------------------
(* The inductive invariant.                                                *)

Names == NamesOf(Files)
Piece(k) == [i \in 1 .. k |-> i]

\* Every file holds upstream's pieces from the first on, or is an older, longer
\* one.
Stored(d) ==
    /\ DOMAIN d \subseteq Names
    /\ \A n \in DOMAIN d : d[n] \in Seq(Nat)
    /\ \A f \in Files : f.name \in DOMAIN d /\ Len(d[f.name]) <= f.size
                           => d[f.name] = Piece(Len(d[f.name]))

WholeIn(d, f) == f.name \in DOMAIN d /\ d[f.name] = Piece(f.size)

Typed ==
    /\ TypeOK
    /\ repo \in Repos /\ dest \in BOOLEAN
    /\ index \in [exists : BOOLEAN, lines : Seq(Names)]
    /\ queue \in Seq(Files) /\ downloaded \in Nat
    /\ outcome # "None" => args.variant \in Variants

\* Where a run stands: the file being fetched has as much as its body brought.
Running ==
    /\ pc # "off" => outcome = "Running" /\ dest
    /\ pc \in {"file", "body"} => queue # <<>>
    /\ pc \in {"finish", "index"} => queue = <<>>
    /\ pc = "body" => /\ Current.name \in DOMAIN disk
                      /\ Len(disk[Current.name]) = downloaded
                      /\ downloaded <= Current.size /\ total = Current.size

\* What a run has not whole is still in its queue.
ToDo == pc # "off" => \A f \in Wanted(args.variant) : f \in Range(queue) \/ WholeIn(disk, f)
Done == outcome = "Saved" => \A f \in Wanted(args.variant) : WholeIn(disk, f)

\* What was saved stays whole, and listed as long as no new index is written.
SavedWhole == \A v \in saved \ {Safetensors} : \A f \in Variant(v) : WholeIn(disk, f)
Listed ==
    index.exists /\ index.lines # <<>> =>
        \A v \in saved \ {Safetensors} : NamesOf(Variant(v)) \subseteq Range(index.lines)
ListedInv == args.variant = Safetensors \/ outcome \in {"None", "Saved"} => Listed
IndexInv ==
    pc = "index" =>
        /\ args.variant # Safetensors /\ index.exists /\ Len(index.lines) <= Len(Lines)
        /\ \A i \in 1 .. Len(index.lines) : index.lines[i] = Lines[i]

IInv == Typed /\ Stored(disk) /\ Running /\ ToDo /\ Done /\ SavedWhole /\ ListedInv /\ IndexInv

-----------------------------------------------------------------------------
(* Files and disks.                                                        *)

\* A listing.
LEMMA FileFacts ==
    ASSUME repo \in Repos
    PROVE  /\ repo \in Seq(Files)
           /\ \A f \in Files : f.size \in Nat /\ f.size >= 1
           /\ \A f, g \in Files : f.name = g.name => f = g
    BY RepoAssumption DEF Files

\* The first pieces of a file.
LEMMA PieceFacts ==
    ASSUME NEW k \in Nat
    PROVE  Piece(k) \in Seq(Nat) /\ Len(Piece(k)) = k /\ Append(Piece(k), k + 1) = Piece(k + 1)
<1>1. Piece(k) \in Seq(Nat) /\ Len(Piece(k)) = k /\ Piece(k + 1) \in Seq(Nat) /\ Len(Piece(k + 1)) = k + 1
    BY DEF Piece
<1>2. Append(Piece(k), k + 1) \in Seq(Nat) /\ Len(Append(Piece(k), k + 1)) = k + 1
    BY <1>1
<1>3. \A i \in 1 .. k + 1 : Append(Piece(k), k + 1)[i] = Piece(k + 1)[i]
    BY <1>1 DEF Piece
<1>4. \A i \in 1 .. Len(Append(Piece(k), k + 1)) : Append(Piece(k), k + 1)[i] = Piece(k + 1)[i]
    BY <1>2, <1>3
<1> QED
    BY <1>1, <1>2, <1>4, SeqEqual

\* As long as upstream is whole.
LEMMA CompleteIsWhole ==
    ASSUME NEW d, Stored(d), NEW f \in Files, f.size \in Nat, f.name \in DOMAIN d
    PROVE  Len(d[f.name]) = f.size <=> WholeIn(d, f)
<1>1. ASSUME Len(d[f.name]) = f.size PROVE WholeIn(d, f)
    BY <1>1 DEF Stored, WholeIn
<1>2. ASSUME WholeIn(d, f) PROVE Len(d[f.name]) = f.size
    <2>1. Len(Piece(f.size)) = f.size
        BY PieceFacts
    <2> QED
        BY <1>2, <2>1 DEF WholeIn
<1> QED
    BY <1>1, <1>2

\* A part of a disk.
LEMMA SubDisk ==
    ASSUME NEW d, Stored(d), NEW e, DOMAIN e \subseteq DOMAIN d, \A n \in DOMAIN e : e[n] = d[n]
    PROVE  Stored(e) /\ \A f \in Files : WholeIn(d, f) /\ f.name \in DOMAIN e => WholeIn(e, f)
    BY DEF Stored, WholeIn

\* What remove_file leaves.
LEMMA RemovedFacts ==
    ASSUME NEW S, NEW e, e = Removed(S)
    PROVE  DOMAIN e = DOMAIN disk \ S /\ \A n \in DOMAIN e : e[n] = disk[n]
    BY DEF Removed, Restrict

\* A file is written and the others are not.
LEMMA WrittenFacts ==
    ASSUME repo \in Repos, Stored(disk), NEW f \in Files,
           NEW data \in Seq(Nat), Len(data) <= f.size => data = Piece(Len(data)),
           NEW e, e = Written(f, data)
    PROVE  /\ Stored(e) /\ f.name \in DOMAIN e /\ e[f.name] = data
           /\ \A g \in Files : g # f /\ WholeIn(disk, g) => WholeIn(e, g)
           /\ DOMAIN e = DOMAIN disk \cup {f.name}
           /\ \A n \in DOMAIN disk \ {f.name} : e[n] = disk[n]
<1>1. /\ DOMAIN e = DOMAIN disk \cup {f.name} /\ e[f.name] = data
      /\ \A n \in DOMAIN disk \ {f.name} : e[n] = disk[n]
    BY DEF Written
<1>2. \A g \in Files : g.name = f.name => g = f
    BY FileFacts
<1>3. f.name \in Names
    BY DEF Names, NamesOf
<1>4. Stored(e)
    BY <1>1, <1>2, <1>3 DEF Stored
<1>5. \A g \in Files : g # f /\ WholeIn(disk, g) => WholeIn(e, g)
    BY <1>1, <1>2 DEF WholeIn
<1> QED
    BY <1>1, <1>4, <1>5

\* What a run fetches.
LEMMA OrderFacts ==
    ASSUME repo \in Repos, NEW d, NEW v, NEW q, q = Order(d, v)
    PROVE  /\ q \in Seq(Files)
           /\ Range(q) = {f \in Metadata(v) : ~Complete(d, f)} \cup {f \in Variant(v) : f.kind = "gguf"}
<1> DEFINE M == {f \in Metadata(v) : ~Complete(d, f)}
           G == {f \in Variant(v) : f.kind = "gguf"}
           json == {f \in Files : f.kind \in {"json", "stindex"}}
           a == Pick(repo, M)
           b == Pick(repo, G)
           todo == a \o b
           x == Pick(todo, json)
           y == Pick(todo, Files \ json)
<1>1. q = x \o y
    BY DEF Order
<1>2. M \subseteq Files /\ G \subseteq Files /\ json \subseteq Files
    BY DEF Metadata, Variant
<1>3. repo \in Seq(Files) /\ Range(repo) = Files
    BY FileFacts DEF Files
<1> HIDE DEF M, G, json
<1>4. a \in Seq(Files) /\ Range(a) = Range(repo) \cap M
    BY <1>3, PickFacts
<1>5. b \in Seq(Files) /\ Range(b) = Range(repo) \cap G
    BY <1>3, PickFacts
<1> HIDE DEF a, b
<1>6. todo \in Seq(Files) /\ Range(todo) = Range(a) \cup Range(b)
    BY <1>4, <1>5, RangeConcat
<1> HIDE DEF todo
<1>7. x \in Seq(Files) /\ Range(x) = Range(todo) \cap json
    BY <1>6, PickFacts
<1>8. y \in Seq(Files) /\ Range(y) = Range(todo) \cap (Files \ json)
    BY <1>6, PickFacts
<1> HIDE DEF x, y
<1>9. q \in Seq(Files) /\ Range(q) = Range(x) \cup Range(y)
    BY <1>1, <1>7, <1>8, RangeConcat
<1>10. Range(q) = M \cup G
    BY <1>2, <1>3, <1>4, <1>5, <1>6, <1>7, <1>8, <1>9
<1> QED
    BY <1>9, <1>10 DEF M, G

\* The first of the queue.
LEMMA CurrentFacts ==
    ASSUME queue \in Seq(Files), queue # <<>>
    PROVE  /\ Current \in Files /\ Current \in Range(queue)
           /\ Tail(queue) \in Seq(Files) /\ Range(queue) \subseteq {Current} \cup Range(Tail(queue))
<1> DEFINE t == Tail(queue)
<1>1. /\ Current = queue[1] /\ Current \in Files /\ t \in Seq(Files) /\ Len(queue) \in Nat /\ Len(queue) >= 1
      /\ Len(t) = Len(queue) - 1 /\ \A i \in 1 .. Len(t) : t[i] = queue[i + 1]
      /\ DOMAIN queue = 1 .. Len(queue) /\ DOMAIN t = 1 .. Len(t)
    BY DEF Current
<1> HIDE DEF t
<1>2. \A i \in 1 .. Len(queue) : i = 1 \/ (i - 1 \in 1 .. Len(t) /\ i = (i - 1) + 1)
    BY <1>1
<1>3. Current \in Range(queue)
    BY <1>1 DEF Range
<1>4. \A i \in 1 .. Len(queue) : queue[i] \in {Current} \cup Range(t)
    <2> TAKE i \in 1 .. Len(queue)
    <2>1. CASE i = 1
        BY <1>1, <2>1
    <2>2. CASE i - 1 \in 1 .. Len(t) /\ i = (i - 1) + 1
        <3>1. t[i - 1] = queue[i]
            BY <1>1, <2>2
        <3> QED
            BY <1>1, <2>2, <3>1 DEF Range
    <2> QED
        BY <1>2, <2>1, <2>2
<1>5. Range(queue) \subseteq {Current} \cup Range(t)
    BY <1>1, <1>4 DEF Range
<1> QED
    BY <1>1, <1>3, <1>5 DEF t

\* The listing does not change.
LEMMA SameListing ==
    ASSUME repo' = repo
    PROVE  /\ Files' = Files /\ Names' = Names /\ Variants' = Variants
           /\ \A v : Variant(v)' = Variant(v) /\ Wanted(v)' = Wanted(v)
<1>1. Files' = Files
    BY DEF Files
<1>2. \A v : Variant(v)' = Variant(v) /\ Metadata(v)' = Metadata(v)
    BY <1>1 DEF Variant, Metadata
<1> QED
    BY <1>1, <1>2 DEF Names, NamesOf, Variants, Wanted

-----------------------------------------------------------------------------
(* Every step keeps the invariant.                                         *)

TypedNext ==
    /\ pc' \in {"off", "file", "body", "finish", "index"}
    /\ outcome' \in {"None", "Running", "Saved", "Failed", "Killed", "Exists", "Nothing"}
    /\ (DOMAIN disk' # {} => dest') /\ dest' \in BOOLEAN
    /\ attempt' \in 1 .. DOWNLOAD_ATTEMPTS
    /\ saved' \subseteq Variants
    /\ index' \in [exists : BOOLEAN, lines : Seq(Names)]
    /\ queue' \in Seq(Files) /\ downloaded' \in Nat
    /\ outcome' # "None" => args'.variant \in Variants
ToDoNext == pc' # "off" => \A f \in Wanted(args'.variant) : f \in Range(queue') \/ WholeIn(disk', f)
DoneNext == outcome' = "Saved" => \A f \in Wanted(args'.variant) : WholeIn(disk', f)
SavedNext == \A v \in saved' \ {Safetensors} : \A f \in Variant(v) : WholeIn(disk', f)
ListedNext ==
    index'.exists /\ index'.lines # <<>> =>
        \A v \in saved' \ {Safetensors} : NamesOf(Variant(v)) \subseteq Range(index'.lines)

\* The parts of the invariant after a step, said of the listing before it.
LEMMA Assemble ==
    ASSUME repo \in Repos, repo' = repo, TypedNext, Stored(disk'), Running', ToDoNext, DoneNext, SavedNext,
           args'.variant = Safetensors \/ outcome' \in {"None", "Saved"} => ListedNext,
           IndexInv'
    PROVE  IInv'
<1>1. /\ Files' = Files /\ Names' = Names /\ Variants' = Variants
      /\ \A v : Variant(v)' = Variant(v) /\ Wanted(v)' = Wanted(v)
    BY SameListing
<1>2. Typed'
    <2>1. DOMAIN disk' \subseteq Names'
        BY <1>1 DEF Stored
    <2>2. NamesOf(Files)' = Names'
        BY DEF Names
    <2> QED
        BY <1>1, <2>1, <2>2 DEF Typed, TypeOK, TypedNext
<1>3. Stored(disk)'
    BY <1>1 DEF Stored
<1>4. ToDo' /\ Done'
    BY <1>1 DEF ToDo, ToDoNext, Done, DoneNext, WholeIn
<1>5. SavedWhole'
    BY <1>1 DEF SavedWhole, SavedNext, WholeIn
<1>6. ListedInv'
    <2>1. \A v : NamesOf(Variant(v))' = NamesOf(Variant(v))
        BY <1>1 DEF NamesOf
    <2> QED
        BY <2>1 DEF ListedInv, Listed, ListedNext
<1> QED
    BY <1>2, <1>3, <1>4, <1>5, <1>6 DEF IInv

\* A step of a run that fetches or ends: what was whole stays whole.
LEMMA FetchStep ==
    ASSUME IInv, pc # "off", repo' = repo, dest' = dest, index' = index, args' = args, saved' = saved,
           Stored(disk'), \A f \in Files : WholeIn(disk, f) => WholeIn(disk', f),
           pc' \in {"off", "file", "body", "finish"}, outcome' \in {"Running", "Failed", "Killed"},
           attempt' \in 1 .. DOWNLOAD_ATTEMPTS, queue' \in Seq(Files), downloaded' \in Nat,
           Running',
           pc' # "off" => \A f \in Range(queue) : f \in Range(queue') \/ WholeIn(disk', f)
    PROVE  IInv'
<1>1. Typed /\ Running /\ ToDo /\ SavedWhole /\ ListedInv
    BY DEF IInv
<1>2. outcome = "Running" /\ dest /\ repo \in Repos /\ args.variant \in Variants
    BY <1>1 DEF Running, Typed
<1>3. \A v : Wanted(v) \subseteq Files /\ Variant(v) \subseteq Files
    BY DEF Wanted, Metadata, Variant
<1>4. TypedNext
    BY <1>1, <1>2 DEF TypedNext, Typed, TypeOK
<1>5. ToDoNext
    BY <1>1, <1>3 DEF ToDo, ToDoNext
<1>6. DoneNext
    BY DEF DoneNext
<1>7. SavedNext
    BY <1>1, <1>3 DEF SavedNext, SavedWhole
<1>8. args'.variant = Safetensors \/ outcome' \in {"None", "Saved"} => ListedNext
    BY <1>1 DEF ListedInv, Listed, ListedNext
<1>9. IndexInv'
    BY DEF IndexInv
<1> QED
    BY <1>2, <1>4, <1>5, <1>6, <1>7, <1>8, <1>9, Assemble

\* What a step in the middle of a run starts from.
LEMMA InRun ==
    ASSUME IInv, pc \in {"file", "body"}
    PROVE  /\ pc # "off" /\ repo \in Repos /\ Stored(disk) /\ outcome = "Running" /\ dest = TRUE
           /\ attempt \in 1 .. DOWNLOAD_ATTEMPTS /\ attempt \in Nat /\ downloaded \in Nat
           /\ queue \in Seq(Files) /\ queue # <<>>
           /\ Current \in Files /\ Current.size \in Nat /\ Current.size >= 1
           /\ \A f \in Files : WholeIn(disk, f) => WholeIn(disk, f)
           /\ Have(Current) \in Nat
           /\ Have(Current) = Current.size <=> WholeIn(disk, Current)
<1>1. /\ pc # "off" /\ repo \in Repos /\ Stored(disk) /\ outcome = "Running" /\ dest = TRUE
      /\ attempt \in 1 .. DOWNLOAD_ATTEMPTS /\ downloaded \in Nat /\ queue \in Seq(Files) /\ queue # <<>>
    BY DEF IInv, Typed, TypeOK, Running
<1>2. Current \in Files
    BY <1>1, CurrentFacts
<1>3. Current.size \in Nat /\ Current.size >= 1
    BY <1>1, <1>2, FileFacts
<1>4. attempt \in Nat
    BY <1>1
<1>5. CASE Current.name \in DOMAIN disk
    <2>1. Have(Current) = Len(disk[Current.name])
        BY <1>5 DEF Have, HaveIn
    <2>2. disk[Current.name] \in Seq(Nat)
        BY <1>1, <1>5 DEF Stored
    <2>3. Len(disk[Current.name]) = Current.size <=> WholeIn(disk, Current)
        BY <1>1, <1>2, <1>3, <1>5, CompleteIsWhole
    <2>4. Len(disk[Current.name]) \in Nat
        BY <2>2
    <2> QED
        BY <1>1, <1>2, <1>3, <1>4, <2>1, <2>3, <2>4
<1>6. CASE Current.name \notin DOMAIN disk
    <2>1. Have(Current) = 0 /\ ~WholeIn(disk, Current)
        BY <1>6 DEF Have, HaveIn, WholeIn
    <2> QED
        BY <1>1, <1>2, <1>3, <1>4, <2>1
<1> QED
    BY <1>5, <1>6

\* The current file is whole and the next one is due.
LEMMA DoneWith ==
    ASSUME IInv, pc \in {"file", "body"}, WholeIn(disk, Current), FileDone,
           UNCHANGED files, Settled
    PROVE  IInv'
<1>1. /\ repo \in Repos /\ Stored(disk) /\ outcome = "Running" /\ dest = TRUE
      /\ queue \in Seq(Files) /\ queue # <<>>
    BY InRun
<1>2. /\ Tail(queue) \in Seq(Files) /\ Range(queue) \subseteq {Current} \cup Range(Tail(queue))
    BY <1>1, CurrentFacts
<1>3. /\ queue' = Tail(queue) /\ attempt' = 1 /\ downloaded' = 0 /\ outcome' = outcome
      /\ pc' = (IF Tail(queue) # <<>> THEN "file" ELSE "finish")
      /\ disk' = disk /\ dest' = dest /\ index' = index /\ repo' = repo /\ args' = args /\ saved' = saved
    BY DEF FileDone, files, Settled
<1>4. 1 \in 1 .. DOWNLOAD_ATTEMPTS
    BY RepoAssumption
<1>5. Running'
    BY <1>1, <1>3 DEF Running
<1>6. \A f \in Range(queue) : f \in Range(queue') \/ WholeIn(disk', f)
    BY <1>2, <1>3
<1>7. /\ pc' \in {"off", "file", "body", "finish"} /\ outcome' \in {"Running", "Failed", "Killed"}
      /\ attempt' \in 1 .. DOWNLOAD_ATTEMPTS /\ queue' \in Seq(Files) /\ downloaded' \in Nat
      /\ pc # "off" /\ Stored(disk')
    BY <1>1, <1>2, <1>3, <1>4
<1> QED
    BY <1>3, <1>5, <1>6, <1>7, FetchStep

\* An attempt is spent.
LEMMA SpentWith ==
    ASSUME IInv, pc \in {"file", "body"}, Transient, dest' = dest, index' = index, Settled,
           Stored(disk'), \A f \in Files : WholeIn(disk, f) => WholeIn(disk', f)
    PROVE  IInv'
<1>1. /\ repo \in Repos /\ outcome = "Running" /\ dest = TRUE
      /\ attempt \in 1 .. DOWNLOAD_ATTEMPTS /\ queue \in Seq(Files) /\ queue # <<>>
    BY InRun
<1>2. /\ queue' = queue /\ downloaded' = 0
      /\ \/ attempt < DOWNLOAD_ATTEMPTS /\ attempt' = attempt + 1 /\ pc' = "file" /\ outcome' = outcome
         \/ outcome' = "Failed" /\ pc' = "off" /\ attempt' = attempt
      /\ repo' = repo /\ args' = args /\ saved' = saved
    BY DEF Transient, Ended, Settled
<1>3. DOWNLOAD_ATTEMPTS \in Nat
    BY RepoAssumption
<1>4. /\ pc' \in {"off", "file", "body", "finish"} /\ outcome' \in {"Running", "Failed", "Killed"}
      /\ queue' \in Seq(Files) /\ downloaded' \in Nat /\ pc # "off"
    BY <1>1, <1>2
<1>5. attempt' \in 1 .. DOWNLOAD_ATTEMPTS
    BY <1>1, <1>2, <1>3
<1>6. Running'
    BY <1>1, <1>2 DEF Running
<1>7. \A f \in Range(queue) : f \in Range(queue') \/ WholeIn(disk', f)
    BY <1>2
<1> QED
    BY <1>2, <1>4, <1>5, <1>6, <1>7, FetchStep

\* A file that is already there.
LEMMA AlreadyThereStep == IInv /\ AlreadyThere => IInv'
<1> SUFFICES ASSUME IInv, AlreadyThere PROVE IInv'
    OBVIOUS
<1>1. pc = "file" /\ Have(Current) = Current.size /\ FileDone /\ UNCHANGED files /\ Settled
    BY DEF AlreadyThere
<1>2. WholeIn(disk, Current)
    BY <1>1, InRun
<1> QED
    BY <1>1, <1>2, DoneWith

\* The end of a body, early or not.
LEMMA BodyEndsStep == IInv /\ BodyEnds => IInv'
<1> SUFFICES ASSUME IInv, BodyEnds PROVE IInv'
    OBVIOUS
<1>1. pc = "body" /\ UNCHANGED files /\ Settled /\ (IF Short THEN Transient ELSE FileDone)
    BY DEF BodyEnds
<1>2. disk' = disk /\ dest' = dest /\ index' = index
    BY <1>1 DEF files
<1>3. Stored(disk)
    BY <1>1, InRun
<1>4. CASE Short
    BY <1>1, <1>2, <1>3, <1>4, SpentWith
<1>5. CASE ~Short
    <2>1. Current.name \in DOMAIN disk /\ Len(disk[Current.name]) = Current.size
        BY <1>1, <1>5 DEF IInv, Running, Short
    <2>2. WholeIn(disk, Current)
        BY <1>1, <1>3, <2>1, InRun, CompleteIsWhole
    <2> QED
        BY <1>1, <1>5, <2>2, DoneWith
<1> QED
    BY <1>4, <1>5

\* A lost connection.
LEMMA ConnectionLostStep == IInv /\ ConnectionLost => IInv'
<1> SUFFICES ASSUME IInv, ConnectionLost PROVE IInv'
    OBVIOUS
<1>1. pc \in {"file", "body"} /\ disk' = disk /\ Transient /\ dest' = dest /\ index' = index /\ Settled
    BY DEF ConnectionLost, Requests, Kept
<1>2. Stored(disk)
    BY <1>1, InRun
<1> QED
    BY <1>1, <1>2, SpentWith

\* 416: the leftover is longer than upstream.
LEMMA RangeNotSatisfiableStep == IInv /\ RangeNotSatisfiable => IInv'
<1> SUFFICES ASSUME IInv, RangeNotSatisfiable PROVE IInv'
    OBVIOUS
<1>1. /\ pc \in {"file", "body"} /\ Transient /\ dest' = dest /\ index' = index /\ Settled
      /\ Have(Current) # Current.size /\ disk' = Removed({Current.name})
    BY DEF RangeNotSatisfiable, Requests, StartOver
<1>2. Stored(disk) /\ repo \in Repos /\ Current \in Files /\ ~WholeIn(disk, Current)
    BY <1>1, InRun
<1>3. DOMAIN disk' = DOMAIN disk \ {Current.name} /\ \A n \in DOMAIN disk' : disk'[n] = disk[n]
    BY <1>1, RemovedFacts
<1>4. Stored(disk') /\ \A f \in Files : WholeIn(disk, f) /\ f.name \in DOMAIN disk' => WholeIn(disk', f)
    BY <1>2, <1>3, SubDisk
<1>5. \A f \in Files : WholeIn(disk, f) => f.name # Current.name
    BY <1>2, FileFacts
<1>6. \A f \in Files : WholeIn(disk, f) => WholeIn(disk', f)
    BY <1>3, <1>4, <1>5 DEF WholeIn
<1> QED
    BY <1>1, <1>4, <1>6, SpentWith

\* 206: the range was honoured.
LEMMA PartialContentStep == IInv /\ PartialContent => IInv'
<1> SUFFICES ASSUME IInv, PartialContent PROVE IInv'
    OBVIOUS
<1>1. /\ pc = "file" /\ Have(Current) > 0 /\ Have(Current) < Current.size
      /\ total' = Current.size /\ downloaded' = Have(Current) /\ pc' = "body"
      /\ disk' = disk /\ dest' = dest /\ index' = index /\ queue' = queue /\ attempt' = attempt
      /\ outcome' = outcome /\ repo' = repo /\ args' = args /\ saved' = saved
    BY DEF PartialContent, Requests, files, Settled
<1>2. /\ pc # "off" /\ Stored(disk) /\ outcome = "Running" /\ dest = TRUE
      /\ attempt \in 1 .. DOWNLOAD_ATTEMPTS /\ queue \in Seq(Files) /\ queue # <<>>
      /\ Current.size \in Nat /\ Have(Current) \in Nat
    BY <1>1, InRun
<1>3. Current.name \in DOMAIN disk /\ Len(disk[Current.name]) = Have(Current)
    BY <1>1 DEF Have, HaveIn
<1>4. Current' = Current
    BY <1>1 DEF Current
<1>5. Running'
    BY <1>1, <1>2, <1>3, <1>4 DEF Running
<1> QED
    BY <1>1, <1>2, <1>5, FetchStep

\* The current file is written to and goes on.
LEMMA WriteStep ==
    ASSUME IInv, pc \in {"file", "body"}, ~WholeIn(disk, Current), NEW k \in Nat, k <= Current.size,
           disk' = Written(Current, Piece(k)), downloaded' = k, total' = Current.size, pc' = "body",
           dest' = dest, index' = index, queue' = queue, attempt' = attempt, outcome' = outcome, Settled
    PROVE  IInv'
<1>1. /\ pc # "off" /\ repo \in Repos /\ Stored(disk) /\ outcome = "Running" /\ dest = TRUE
      /\ attempt \in 1 .. DOWNLOAD_ATTEMPTS /\ queue \in Seq(Files) /\ queue # <<>> /\ Current \in Files
    BY InRun
<1>2. Piece(k) \in Seq(Nat) /\ Len(Piece(k)) = k
    BY PieceFacts
<1>3. /\ Stored(disk') /\ Current.name \in DOMAIN disk' /\ disk'[Current.name] = Piece(k)
      /\ \A g \in Files : g # Current /\ WholeIn(disk, g) => WholeIn(disk', g)
    <2> DEFINE p == Piece(k)
    <2>1. Len(p) <= Current.size => p = Piece(Len(p))
        BY <1>2
    <2>2. p \in Seq(Nat) /\ disk' = Written(Current, p)
        BY <1>2
    <2> HIDE DEF p
    <2>3. /\ Stored(disk') /\ Current.name \in DOMAIN disk' /\ disk'[Current.name] = p
          /\ \A g \in Files : g # Current /\ WholeIn(disk, g) => WholeIn(disk', g)
        BY <1>1, <2>1, <2>2, WrittenFacts
    <2> QED
        BY <2>3 DEF p
<1>4. repo' = repo /\ args' = args /\ saved' = saved /\ Current' = Current
    BY DEF Settled, Current
<1>5. Running'
    BY <1>1, <1>2, <1>3, <1>4 DEF Running
<1>6. \A f \in Files : WholeIn(disk, f) => WholeIn(disk', f)
    BY <1>3
<1> QED
    BY <1>1, <1>3, <1>4, <1>5, <1>6, FetchStep

\* 200: the range was ignored.
LEMMA FullContentStep == IInv /\ FullContent => IInv'
<1> SUFFICES ASSUME IInv, FullContent PROVE IInv'
    OBVIOUS
<1>1. /\ pc = "file" /\ Have(Current) # Current.size /\ disk' = Written(Current, <<>>)
      /\ total' = Current.size /\ downloaded' = 0 /\ pc' = "body"
      /\ dest' = dest /\ index' = index /\ queue' = queue /\ attempt' = attempt /\ outcome' = outcome
      /\ Settled
    BY DEF FullContent, Requests, Opened
<1>2. ~WholeIn(disk, Current) /\ 0 <= Current.size
    BY <1>1, InRun
<1>3. Piece(0) = <<>>
    BY DEF Piece
<1> QED
    BY <1>1, <1>2, <1>3, WriteStep

\* A chunk of the body.
LEMMA ChunkStep == IInv /\ Chunk => IInv'
<1> SUFFICES ASSUME IInv, Chunk PROVE IInv'
    OBVIOUS
<1>1. /\ pc = "body" /\ downloaded < Current.size
      /\ disk' = Written(Current, Append(disk[Current.name], downloaded + 1))
      /\ downloaded' = downloaded + 1 /\ total' = total /\ pc' = pc
      /\ dest' = dest /\ index' = index /\ queue' = queue /\ attempt' = attempt /\ outcome' = outcome
      /\ Settled
    BY DEF Chunk
<1>2. /\ Current.name \in DOMAIN disk /\ Len(disk[Current.name]) = downloaded /\ total = Current.size
    BY <1>1 DEF IInv, Running
<1>3. /\ Stored(disk) /\ Current \in Files /\ Current.size \in Nat /\ downloaded \in Nat
    BY <1>1, InRun
<1>4. disk[Current.name] = Piece(downloaded)
    BY <1>1, <1>2, <1>3 DEF Stored
<1>5. Append(disk[Current.name], downloaded + 1) = Piece(downloaded + 1)
    BY <1>3, <1>4, PieceFacts
<1>6. ~WholeIn(disk, Current)
    BY <1>1, <1>2, <1>3, CompleteIsWhole
<1>7. downloaded + 1 \in Nat /\ downloaded + 1 <= Current.size
    BY <1>1, <1>3
<1> QED
    BY <1>1, <1>2, <1>5, <1>6, <1>7, WriteStep

\* An error no retry helps against.
LEMMA FatalErrorStep == IInv /\ FatalError => IInv'
<1> SUFFICES ASSUME IInv, FatalError PROVE IInv'
    OBVIOUS
<1>1. /\ pc \in {"file", "body"} /\ outcome' = "Failed" /\ pc' = "off"
      /\ disk' = disk /\ dest' = dest /\ index' = index /\ queue' = queue /\ attempt' = attempt
      /\ downloaded' = downloaded /\ repo' = repo /\ args' = args /\ saved' = saved
    BY DEF FatalError, Requests, Ended, files, run, Settled
<1>2. /\ pc # "off" /\ Stored(disk) /\ attempt \in 1 .. DOWNLOAD_ATTEMPTS /\ queue \in Seq(Files)
      /\ downloaded \in Nat
    BY <1>1, InRun
<1>3. Running'
    BY <1>1 DEF Running
<1> QED
    BY <1>1, <1>2, <1>3, FetchStep

\* The process is killed.
LEMMA KillStep == IInv /\ Kill => IInv'
<1> SUFFICES ASSUME IInv, Kill PROVE IInv'
    OBVIOUS
<1>1. /\ pc # "off" /\ outcome' = "Killed" /\ pc' = "off"
      /\ disk' = disk /\ dest' = dest /\ index' = index /\ queue' = queue /\ attempt' = attempt
      /\ downloaded' = downloaded /\ repo' = repo /\ args' = args /\ saved' = saved
    BY DEF Kill, Ended, files, run
<1>2. /\ Stored(disk) /\ attempt \in 1 .. DOWNLOAD_ATTEMPTS /\ queue \in Seq(Files) /\ downloaded \in Nat
    BY DEF IInv, Typed, TypeOK
<1>3. Running'
    BY <1>1 DEF Running
<1> QED
    BY <1>1, <1>2, <1>3, FetchStep

\* The lines of an index: the names of the GGUF files that are there.
LEMMA LinesFacts ==
    ASSUME repo \in Repos
    PROVE  /\ Lines \in Seq(Names) /\ Len(Lines) \in Nat
           /\ \A f \in Files : f.kind = "gguf" /\ f.name \in DOMAIN disk => f.name \in Range(Lines)
<1> DEFINE G == {f \in Files : f.kind = "gguf" /\ Present(f)}
           u == Indexed
           l == Lines
<1>1. repo \in Seq(Files) /\ Range(repo) = Files
    BY FileFacts DEF Files
<1>2. u = Pick(repo, G)
    BY DEF Indexed
<1>3. u \in Seq(Files) /\ Range(u) = Range(repo) \cap G
    <2> HIDE DEF G, u
    <2> QED
        BY <1>1, <1>2, PickFacts
<1>4. l = [i \in DOMAIN u |-> u[i].name]
    BY DEF Lines
<1> HIDE DEF u, l
<1>5. Len(u) \in Nat /\ DOMAIN u = 1 .. Len(u) /\ \A i \in 1 .. Len(u) : u[i] \in Files
    BY <1>3
<1>6. l = [i \in 1 .. Len(u) |-> u[i].name] /\ \A i \in 1 .. Len(u) : u[i].name \in Names
    BY <1>4, <1>5 DEF Names, NamesOf
<1>7. l \in Seq(Names) /\ Len(l) = Len(u)
    BY <1>5, <1>6
<1>8. ASSUME NEW f \in Files, f.kind = "gguf", f.name \in DOMAIN disk PROVE f.name \in Range(l)
    <2>1. f \in Range(u)
        BY <1>1, <1>3, <1>8 DEF Present
    <2>2. PICK i \in 1 .. Len(u) : f = u[i]
        BY <1>5, <2>1 DEF Range
    <2>3. f.name = l[i] /\ i \in DOMAIN l
        BY <1>4, <1>5, <2>2
    <2> QED
        BY <2>3 DEF Range
<1> QED
    BY <1>5, <1>7, <1>8 DEF l

\* What the last steps of a run start from: everything it wanted is whole.
LEMMA AtEnd ==
    ASSUME IInv, pc \in {"finish", "index"}
    PROVE  /\ repo \in Repos /\ Stored(disk) /\ outcome = "Running" /\ dest = TRUE /\ queue = <<>>
           /\ attempt \in 1 .. DOWNLOAD_ATTEMPTS /\ downloaded \in Nat /\ queue \in Seq(Files)
           /\ saved \subseteq Variants /\ args.variant \in Variants
           /\ index \in [exists : BOOLEAN, lines : Seq(Names)]
           /\ \A f \in Wanted(args.variant) : WholeIn(disk, f)
           /\ SavedWhole /\ (args.variant = Safetensors => Listed)
<1>1. /\ repo \in Repos /\ Stored(disk) /\ outcome = "Running" /\ dest = TRUE /\ queue = <<>>
      /\ attempt \in 1 .. DOWNLOAD_ATTEMPTS /\ downloaded \in Nat /\ queue \in Seq(Files)
      /\ saved \subseteq Variants /\ args.variant \in Variants
      /\ index \in [exists : BOOLEAN, lines : Seq(Names)]
    BY DEF IInv, Typed, TypeOK, Running
<1>2. Range(<<>>) = {}
    BY DEF Range
<1>3. \A f \in Wanted(args.variant) : WholeIn(disk, f)
    BY <1>1, <1>2 DEF IInv, ToDo
<1> QED
    BY <1>1, <1>3 DEF IInv, ListedInv

\* Success is reported.
LEMMA FinishedStep ==
    ASSUME IInv, pc \in {"finish", "index"}, Finished,
           UNCHANGED <<repo, ranges, files, args, run, bounds>>,
           index.exists /\ index.lines # <<>> =>
               \A v \in (saved \cup {args.variant}) \ {Safetensors} :
                   NamesOf(Variant(v)) \subseteq Range(index.lines)
    PROVE  IInv'
<1>1. /\ repo \in Repos /\ Stored(disk) /\ dest = TRUE
      /\ attempt \in 1 .. DOWNLOAD_ATTEMPTS /\ downloaded \in Nat /\ queue \in Seq(Files)
      /\ saved \subseteq Variants /\ args.variant \in Variants
      /\ index \in [exists : BOOLEAN, lines : Seq(Names)]
      /\ \A f \in Wanted(args.variant) : WholeIn(disk, f)
      /\ SavedWhole
    BY AtEnd
<1>2. /\ repo' = repo /\ disk' = disk /\ dest' = dest /\ index' = index /\ args' = args
      /\ queue' = queue /\ attempt' = attempt /\ downloaded' = downloaded
      /\ outcome' = "Saved" /\ pc' = "off" /\ saved' = saved \cup {args.variant}
    BY DEF Finished, Ended, files, run
<1>3. TypedNext
    BY <1>1, <1>2 DEF TypedNext
<1>4. Running' /\ ToDoNext /\ IndexInv'
    BY <1>2 DEF Running, ToDoNext, IndexInv
<1>5. DoneNext
    BY <1>1, <1>2 DEF DoneNext
<1>6. SavedNext
    <2>1. Variant(args.variant) \subseteq Wanted(args.variant)
        BY DEF Wanted
    <2> QED
        BY <1>1, <1>2, <2>1 DEF SavedNext, SavedWhole
<1>7. ListedNext
    BY <1>2 DEF ListedNext
<1> QED
    BY <1>1, <1>2, <1>3, <1>4, <1>5, <1>6, <1>7, Assemble

\* No index is written.
LEMMA NoIndexNeededStep == IInv /\ NoIndexNeeded => IInv'
<1> SUFFICES ASSUME IInv, NoIndexNeeded PROVE IInv'
    OBVIOUS
<1>1. /\ pc = "finish" /\ args.variant = Safetensors /\ Finished
      /\ UNCHANGED <<repo, ranges, files, args, run, bounds>>
    BY DEF NoIndexNeeded
<1>2. Listed
    BY <1>1, AtEnd
<1>3. (saved \cup {args.variant}) \ {Safetensors} = saved \ {Safetensors}
    BY <1>1
<1> QED
    BY <1>1, <1>2, <1>3, FinishedStep DEF Listed

\* The index is created, empty.
LEMMA CreateIndexStep == IInv /\ CreateIndex => IInv'
<1> SUFFICES ASSUME IInv, CreateIndex PROVE IInv'
    OBVIOUS
<1>1. /\ pc = "finish" /\ args.variant # Safetensors /\ index' = [exists |-> TRUE, lines |-> <<>>]
      /\ pc' = "index" /\ repo' = repo /\ disk' = disk /\ dest' = dest /\ args' = args
      /\ queue' = queue /\ attempt' = attempt /\ downloaded' = downloaded /\ outcome' = outcome
      /\ saved' = saved
    BY DEF CreateIndex, run
<1>2. /\ repo \in Repos /\ Stored(disk) /\ outcome = "Running" /\ dest = TRUE /\ queue = <<>>
      /\ attempt \in 1 .. DOWNLOAD_ATTEMPTS /\ downloaded \in Nat /\ queue \in Seq(Files)
      /\ saved \subseteq Variants /\ args.variant \in Variants
      /\ \A f \in Wanted(args.variant) : WholeIn(disk, f)
      /\ SavedWhole
    BY <1>1, AtEnd
<1>3. index' \in [exists : BOOLEAN, lines : Seq(Names)] /\ index'.exists /\ index'.lines = <<>>
    BY <1>1
<1>4. TypedNext
    BY <1>1, <1>2, <1>3 DEF TypedNext
<1>5. Running'
    BY <1>1, <1>2 DEF Running
<1>6. ToDoNext /\ DoneNext /\ SavedNext
    BY <1>1, <1>2 DEF ToDoNext, DoneNext, SavedNext, SavedWhole
<1>7. ListedNext
    BY <1>3 DEF ListedNext
<1>8. IndexInv'
    <2>1. Lines' = Lines
        BY <1>1 DEF Lines, Indexed, Present, Files
    <2>2. Len(Lines) \in Nat
        BY <1>2, LinesFacts
    <2> QED
        BY <1>1, <1>3, <2>1, <2>2 DEF IndexInv
<1> QED
    BY <1>1, <1>2, <1>4, <1>5, <1>6, <1>7, <1>8, Assemble

\* A line of the index.
LEMMA IndexLineStep == IInv /\ IndexLine => IInv'
<1> SUFFICES ASSUME IInv, IndexLine PROVE IInv'
    OBVIOUS
<1>1. /\ pc = "index" /\ Len(index.lines) < Len(Lines)
      /\ index' = [index EXCEPT !.lines = Append(@, Lines[Len(@) + 1])]
      /\ pc' = pc /\ repo' = repo /\ disk' = disk /\ dest' = dest /\ args' = args
      /\ queue' = queue /\ attempt' = attempt /\ downloaded' = downloaded /\ outcome' = outcome
      /\ saved' = saved
    BY DEF IndexLine, run
<1>2. /\ repo \in Repos /\ Stored(disk) /\ outcome = "Running" /\ dest = TRUE /\ queue = <<>>
      /\ attempt \in 1 .. DOWNLOAD_ATTEMPTS /\ downloaded \in Nat /\ queue \in Seq(Files)
      /\ saved \subseteq Variants /\ args.variant \in Variants
      /\ index \in [exists : BOOLEAN, lines : Seq(Names)]
      /\ \A f \in Wanted(args.variant) : WholeIn(disk, f)
      /\ SavedWhole
    BY <1>1, AtEnd
<1>3. /\ args.variant # Safetensors /\ index.exists /\ Len(index.lines) <= Len(Lines)
      /\ \A i \in 1 .. Len(index.lines) : index.lines[i] = Lines[i]
    BY <1>1 DEF IInv, IndexInv
<1>4. Lines \in Seq(Names) /\ Len(Lines) \in Nat
    BY <1>2, LinesFacts
<1> DEFINE l == index.lines
           m == Lines
           x == m[Len(l) + 1]
<1>5. l \in Seq(Names) /\ Len(l) \in Nat
    BY <1>2
<1>6. index'.lines = Append(l, x) /\ index'.exists = index.exists
      /\ index' = [exists |-> index.exists, lines |-> Append(l, x)]
    BY <1>1, <1>2
<1> HIDE DEF l, m
<1>7. x \in Names
    BY <1>1, <1>4, <1>5 DEF l, m
<1>8. /\ Append(l, x) \in Seq(Names) /\ Len(Append(l, x)) = Len(l) + 1
      /\ \A i \in 1 .. Len(l) : Append(l, x)[i] = l[i]
      /\ Append(l, x)[Len(l) + 1] = x
    BY <1>5, <1>7
<1>9. TypedNext
    <2>1. index' \in [exists : BOOLEAN, lines : Seq(Names)]
        BY <1>2, <1>6, <1>8
    <2> QED
        BY <1>1, <1>2, <2>1 DEF TypedNext
<1>10. Running'
    BY <1>1, <1>2 DEF Running
<1>11. ToDoNext /\ DoneNext /\ SavedNext
    BY <1>1, <1>2 DEF ToDoNext, DoneNext, SavedNext, SavedWhole
<1>12. IndexInv'
    <2>1. Lines' = m
        BY <1>1 DEF Lines, Indexed, Present, Files, m
    <2>2. \A i \in 1 .. Len(l) + 1 : Append(l, x)[i] = m[i]
        <3> TAKE i \in 1 .. Len(l) + 1
        <3>1. CASE i \in 1 .. Len(l)
            BY <1>3, <1>8, <3>1 DEF l, m
        <3>2. CASE i = Len(l) + 1
            BY <1>8, <3>2
        <3> QED
            BY <1>5, <3>1, <3>2
    <2>3. Len(l) + 1 <= Len(m)
        BY <1>1, <1>4, <1>5 DEF l, m
    <2> HIDE DEF x
    <2> QED
        BY <1>1, <1>3, <1>6, <1>8, <2>1, <2>2, <2>3 DEF IndexInv
<1> QED
    BY <1>1, <1>2, <1>3, <1>9, <1>10, <1>11, <1>12, Assemble

\* The index is complete.
LEMMA IndexDoneStep == IInv /\ IndexDone => IInv'
<1> SUFFICES ASSUME IInv, IndexDone PROVE IInv'
    OBVIOUS
<1>1. /\ pc = "index" /\ Len(index.lines) = Len(Lines) /\ Finished
      /\ UNCHANGED <<repo, ranges, files, args, run, bounds>>
    BY DEF IndexDone
<1>2. /\ repo \in Repos /\ Stored(disk) /\ index \in [exists : BOOLEAN, lines : Seq(Names)]
      /\ \A f \in Wanted(args.variant) : WholeIn(disk, f)
      /\ SavedWhole
    BY <1>1, AtEnd
<1>3. index.lines = Lines
    <2> DEFINE l == index.lines
               m == Lines
    <2>1. m \in Seq(Names) /\ l \in Seq(Names)
        BY <1>2, LinesFacts
    <2>2. Len(l) = Len(m) /\ \A i \in 1 .. Len(l) : l[i] = m[i]
        BY <1>1 DEF IInv, IndexInv
    <2> HIDE DEF l, m
    <2>3. l = m
        BY <2>1, <2>2, SeqEqual
    <2> QED
        BY <2>3 DEF l, m
<1>4. ASSUME NEW v \in (saved \cup {args.variant}) \ {Safetensors}
      PROVE  NamesOf(Variant(v)) \subseteq Range(index.lines)
    <2>1. \A f \in Variant(v) : f \in Files /\ f.kind = "gguf"
        BY DEF Variant
    <2>2. Variant(args.variant) \subseteq Wanted(args.variant)
        BY DEF Wanted
    <2>3. \A f \in Variant(v) : f.name \in DOMAIN disk
        BY <1>2, <2>2 DEF SavedWhole, WholeIn
    <2>4. \A f \in Variant(v) : f.name \in Range(Lines)
        BY <1>2, <2>1, <2>3, LinesFacts
    <2> QED
        BY <1>3, <2>4 DEF NamesOf
<1> QED
    BY <1>1, <1>4, FinishedStep

\* What a pull leaves of the directory: nothing else changes, what is saved and
\* not asked for again stays, and so does what a resumed file began with.
LEMMA StartFacts ==
    ASSUME repo \in Repos, Stored(disk), SavedWhole, NEW v, NEW force, NEW d, d = DiskAtStart(v, force)
    PROVE  /\ DOMAIN d \subseteq DOMAIN disk /\ \A n \in DOMAIN d : d[n] = disk[n]
           /\ dest /\ force /\ v = Safetensors => DOMAIN d = {}
           /\ \A w \in saved \ {Safetensors} : (force => v # Safetensors /\ w # v) =>
                  \A f \in Variant(w) : f.name \in DOMAIN d
           /\ ~force => \A f \in Files : f.name \in DOMAIN disk /\ Len(disk[f.name]) <= f.size
                                           => f.name \in DOMAIN d
<1>1. \A w \in saved \ {Safetensors} : \A f \in Variant(w) :
          f \in Files /\ f.kind = "gguf" /\ f.variant = w /\ f.name \in DOMAIN disk
    BY DEF SavedWhole, WholeIn, Variant
<1>2. \A f, g \in Files : f.name = g.name => f = g
    BY FileFacts
<1>3. CASE ~dest
    <2>1. d = disk
        BY <1>3 DEF DiskAtStart
    <2> QED
        BY <1>1, <1>3, <2>1
<1>4. CASE dest /\ force /\ v = Safetensors
    <2>1. d = <<>>
        BY <1>4 DEF DiskAtStart
    <2>2. DOMAIN d = {}
        BY <2>1
    <2> QED
        BY <1>4, <2>2
<1>5. CASE dest /\ force /\ v # Safetensors
    <2>1. d = Removed(NamesOf(Variant(v)))
        BY <1>5 DEF DiskAtStart
    <2>2. DOMAIN d = DOMAIN disk \ NamesOf(Variant(v)) /\ \A n \in DOMAIN d : d[n] = disk[n]
        BY <2>1, RemovedFacts
    <2>3. ASSUME NEW w \in saved \ {Safetensors}, w # v, NEW f \in Variant(w) PROVE f.name \in DOMAIN d
        <3>1. \A g \in Variant(v) : g \in Files /\ g.variant = v
            BY <1>5 DEF Variant
        <3>2. f.name \notin NamesOf(Variant(v))
            BY <1>1, <1>2, <2>3, <3>1 DEF NamesOf
        <3> QED
            BY <1>1, <2>2, <2>3, <3>2
    <2> QED
        BY <1>5, <2>2, <2>3
<1>6. CASE dest /\ ~force /\ v = Safetensors
    <2>1. d = Removed(NamesOf(TooLong))
        BY <1>6 DEF DiskAtStart
    <2>2. DOMAIN d = DOMAIN disk \ NamesOf(TooLong) /\ \A n \in DOMAIN d : d[n] = disk[n]
        BY <2>1, RemovedFacts
    <2>3. \A g \in TooLong : g \in Files /\ g.kind # "gguf" /\ Have(g) > g.size
        BY DEF TooLong, Metadata
    <2>4. ASSUME NEW f \in Files, f.kind = "gguf" PROVE f.name \notin NamesOf(TooLong)
        BY <1>2, <2>3, <2>4 DEF NamesOf
    <2>5. ASSUME NEW f \in Files, f.name \in DOMAIN disk, Len(disk[f.name]) <= f.size
          PROVE  f.name \notin NamesOf(TooLong)
        <3>1. Have(f) = Len(disk[f.name])
            BY <2>5 DEF Have, HaveIn
        <3>2. disk[f.name] \in Seq(Nat) /\ f.size \in Nat
            BY <2>5, FileFacts DEF Stored
        <3>3. f \notin TooLong
            BY <2>3, <2>5, <3>1, <3>2
        <3> QED
            BY <1>2, <2>3, <3>3 DEF NamesOf
    <2>6. \A w \in saved \ {Safetensors} : \A f \in Variant(w) : f.name \in DOMAIN d
        BY <1>1, <2>2, <2>4
    <2>7. \A f \in Files : f.name \in DOMAIN disk /\ Len(disk[f.name]) <= f.size => f.name \in DOMAIN d
        BY <2>2, <2>5
    <2> QED
        BY <1>6, <2>2, <2>6, <2>7
<1>7. CASE dest /\ ~force /\ v # Safetensors
    <2>1. d = disk
        BY <1>7 DEF DiskAtStart
    <2> QED
        BY <1>1, <1>7, <2>1
<1> QED
    BY <1>3, <1>4, <1>5, <1>6, <1>7

\* A pull begins, or refuses to.
LEMMA BeginStep ==
    ASSUME IInv, pc = "off", NEW v \in Variants, NEW force, v = Safetensors => Listed,
           Begin(v, force)
    PROVE  IInv'
<1>1. /\ repo \in Repos /\ Stored(disk) /\ SavedWhole /\ dest \in BOOLEAN
      /\ attempt \in 1 .. DOWNLOAD_ATTEMPTS /\ downloaded \in Nat /\ queue \in Seq(Files)
      /\ saved \subseteq Variants /\ (DOMAIN disk # {} => dest)
      /\ index \in [exists : BOOLEAN, lines : Seq(Names)]
    BY DEF IInv, Typed, TypeOK
<1>2. args' = [variant |-> v, force |-> force] /\ args'.variant = v /\ repo' = repo
    BY DEF Begin
<1>3. CASE Refused(v, force)
    <2>1. /\ outcome' = "Exists" /\ disk' = disk /\ dest' = dest /\ index' = index /\ queue' = queue
          /\ attempt' = attempt /\ downloaded' = downloaded /\ saved' = saved /\ pc' = pc
        BY <1>3 DEF Begin, files, run
    <2>2. TypedNext
        BY <1>1, <1>2, <2>1 DEF TypedNext
    <2>3. Running' /\ ToDoNext /\ IndexInv' /\ DoneNext
        BY <2>1 DEF Running, ToDoNext, IndexInv, DoneNext
    <2>4. SavedNext
        BY <1>1, <2>1 DEF SavedNext, SavedWhole
    <2>5. v = Safetensors => ListedNext
        BY <2>1 DEF ListedNext, Listed
    <2> QED
        BY <1>1, <1>2, <2>1, <2>2, <2>3, <2>4, <2>5, Assemble
<1>4. CASE ~Refused(v, force)
    <2> DEFINE d == DiskAtStart(v, force)
               q == Order(d, v)
    <2>1. /\ disk' = d /\ index' = IndexAtStart(v, force) /\ queue' = q
          /\ attempt' = 1 /\ downloaded' = 0
          /\ saved' = (IF ~force THEN saved ELSE IF v = Safetensors THEN {} ELSE saved \ {v})
          /\ \/ q = <<>> /\ outcome' = "Nothing" /\ pc' = pc /\ dest' = (dest /\ ~force)
             \/ q # <<>> /\ outcome' = "Running" /\ pc' = "file" /\ dest' = TRUE
        BY <1>4 DEF Begin
    <2>2. /\ DOMAIN d \subseteq DOMAIN disk /\ \A n \in DOMAIN d : d[n] = disk[n]
          /\ dest /\ force /\ v = Safetensors => DOMAIN d = {}
          /\ \A w \in saved \ {Safetensors} : (force => v # Safetensors /\ w # v) =>
                 \A f \in Variant(w) : f.name \in DOMAIN d
        BY <1>1, StartFacts
    <2> HIDE DEF d
    <2>3. q \in Seq(Files)
          /\ Range(q) = {f \in Metadata(v) : ~Complete(d, f)} \cup {f \in Variant(v) : f.kind = "gguf"}
        BY <1>1, OrderFacts
    <2> HIDE DEF q
    <2>4. Stored(d) /\ \A f \in Files : WholeIn(disk, f) /\ f.name \in DOMAIN d => WholeIn(d, f)
        BY <1>1, <2>2, SubDisk
    <2>5. \A f \in Wanted(v) : f \in Range(q) \/ WholeIn(d, f)
        <3> TAKE f \in Wanted(v)
        <3>1. CASE f \in Variant(v) /\ v # Safetensors
            BY <2>3, <3>1 DEF Variant
        <3>2. CASE f \in Metadata(v) \/ v = Safetensors
            <4>1. f \in Metadata(v) /\ f \in Files
                BY <3>2 DEF Wanted, Metadata, Variant
            <4>2. CASE Complete(d, f)
                <5>1. f.name \in DOMAIN d /\ Len(d[f.name]) = f.size /\ f.size \in Nat
                    BY <1>1, <4>1, <4>2, FileFacts DEF Complete
                <5> QED
                    BY <2>4, <4>1, <5>1, CompleteIsWhole
            <4>3. CASE ~Complete(d, f)
                BY <2>3, <4>1, <4>3
            <4> QED
                BY <4>2, <4>3
        <3> QED
            BY <3>1, <3>2 DEF Wanted
    <2>6. saved' \subseteq saved /\ \A w \in saved' : force => v # Safetensors /\ w # v
        BY <2>1
    <2>7. SavedNext
        <3>1. ASSUME NEW w \in saved' \ {Safetensors}, NEW f \in Variant(w) PROVE WholeIn(d, f)
            <4>1. w \in saved \ {Safetensors} /\ f.name \in DOMAIN d
                BY <2>2, <2>6, <3>1
            <4>2. WholeIn(disk, f) /\ f \in Files
                BY <1>1, <3>1, <4>1 DEF SavedWhole, Variant
            <4> QED
                BY <2>4, <4>1, <4>2
        <3> QED
            BY <2>1, <3>1 DEF SavedNext
    <2>8. ASSUME q = <<>>, force PROVE DOMAIN d = {}
        <3>1. Range(q) = {}
            BY <2>8 DEF Range
        <3>2. CASE v = Safetensors
            BY <1>1, <2>2, <2>8, <3>2
        <3>3. CASE v # Safetensors
            <4>1. PICK f \in Files : f.kind = "gguf" /\ f.variant = v
                BY <3>3 DEF Variants
            <4>2. f \in Variant(v)
                BY <3>3, <4>1 DEF Variant
            <4> QED
                BY <2>3, <3>1, <4>1, <4>2
        <3> QED
            BY <3>2, <3>3
    <2>9. TypedNext
        <3>1. index' \in [exists : BOOLEAN, lines : Seq(Names)]
            BY <1>1, <2>1 DEF IndexAtStart, NoIndex
        <3>2. 1 \in 1 .. DOWNLOAD_ATTEMPTS
            BY RepoAssumption
        <3>3. (DOMAIN disk' # {} => dest') /\ dest' \in BOOLEAN
            <4>1. CASE q = <<>>
                BY <1>1, <2>1, <2>2, <2>8, <4>1
            <4>2. CASE q # <<>>
                BY <2>1, <4>2
            <4> QED
                BY <4>1, <4>2
        <3> QED
            BY <1>1, <1>2, <2>1, <2>3, <2>6, <3>1, <3>2, <3>3 DEF TypedNext
    <2>10. Running' /\ DoneNext /\ IndexInv'
        BY <2>1 DEF Running, DoneNext, IndexInv
    <2>11. ToDoNext
        BY <1>2, <2>1, <2>5 DEF ToDoNext
    <2>12. v = Safetensors => ListedNext
        <3>1. CASE index' = NoIndex
            BY <3>1 DEF ListedNext, NoIndex
        <3>2. CASE index' = index
            BY <2>6, <3>2 DEF ListedNext, Listed
        <3> QED
            BY <2>1, <3>1, <3>2 DEF IndexAtStart
    <2>13. Stored(disk') /\ outcome' \notin {"None", "Saved"}
        BY <2>1, <2>4
    <2> QED
        BY <1>1, <1>2, <2>7, <2>9, <2>10, <2>11, <2>12, <2>13, Assemble
<1> QED
    BY <1>3, <1>4

\* The first run.
LEMMA InitHolds == Init => IInv
<1> SUFFICES ASSUME Init PROVE IInv
    OBVIOUS
<1>1. /\ repo \in Repos /\ index = NoIndex /\ args = [variant |-> Safetensors, force |-> FALSE]
      /\ queue = <<>> /\ attempt = 1 /\ downloaded = 0
      /\ outcome = "None" /\ saved = {} /\ pc = "off"
    BY DEF Init
<1>2. Stored(disk) /\ dest \in BOOLEAN /\ (DOMAIN disk # {} => dest)
    <2>1. CASE dest = FALSE /\ disk = <<>>
        <3>1. DOMAIN disk = {}
            BY <2>1
        <3> QED
            BY <2>1, <3>1 DEF Stored
    <2>2. CASE dest = TRUE /\ \E f \in Files : disk = [n \in {f.name} |-> [i \in 1 .. f.size + 1 |-> 0]]
        <3> DEFINE Old(k) == [i \in 1 .. k |-> 0]
        <3>1. PICK f \in Files : disk = [n \in {f.name} |-> Old(f.size + 1)]
            BY <2>2
        <3>2. f.size \in Nat /\ \A g \in Files : g.name = f.name => g = f
            BY <1>1, FileFacts
        <3>3. Old(f.size + 1) \in Seq(Nat) /\ Len(Old(f.size + 1)) = f.size + 1
            BY <3>2
        <3> HIDE DEF Old
        <3>4. DOMAIN disk = {f.name} /\ disk[f.name] = Old(f.size + 1)
            BY <3>1
        <3>5. f.name \in Names
            BY DEF Names, NamesOf
        <3> QED
            <4>1. \A g \in Files : g.name \in DOMAIN disk => g = f
                BY <3>2, <3>4
            <4>2. ~(Len(disk[f.name]) <= f.size)
                BY <3>2, <3>3, <3>4
            <4>3. Stored(disk)
                BY <3>3, <3>4, <3>5, <4>1, <4>2 DEF Stored
            <4> QED
                BY <2>2, <4>3
    <2> QED
        BY <2>1, <2>2 DEF Init
<1>3. Typed
    <2>1. 1 \in 1 .. DOWNLOAD_ATTEMPTS
        BY RepoAssumption
    <2>2. index \in [exists : BOOLEAN, lines : Seq(Names)]
        BY <1>1 DEF NoIndex
    <2>3. DOMAIN disk \subseteq NamesOf(Files)
        BY <1>2 DEF Stored, Names
    <2> QED
        BY <1>1, <1>2, <2>1, <2>2, <2>3 DEF Typed, TypeOK
<1>4. Running /\ ToDo /\ Done /\ SavedWhole /\ IndexInv
    BY <1>1 DEF Running, ToDo, Done, SavedWhole, IndexInv
<1>5. ListedInv
    BY <1>1 DEF ListedInv, Listed, NoIndex
<1> QED
    BY <1>2, <1>3, <1>4, <1>5 DEF IInv

\* Every step keeps the invariant.
LEMMA NextStep == IInv /\ [Next]_vars => IInv'
<1> SUFFICES ASSUME IInv, [Next]_vars PROVE IInv'
    OBVIOUS
<1>1. CASE NewPull
    <2>1. pc = "off" /\ outcome \in {"None", "Saved"}
        BY <1>1 DEF NewPull
    <2>2. PICK v \in Variants, force \in ForceChoices : Begin(v, force)
        BY <1>1 DEF NewPull
    <2>3. Listed
        BY <2>1 DEF IInv, ListedInv
    <2> QED
        BY <2>1, <2>2, <2>3, BeginStep
<1>2. CASE Rerun
    <2>1. pc = "off" /\ outcome \in {"Failed", "Killed"} /\ Begin(args.variant, args.force)
        BY <1>2 DEF Rerun
    <2>2. args.variant \in Variants /\ (args.variant = Safetensors => Listed)
        BY <2>1 DEF IInv, Typed, ListedInv
    <2> QED
        BY <2>1, <2>2, BeginStep
<1>3. CASE Steps
    BY <1>3, AlreadyThereStep, PartialContentStep, FullContentStep, RangeNotSatisfiableStep, ChunkStep,
       BodyEndsStep, NoIndexNeededStep, CreateIndexStep, IndexLineStep, IndexDoneStep DEF Steps
<1>4. CASE ConnectionLost
    BY <1>4, ConnectionLostStep
<1>5. CASE FatalError
    BY <1>5, FatalErrorStep
<1>6. CASE Kill
    BY <1>6, KillStep
<1>7. CASE UNCHANGED vars
    <2>1. /\ repo' = repo /\ disk' = disk /\ dest' = dest /\ index' = index /\ args' = args
          /\ queue' = queue /\ attempt' = attempt /\ total' = total /\ downloaded' = downloaded
          /\ outcome' = outcome /\ saved' = saved /\ pc' = pc
        BY <1>7 DEF vars, files, run
    <2>2. TypedNext /\ repo \in Repos /\ Stored(disk')
        BY <2>1 DEF IInv, Typed, TypeOK, TypedNext
    <2>3. Running'
        BY <2>1 DEF IInv, Running, Current
    <2>4. ToDoNext /\ DoneNext /\ SavedNext
        BY <2>1 DEF IInv, ToDo, ToDoNext, Done, DoneNext, SavedWhole, SavedNext
    <2>5. args'.variant = Safetensors \/ outcome' \in {"None", "Saved"} => ListedNext
        BY <2>1 DEF IInv, ListedInv, Listed, ListedNext
    <2>6. IndexInv'
        <3>1. Lines' = Lines
            BY <2>1 DEF Lines, Indexed, Present, Files
        <3> QED
            BY <2>1, <3>1 DEF IInv, IndexInv
    <2> QED
        BY <2>1, <2>2, <2>3, <2>4, <2>5, <2>6, Assemble
<1> QED
    BY <1>1, <1>2, <1>3, <1>4, <1>5, <1>6, <1>7 DEF Next

-----------------------------------------------------------------------------
(* What a step does to the bytes on disk.                                  *)

KeepsBytes ==
    ranges /\ ~args'.force =>
        \A f \in Files : Present(f) /\ IsPrefix(disk[f.name], Whole(f)) =>
            f.name \in DOMAIN disk' /\ IsPrefix(disk[f.name], disk'[f.name])

\* A sequence is a prefix of itself, with or without one more.
LEMMA PrefixFacts ==
    ASSUME NEW s \in Seq(Nat)
    PROVE  IsPrefix(s, s) /\ \A x \in Nat : IsPrefix(s, Append(s, x))
<1>1. IsPrefix(s, s)
    BY DEF IsPrefix
<1>2. ASSUME NEW x \in Nat PROVE IsPrefix(s, Append(s, x))
    <2>1. Append(s, x) \in Seq(Nat) /\ Len(Append(s, x)) = Len(s) + 1 /\ Len(s) \in Nat
        OBVIOUS
    <2>2. SubSeq(s, 1, Len(s)) = [i \in 1 .. Len(s) |-> s[i]]
        BY <2>1
    <2>3. SubSeq(Append(s, x), 1, Len(s)) = [i \in 1 .. Len(s) |-> Append(s, x)[i]]
        BY <2>1
    <2>4. \A i \in 1 .. Len(s) : Append(s, x)[i] = s[i]
        OBVIOUS
    <2>5. SubSeq(s, 1, Len(s)) = SubSeq(Append(s, x), 1, Len(s))
        BY <2>2, <2>3, <2>4
    <2> QED
        BY <2>1, <2>5 DEF IsPrefix
<1> QED
    BY <1>1, <1>2

\* A prefix of what upstream holds is no longer than it.
LEMMA PrefixLength ==
    ASSUME NEW f, f.size \in Nat, NEW s, IsPrefix(s, Whole(f))
    PROVE  Len(s) <= f.size
    BY DEF IsPrefix, Whole

\* Where the disk keeps a file as it is, the file is kept.
LEMMA KeepsThose ==
    ASSUME repo \in Repos, Stored(disk),
           \A f \in Files : f.name \in DOMAIN disk /\ Len(disk[f.name]) <= f.size =>
               f.name \in DOMAIN disk' /\ disk'[f.name] = disk[f.name]
    PROVE  KeepsBytes
<1> SUFFICES ASSUME NEW f \in Files, f.name \in DOMAIN disk, IsPrefix(disk[f.name], Whole(f))
             PROVE  f.name \in DOMAIN disk' /\ IsPrefix(disk[f.name], disk'[f.name])
    BY DEF KeepsBytes, Present
<1>1. Len(disk[f.name]) <= f.size
    BY FileFacts, PrefixLength
<1>2. IsPrefix(disk[f.name], disk[f.name])
    BY PrefixFacts DEF Stored
<1> QED
    BY <1>1, <1>2

\* A rerun gives up no bytes.
LEMMA BeginKeeps ==
    ASSUME IInv, NEW v, NEW force, Begin(v, force)
    PROVE  KeepsBytes
<1>1. repo \in Repos /\ Stored(disk) /\ SavedWhole
    BY DEF IInv, Typed
<1>2. args'.force = force
    BY DEF Begin
<1>3. CASE force
    BY <1>2, <1>3 DEF KeepsBytes
<1>4. CASE ~force
    <2> DEFINE d == DiskAtStart(v, force)
    <2>1. disk' = disk \/ disk' = d
        BY DEF Begin, files
    <2>2. /\ \A n \in DOMAIN d : d[n] = disk[n]
          /\ \A f \in Files : f.name \in DOMAIN disk /\ Len(disk[f.name]) <= f.size => f.name \in DOMAIN d
        BY <1>1, <1>4, StartFacts
    <2> HIDE DEF d
    <2> QED
        BY <1>1, <2>1, <2>2, KeepsThose
<1> QED
    BY <1>3, <1>4

\* An ignored range gives up no bytes it need not.
LEMMA FullContentKeeps ==
    ASSUME IInv, FullContent
    PROVE  KeepsBytes
<1>1. pc = "file" /\ disk' = Written(Current, <<>>) /\ (Have(Current) = 0 \/ ~ranges)
    BY DEF FullContent, Requests, Opened
<1>2. repo \in Repos /\ Stored(disk) /\ Current \in Files
    BY <1>1, InRun
<1>3. CASE ~ranges
    BY <1>3 DEF KeepsBytes
<1>4. CASE Have(Current) = 0
    <2>1. <<>> \in Seq(Nat) /\ Len(<<>>) = 0 /\ Piece(0) = <<>>
        BY DEF Piece
    <2>2. /\ disk'[Current.name] = <<>> /\ DOMAIN disk' = DOMAIN disk \cup {Current.name}
          /\ \A n \in DOMAIN disk \ {Current.name} : disk'[n] = disk[n]
        BY <1>1 DEF Written
    <2>3. Current.name \in DOMAIN disk => disk[Current.name] = <<>>
        <3>1. SUFFICES ASSUME Current.name \in DOMAIN disk PROVE disk[Current.name] = <<>>
            OBVIOUS
        <3>2. disk[Current.name] \in Seq(Nat) /\ Len(disk[Current.name]) = 0
            BY <1>2, <1>4, <3>1 DEF Stored, Have, HaveIn
        <3> QED
            BY <3>2
    <2> QED
        BY <1>2, <2>2, <2>3, KeepsThose
<1> QED
    BY <1>1, <1>3, <1>4

\* A chunk goes behind what is there.
LEMMA ChunkKeeps ==
    ASSUME IInv, Chunk
    PROVE  KeepsBytes
<1>1. pc = "body" /\ disk' = Written(Current, Append(disk[Current.name], downloaded + 1))
    BY DEF Chunk
<1>2. Current.name \in DOMAIN disk
    BY <1>1 DEF IInv, Running
<1>3. repo \in Repos /\ Stored(disk) /\ Current \in Files /\ downloaded \in Nat
    BY <1>1, InRun
<1>4. /\ disk'[Current.name] = Append(disk[Current.name], downloaded + 1)
      /\ DOMAIN disk' = DOMAIN disk \cup {Current.name}
      /\ \A n \in DOMAIN disk \ {Current.name} : disk'[n] = disk[n]
    BY <1>1 DEF Written
<1> SUFFICES ASSUME NEW f \in Files, f.name \in DOMAIN disk
             PROVE  f.name \in DOMAIN disk' /\ IsPrefix(disk[f.name], disk'[f.name])
    BY DEF KeepsBytes, Present
<1>5. disk[f.name] \in Seq(Nat) /\ downloaded + 1 \in Nat
    BY <1>3 DEF Stored
<1>6. IsPrefix(disk[f.name], disk[f.name]) /\ IsPrefix(disk[f.name], Append(disk[f.name], downloaded + 1))
    BY <1>5, PrefixFacts
<1> QED
    BY <1>4, <1>6

\* 416 gives up only what was too long.
LEMMA RangeNotSatisfiableKeeps ==
    ASSUME IInv, RangeNotSatisfiable
    PROVE  KeepsBytes
<1>1. pc = "file" /\ disk' = Removed({Current.name}) /\ Have(Current) > Current.size
    BY DEF RangeNotSatisfiable, Requests, StartOver
<1>2. /\ repo \in Repos /\ Stored(disk) /\ Current \in Files /\ Current.size \in Nat
      /\ Have(Current) \in Nat
    BY <1>1, InRun
<1>3. DOMAIN disk' = DOMAIN disk \ {Current.name} /\ \A n \in DOMAIN disk' : disk'[n] = disk[n]
    BY <1>1, RemovedFacts
<1>4. ASSUME NEW f \in Files, f.name \in DOMAIN disk, Len(disk[f.name]) <= f.size
      PROVE  f.name # Current.name
    <2>1. SUFFICES ASSUME f.name = Current.name PROVE FALSE
        OBVIOUS
    <2>2. f = Current
        BY <1>2, <2>1, FileFacts
    <2>3. Have(Current) = Len(disk[f.name])
        BY <1>4, <2>2 DEF Have, HaveIn
    <2> QED
        BY <1>1, <1>2, <1>4, <2>2, <2>3
<1> QED
    BY <1>2, <1>3, <1>4, KeepsThose

\* Every step keeps the bytes.
LEMMA KeepsStep == IInv /\ [Next]_vars => [KeepsBytes]_vars
<1> SUFFICES ASSUME IInv, Next PROVE KeepsBytes
    OBVIOUS
<1>1. repo \in Repos /\ Stored(disk)
    BY DEF IInv, Typed
<1>2. CASE NewPull \/ Rerun
    BY <1>2, BeginKeeps DEF NewPull, Rerun
<1>3. CASE FullContent
    BY <1>3, FullContentKeeps
<1>4. CASE Chunk
    BY <1>4, ChunkKeeps
<1>5. CASE RangeNotSatisfiable
    BY <1>5, RangeNotSatisfiableKeeps
<1>6. ASSUME disk' = disk PROVE KeepsBytes
    BY <1>1, <1>6, KeepsThose
<1>7. AlreadyThere \/ PartialContent \/ BodyEnds \/ NoIndexNeeded \/ CreateIndex \/ IndexLine \/ IndexDone
      \/ ConnectionLost \/ FatalError \/ Kill => disk' = disk
    BY DEF AlreadyThere, PartialContent, BodyEnds, NoIndexNeeded, CreateIndex, IndexLine, IndexDone,
           ConnectionLost, Kept, FatalError, Kill, files
<1> QED
    BY <1>2, <1>3, <1>4, <1>5, <1>6, <1>7 DEF Next, Steps

-----------------------------------------------------------------------------
(* The theorems.                                                           *)

\* Whatever the server, the network, kills and reruns do, a run's queue, its
\* files, what was saved and the index agree as the inductive invariant says.
THEOREM PullInvariant == Spec => []IInv
    BY InitHolds, NextStep, PTL DEF Spec

\* The state of a pull stays well typed: only listed files are on disk, and
\* only variants of the listing are ever saved.
THEOREM PullTypeCorrect == Spec => []TypeOK
<1>1. IInv => TypeOK
    BY DEF IInv, Typed
<1> QED
    BY <1>1, PullInvariant, PTL

\* For every listing and any number of faults, kills and reruns: when a pull
\* reports success its files are whole, and every variant saved before is still
\* whole and found by the loader (hub.rs, pull and download_file).
THEOREM SavedAlwaysWhole == Spec => []SavedIsWhole
<1>1. IInv => SavedIsWhole
    <2> SUFFICES ASSUME IInv, outcome = "Saved"
                 PROVE  /\ \A f \in Wanted(args.variant) : Complete(disk, f) /\ disk[f.name] = Whole(f)
                        /\ \A v \in saved \ {Safetensors} :
                              /\ NamesOf(Variant(v)) \subseteq find_gguf_files
                              /\ \A f \in Variant(v) : disk[f.name] = Whole(f)
        BY DEF SavedIsWhole
    <2>1. repo \in Repos /\ Stored(disk) /\ SavedWhole /\ Listed
          /\ \A f \in Wanted(args.variant) : WholeIn(disk, f)
        BY DEF IInv, Typed, ListedInv, Done
    <2>2. \A f : Whole(f) = Piece(f.size)
        BY DEF Whole, Piece
    <2>3. \A f \in Wanted(args.variant) : Complete(disk, f) /\ disk[f.name] = Whole(f)
        <3> TAKE f \in Wanted(args.variant)
        <3>1. f \in Files /\ WholeIn(disk, f)
            BY <2>1 DEF Wanted, Metadata, Variant
        <3>2. f.size \in Nat /\ f.name \in DOMAIN disk
            BY <2>1, <3>1, FileFacts DEF WholeIn
        <3>3. Len(disk[f.name]) = f.size
            BY <2>1, <3>1, <3>2, CompleteIsWhole
        <3> QED
            BY <2>2, <3>1, <3>2, <3>3 DEF Complete, WholeIn
    <2>4. ASSUME NEW v \in saved \ {Safetensors}
          PROVE  /\ NamesOf(Variant(v)) \subseteq find_gguf_files
                 /\ \A f \in Variant(v) : disk[f.name] = Whole(f)
        <3>1. \A f \in Variant(v) : WholeIn(disk, f) /\ f \in Files /\ f.kind = "gguf"
            BY <2>1, <2>4 DEF SavedWhole, Variant
        <3>2. \A f \in Variant(v) : disk[f.name] = Whole(f)
            BY <2>2, <3>1 DEF WholeIn
        <3>3. NamesOf(Variant(v)) \subseteq find_gguf_files
            <4>1. CASE index.exists /\ index.lines # <<>>
                <5>1. find_gguf_files = Range(index.lines)
                    BY <4>1 DEF find_gguf_files
                <5> QED
                    BY <2>1, <2>4, <4>1, <5>1 DEF Listed
            <4>2. CASE ~(index.exists /\ index.lines # <<>>)
                <5>1. find_gguf_files = {f.name : f \in {g \in Files : g.kind = "gguf" /\ Present(g)}}
                    BY <4>2 DEF find_gguf_files
                <5>2. \A f \in Variant(v) : Present(f)
                    BY <3>1 DEF WholeIn, Present
                <5>3. Variant(v) \subseteq {g \in Files : g.kind = "gguf" /\ Present(g)}
                    BY <3>1, <5>2
                <5> QED
                    BY <5>1, <5>3 DEF NamesOf
            <4> QED
                BY <4>1, <4>2
        <3> QED
            BY <3>2, <3>3
    <2> QED
        BY <2>3, <2>4
<1> QED
    BY <1>1, PullInvariant, PTL

\* Without --force and with a server that honours ranges no step, a broken
\* connection, a kill or a rerun included, gives up a piece that was fetched
\* (hub.rs, pull and fetch_from).
THEOREM BytesAlwaysKept == Spec => BytesKept
<1>1. Spec => [][KeepsBytes]_vars
    BY PullInvariant, KeepsStep, PTL DEF Spec
<1>2. [][KeepsBytes]_vars => BytesKept
    BY PTL DEF KeepsBytes, BytesKept
<1> QED
    BY <1>1, <1>2, PTL

=============================================================================
