-------------------------- MODULE SimpleFileSystem ---------------------------
(***************************************************************************)
(* The SimpleFileSystem and File protocols of                              *)
(* efi/protocols/simple_file_system.rs over one mounted FAT volume: a pool *)
(* of file handles that a boot loader opens, reads, seeks and closes.      *)
(* Every call mounts the volume anew, as it was mounted before; a handle   *)
(* holds a path, a first cluster, a size and a position.  A path is the    *)
(* sequence of its components, each standing for all spellings of its      *)
(* name; what a path loses beyond MAX_PATH_LEN is counted in components.   *)
(***************************************************************************)
EXTENDS FatFilesystem

CONSTANTS
  MAX_FILE_HANDLES,  \* 32
  MAX_PATH_LEN,      \* components that fit the path buffer
  Paths,             \* names the boot loader opens
  Lengths,           \* sizes of its buffers
  Seeks,             \* positions it seeks to
  END                \* 0xFFFFFFFFFFFFFFFF, the position that means the end

NoVolume == [none |-> TRUE]

VARIABLES
  volume,        \* what the block device holds from partition_start on
  file_handles,  \* FILE_HANDLES
  file_reply,    \* the last call and its answer
  view           \* what the loader knows of its handles

fileVars == <<volume, file_handles, file_reply, view>>

FileHandle == [in_use |-> FALSE, path |-> <<>>, position |-> 0, file_size |-> 0,
               first_cluster |-> 0, is_directory |-> FALSE]

NoReply == [op |-> "none", st |-> "SUCCESS", h |-> 0, at |-> 0, len |-> 0, n |-> 0,
            pieces |-> <<>>, entry |-> NoEntry, path |-> <<>>]

\* For the loader a handle is the file it opened and the position its own
\* reads and seeks have brought it to.
NoView == [entry |-> NoEntry, at |-> 0]

FilesInit ==
  /\ file_handles = [h \in 1 .. MAX_FILE_HANDLES |-> FileHandle]
  /\ file_reply = NoReply
  /\ view = [h \in 1 .. MAX_FILE_HANDLES |-> NoView]

\* init keeps the volume when it mounts.
SfsInit(v) == volume' = IF v # NoVolume THEN v ELSE volume

----------------------------------------------------------------------------
Free == {h \in DOMAIN file_handles : ~file_handles[h].in_use}

FirstFree == CHOOSE h \in Free : \A i \in Free : h <= i

Answer(op, st, h) == [NoReply EXCEPT !.op = op, !.st = st, !.h = h]

\* A call that changes nothing; of its answer only the status is kept.
Refuse(st) ==
  /\ file_reply' = Answer("none", st, 0)
  /\ UNCHANGED <<volume, file_handles, view>>

\* The firmware has panicked, and no call follows.
Panic ==
  /\ file_reply' = Answer("panic", "PANIC", 0)
  /\ UNCHANGED <<volume, file_handles, view>>

\* A handle is filled; closing leaves the rest of an entry as it was.
Give(path, e) ==
  /\ file_handles' = [file_handles EXCEPT ![FirstFree] =
       [in_use |-> TRUE, path |-> path, position |-> 0, file_size |-> e.size,
        first_cluster |-> e.first, is_directory |-> e.kind = "dir"]]
  /\ file_reply' = NoReply
  /\ UNCHANGED volume

RootEntry(v) == [NoEntry EXCEPT !.kind = "dir", !.first = v.fs.root]

sfs_open_volume ==
  IF Free = {} THEN Refuse("OUT_OF_RESOURCES")
  ELSE IF volume = NoVolume THEN Refuse("NOT_READY")
  ELSE /\ Give(<<>>, RootEntry(volume))
       /\ view' = [view EXCEPT ![FirstFree] = [NoView EXCEPT !.entry = RootEntry(volume)]]

\* What is left of a path that is too long: it may be cut inside a component.
Kept(path) ==
  IF Len(path) <= MAX_PATH_LEN THEN {path}
  ELSE {SubSeq(path, 1, MAX_PATH_LEN), Append(SubSeq(path, 1, MAX_PATH_LEN - 1), "fragment")}

build_full_path_relative(parent, name, absolute) == Kept(parent \o name)

\* build_full_path and normalize_path: no component is interpreted.
build_full_path(parent, name, absolute) == Kept(IF absolute THEN name ELSE parent \o name)

\* What the loader means by a name: the entry that a walk through the tree
\* of the volume arrives at.
EntriesOf(v, chain) ==
  LET all[i \in 0 .. Len(chain)] ==
        IF i = 0 THEN <<>>
        ELSE all[i - 1] \o (IF chain[i] \in DOMAIN v.dirs THEN v.dirs[chain[i]] ELSE <<>>)
  IN  all[Len(chain)]

DirEntries(v, e) ==
  Visible(IF e.first = 0 /\ v.fs.type # 32 THEN v.root ELSE EntriesOf(v, Chain(v, e.first)))

Named(v, path) ==
  LET Child(es, name) ==
        LET same == {i \in DOMAIN es : es[i].name = name}
        IN  IF same = {} THEN NoEntry ELSE es[CHOOSE i \in same : TRUE]
      Below(d, name) == IF d.kind = "dir" THEN Child(DirEntries(v, d), name) ELSE NoEntry
      walk[k \in 0 .. Len(path)] == IF k = 0 THEN RootEntry(v) ELSE Below(walk[k - 1], path[k])
  IN  walk[Len(path)]

\* Of a name that is cut the loader knows only what it got.
Opened(h, meant, path, found) ==
  CASE found.st = "panic" -> Panic
    [] found.st \notin {"ok", "panic"} ->
         /\ file_reply' = [Answer("open", "NOT_FOUND", 0) EXCEPT !.path = meant]
         /\ UNCHANGED <<volume, file_handles, view>>
    [] found.st = "ok" /\ Free = {} -> Refuse("OUT_OF_RESOURCES")
    [] OTHER ->
         /\ Give(path, found.entry)
         /\ view' = [view EXCEPT ![FirstFree] = [NoView EXCEPT !.entry =
                       IF Len(meant) > MAX_PATH_LEN THEN found.entry ELSE Named(volume, meant)]]

file_open(h, name, absolute, mode) ==
  CASE mode # "read" -> Refuse("UNSUPPORTED")
    [] mode = "read" /\ ~file_handles[h].in_use -> Refuse("INVALID_PARAMETER")
    [] OTHER -> \E path \in build_full_path(file_handles[h].path, name, absolute) :
                  Opened(h, IF absolute THEN name ELSE file_handles[h].path \o name,
                         path, find_file(volume, path))

file_close(h) ==
  IF ~file_handles[h].in_use THEN Refuse("INVALID_PARAMETER")
  ELSE /\ file_handles' = [file_handles EXCEPT ![h].in_use = FALSE, ![h].path = <<>>,
                                               ![h].position = 0]
       /\ view' = [view EXCEPT ![h] = NoView]
       /\ file_reply' = NoReply
       /\ UNCHANGED volume

\* A call that returned data: the handle has moved on, and so has the loader.
Advance(h, n, reply) ==
  /\ file_handles' = [file_handles EXCEPT ![h].position = @ + n]
  /\ view' = [view EXCEPT ![h].at = @ + n]
  /\ file_reply' = [reply EXCEPT !.at = view[h].at, !.n = n]
  /\ UNCHANGED volume

\* A directory gives its entries one by one; fits is whether the buffer
\* holds the next one.
Listing(h, got, fits) ==
  CASE got.st = "panic" -> Panic
    [] got.st \notin {"ok", "end", "panic"} -> Refuse("DEVICE_ERROR")
    [] got.st = "ok" /\ ~fits -> Refuse("BUFFER_TOO_SMALL")
    [] OTHER -> Advance(h, IF got.st = "ok" THEN 1 ELSE 0,
                        [Answer("list", "SUCCESS", h) EXCEPT !.entry = got.entry])

read_directory(h, fits) ==
  LET fh == file_handles[h]
  IN  Listing(h, get_directory_entry_at_position(volume, fh.first_cluster, fh.position), fits)

\* read_file at the position of the handle.
Reads(h, len, got) ==
  CASE got.st = "err" -> Refuse("DEVICE_ERROR")
    [] got.st = "panic" -> Panic
    [] OTHER -> Advance(h, got.n, [Answer("read", "SUCCESS", h) EXCEPT
                                     !.len = len, !.pieces = got.pieces])

file_read(h, len, fits) ==
  LET fh == file_handles[h]
  IN  CASE ~fh.in_use -> Refuse("INVALID_PARAMETER")
        [] fh.in_use /\ fh.is_directory -> read_directory(h, fits)
        [] OTHER -> Reads(h, len, read_file(volume, fh.first_cluster, fh.file_size, fh.position, len))

file_get_position(h) ==
  LET fh == file_handles[h]
  IN  CASE ~fh.in_use -> Refuse("INVALID_PARAMETER")
        [] fh.is_directory -> Refuse("UNSUPPORTED")
        [] OTHER -> /\ file_reply' = [Answer("tell", "SUCCESS", h) EXCEPT
                                        !.n = fh.position, !.at = view[h].at]
                    /\ UNCHANGED <<volume, file_handles, view>>

MoveTo(h, to, seen) ==
  /\ file_handles' = [file_handles EXCEPT ![h].position = to]
  /\ view' = [view EXCEPT ![h].at = seen]
  /\ file_reply' = NoReply
  /\ UNCHANGED volume

file_set_position(h, p) ==
  LET fh == file_handles[h]
  IN  CASE ~fh.in_use -> Refuse("INVALID_PARAMETER")
        [] fh.is_directory /\ p # 0 -> Refuse("UNSUPPORTED")
        [] p = END -> MoveTo(h, fh.file_size, view[h].entry.size)
        [] OTHER -> MoveTo(h, p, p)

\* GetInfo answers from the handle; the name is the last component.  The
\* other kind of information, about the file system, is the same for all.
file_get_info(h, type, fits) ==
  LET fh == file_handles[h]
      name == IF fh.path = <<>> THEN "" ELSE fh.path[Len(fh.path)]
      info == [NoEntry EXCEPT !.name = name, !.size = fh.file_size,
                              !.kind = IF fh.is_directory THEN "dir" ELSE "file"]
  IN  CASE ~fh.in_use -> Refuse("INVALID_PARAMETER")
        [] fh.in_use /\ type = "other" -> Refuse("UNSUPPORTED")
        [] fh.in_use /\ type # "other" /\ ~fits -> Refuse("BUFFER_TOO_SMALL")
        [] fh.in_use /\ type = "file system" /\ fits -> Refuse("SUCCESS")
        [] OTHER -> /\ file_reply' = [Answer("info", "SUCCESS", h) EXCEPT !.entry = info]
                    /\ UNCHANGED <<volume, file_handles, view>>

\* Delete, Write and SetInfo are refused; Flush has nothing to do.
file_unsupported == \E st \in {"UNSUPPORTED", "SUCCESS"} : Refuse(st)

FilesNext ==
  /\ file_reply.op # "panic"
  /\ \/ sfs_open_volume \/ file_unsupported
     \/ \E h \in DOMAIN file_handles :
          \/ \E name \in Paths, absolute \in BOOLEAN, mode \in {"read", "write"} :
               file_open(h, name, absolute, mode)
          \/ file_close(h)
          \/ \E len \in Lengths, fits \in BOOLEAN : file_read(h, len, fits)
          \/ file_get_position(h)
          \/ \E p \in Seeks \cup {END} : file_set_position(h, p)
          \/ \E type \in {"file", "file system", "other"}, fits \in BOOLEAN :
               file_get_info(h, type, fits)

----------------------------------------------------------------------------
\* A read that succeeds delivers the bytes of the file the loader opened,
\* from the position its reads and seeks add up to, as many as it asked for
\* and the file has (read_file over the packed table, through blocks of any
\* size); a directory gives its entries in order, each once, and its end only
\* after the last (read_directory, get_directory_entry_at_position); and
\* GetPosition agrees with the loader's count, GetInfo with the entry.
ReadsAreExact ==
  LET r == file_reply
      e == view[r.h].entry
      entries == DirEntries(volume, e)
  IN  (r.h > 0 /\ r.st = "SUCCESS") =>
        /\ r.op = "read" =>
             /\ e.kind = "file"
             /\ PiecesAreFile(volume, e.first, r.at, r.n, r.pieces)
             /\ r.n = (CASE r.at >= e.size -> 0
                         [] r.len < e.size - r.at -> r.len
                         [] OTHER -> e.size - r.at)
        /\ r.op = "list" =>
             /\ e.kind = "dir"
             /\ IF r.n = 1 THEN r.entry = entries[r.at + 1] ELSE r.at = Len(entries)
        /\ r.op = "tell" => r.n = r.at
        /\ r.op = "info" => r.entry = [e EXCEPT !.first = 0]

Plain(path) == Len(path) \in 1 .. MAX_PATH_LEN /\ \A i \in DOMAIN path : path[i] \notin {".", ".."}

\* An open handle is the file its name meant, in whichever directory the
\* name starts, unless it is cut, and no handle is lost; Open reports a file as not found only
\* where there is none, a block is bad, or the name is empty, too long, or has
\* "." or ".." in it (file_open, build_full_path, find_file, file_close).
OpensAreExact ==
  /\ \A h \in DOMAIN file_handles :
       LET fh == file_handles[h]
           e == view[h].entry
       IN  IF fh.in_use
           THEN /\ e.kind \in {"file", "dir"} /\ fh.is_directory = (e.kind = "dir")
                /\ fh.first_cluster = e.first /\ fh.file_size = e.size
           ELSE e = NoEntry
  /\ (/\ file_reply.op = "open" /\ file_reply.st = "NOT_FOUND"
      /\ Plain(file_reply.path) /\ volume.bad = {}) => Named(volume, file_reply.path) = NoEntry
=============================================================================
