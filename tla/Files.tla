------------------------------- MODULE Files -------------------------------
(***************************************************************************)
(* File descriptors of the programs: the WASI calls of wasi.c over the     *)
(* handle table of vfs.c.  Descriptor fd is handle fd - 4; the pre-opened  *)
(* descriptor 3 is the root directory.  FatFs (external) is modelled by    *)
(* what vfs.c uses it for: a directory of names in the order of their      *)
(* slots, the bytes of each file, and in every open file a position.       *)
(*                                                                         *)
(* Every vfs.c call is one critical section; a WASI call is several, but   *)
(* the handle belongs to one program, which has one thread.  Programs      *)
(* rename and delete files that nobody has open.                           *)
(***************************************************************************)
EXTENDS Naturals, Sequences, SequencesExt, FiniteSetsExt

CONSTANTS Names,        \* names that may be in the root directory
          Opened,       \* those that programs open as files
          Long,         \* the names of two characters; the others have one
          StartFiles,   \* names at mount, in the order of their slots
          Bytes,        \* what a program writes
          NHandles,     \* VFS_MAX_HANDLES
          HeaderLen,    \* sizeof(wasi_dirent_header_t)
          BufLens,      \* buffer sizes given to fd_readdir
          ReadLens,     \* lengths of the scatter lists, all buffers together
          MaxSize       \* bound: bytes of a file

VARIABLES order,        \* root directory: names in the order of their slots
          dirs,         \* those that are directories
          file,         \* name -> the bytes of the file
          saved,        \* name -> the size in its directory entry
          handle,       \* g_handles
          listing,      \* a program that lists the root page by page
          result        \* what fd_pread, fd_readdir and the two stat calls returned last

vars == <<order, dirs, file, saved, handle, listing, result>>

Handles == 0 .. NHandles - 1
Junk == "?"
Unused == [type |-> "unused"]
Offsets == 0 .. MaxSize
NoResult == [call |-> "none"]

Present == Range(order)
IsDir(n) == n \in dirs
IsFile(h) == handle[h].type = "file"
Size(n) == Len(file[n])
OpenOn(n) == {h \in Handles : IsFile(h) /\ handle[h].name = n}
FreeHandles == {h \in Handles : handle[h] = Unused}

Init ==
    /\ order = StartFiles
    /\ dirs = {}
    /\ file = [n \in Names |-> << >>]
    /\ saved = [n \in Names |-> 0]
    /\ handle = [h \in Handles |-> Unused]
    /\ listing = [on |-> FALSE]
    /\ result = NoResult
-----------------------------------------------------------------------------
(* f_lseek: past the end a file open for writing grows, one open for reading
   stays at its end. *)
Grown(bytes, n) == bytes \o [i \in 1 .. n - Len(bytes) |-> Junk]
SeekPos(h, at) ==
    IF handle[h].write THEN at ELSE Min({at, Size(handle[h].name)})
SeekBytes(h, at) ==
    IF handle[h].write /\ at > Size(handle[h].name) THEN Grown(file[handle[h].name], at)
    ELSE file[handle[h].name]

(* The loop over the buffers stops at the first that is not filled, so what
   is read is what one buffer of their total length would get. *)
ReadAt(bytes, at, len) == SubSeq(bytes, at + 1, Min({at + len, Len(bytes)}))

WrittenAt(bytes, at, new) ==
    [i \in 1 .. Max({Len(bytes), at + Len(new)}) |->
        IF i \in at + 1 .. at + Len(new) THEN new[i - at] ELSE bytes[i]]

(* A change of the directory takes a slot or frees one, anywhere, and ends
   the listing that is going on. *)
Added(n, old, new) == \E i \in 1 .. Len(old) + 1 : new = InsertAt(old, i, n)
NotListing == [on |-> FALSE]

(* wasi_path_open and vfs_open: the lowest free handle; "/" and a name that
   cannot be opened as a file are opened as directories. *)
NewDir(n) == [type |-> "dir", name |-> n, at |-> 0]
NewFile(n, write) == [type |-> "file", name |-> n, pos |-> 0, write |-> write]
Clears(n, trunc) == n \notin Present \/ (~IsDir(n) /\ trunc)

PathOpen(n, write, create, trunc) ==
    /\ FreeHandles # {}
    /\ n \in Present \/ create \/ trunc
    /\ \A h \in OpenOn(n) : ~write /\ ~trunc /\ ~handle[h].write
    /\ handle' = [handle EXCEPT ![Min(FreeHandles)] =
                     IF IsDir(n) THEN NewDir(n) ELSE NewFile(n, write)]
    /\ IF n \in Present THEN UNCHANGED <<order, dirs, saved, listing>>
       ELSE Added(n, order, order') /\ listing' = NotListing
    /\ file' = IF Clears(n, trunc) THEN [file EXCEPT ![n] = << >>] ELSE file
    /\ saved' = IF Clears(n, trunc) THEN [saved EXCEPT ![n] = 0] ELSE saved
    /\ result' = NoResult
    /\ UNCHANGED dirs

(* No handle is free, or the name is not there: the handle is released. *)
PathOpenFails(n) ==
    /\ FreeHandles = {} \/ n \notin Present
    /\ result' = NoResult
    /\ UNCHANGED <<order, dirs, file, saved, handle, listing>>

(* f_close and f_sync write the size to the directory entry. *)
FdClose(h) ==
    /\ handle[h] # Unused
    /\ handle' = [handle EXCEPT ![h] = Unused]
    /\ saved' = IF IsFile(h) /\ handle[h].write THEN [saved EXCEPT ![handle[h].name] = Size(handle[h].name)]
                ELSE saved
    /\ listing' = IF listing.on /\ listing.via = h THEN NotListing ELSE listing
    /\ result' = NoResult
    /\ UNCHANGED <<order, dirs, file>>

FdSync(h) ==
    /\ IsFile(h)
    /\ saved' = [saved EXCEPT ![handle[h].name] = IF handle[h].write THEN Size(handle[h].name) ELSE @]
    /\ result' = NoResult
    /\ UNCHANGED <<order, dirs, file, handle, listing>>

(* fd_filestat_get asks the open file, path_filestat_get the directory. *)
FstatSize(h) == IF IsFile(h) THEN Size(handle[h].name) ELSE 0

FdFilestat(h) ==
    /\ handle[h] # Unused
    /\ result' = [call |-> "stat", type |-> handle[h].type,
                  size |-> FstatSize(h)]
    /\ UNCHANGED <<order, dirs, file, saved, handle, listing>>

PathFilestat(n) ==
    /\ n \in Present
    /\ result' = [call |-> "stat", type |-> IF IsDir(n) THEN "dir" ELSE "file", size |-> saved[n]]
    /\ UNCHANGED <<order, dirs, file, saved, handle, listing>>

FdRead(h, len) ==
    /\ IsFile(h)
    /\ result' = NoResult
    /\ handle' = [handle EXCEPT ![h].pos = @ + Len(ReadAt(file[handle[h].name], @, len))]
    /\ UNCHANGED <<order, dirs, file, saved, listing>>

(* f_write refuses a file that is not open for writing; wasi_fd_write then
   reports success and no bytes. *)
FdWrite(h, new) ==
    /\ IsFile(h)
    /\ IF handle[h].write
       THEN /\ handle[h].pos + Len(new) <= MaxSize
            /\ file' = [file EXCEPT ![handle[h].name] = WrittenAt(@, handle[h].pos, new)]
            /\ handle' = [handle EXCEPT ![h].pos = @ + Len(new)]
       ELSE UNCHANGED <<file, handle>>
    /\ result' = NoResult
    /\ UNCHANGED <<order, dirs, saved, listing>>

(* The new offset is reported as it was asked for, not as FatFs set it. *)
FdSeek(h, whence, by) ==
    LET target == CASE whence = "set" -> by
                    [] whence = "cur" -> handle[h].pos + by
                    [] whence = "end" -> Size(handle[h].name) + by
    IN  /\ IsFile(h)
        /\ target <= MaxSize
        /\ file' = [file EXCEPT ![handle[h].name] = SeekBytes(h, target)]
        /\ handle' = [handle EXCEPT ![h].pos = SeekPos(h, target)]
        /\ result' = NoResult
        /\ UNCHANGED <<order, dirs, saved, listing>>

(* Tell, seek, read in a loop, seek back. *)
FdPread(h, at, len) ==
    /\ IsFile(h)
    /\ file' = [file EXCEPT ![handle[h].name] = SeekBytes(h, at)]
    /\ result' = [call |-> "pread", h |-> h, at |-> at, len |-> len,
                  got |-> ReadAt(SeekBytes(h, at), SeekPos(h, at), len)]
    /\ UNCHANGED <<order, dirs, saved, handle, listing>>

FdPwrite(h, at, new) ==
    /\ IsFile(h)
    /\ at + Len(new) <= MaxSize
    /\ file' = [file EXCEPT ![handle[h].name] =
                   IF handle[h].write THEN WrittenAt(SeekBytes(h, at), at, new) ELSE @]
    /\ result' = NoResult
    /\ UNCHANGED <<order, dirs, saved, handle, listing>>

\* A slip, for FdSetSize.
FdSetSizeKeepsPosition(h, n) ==
    /\ IsFile(h)
    /\ file' = [file EXCEPT ![handle[h].name] =
                   IF handle[h].write THEN SubSeq(SeekBytes(h, n), 1, n) ELSE @]
    /\ result' = NoResult
    /\ UNCHANGED <<order, dirs, saved, handle, listing>>

(* vfs_truncate seeks first, so the file may grow too, and the position
   stays where the file ends; without write access f_truncate refuses after
   the seek. *)
FdSetSize(h, n) ==
    /\ IsFile(h)
    /\ handle' = [handle EXCEPT ![h].pos = SeekPos(h, n)]
    /\ file' = [file EXCEPT ![handle[h].name] =
                   IF handle[h].write THEN SubSeq(SeekBytes(h, n), 1, n) ELSE @]
    /\ result' = NoResult
    /\ UNCHANGED <<order, dirs, saved, listing>>

PathMkdir(n) ==
    /\ n \notin Present
    /\ Added(n, order, order')
    /\ dirs' = dirs \cup {n}
    /\ listing' = NotListing
    /\ result' = NoResult
    /\ UNCHANGED <<file, saved, handle>>

PathUnlink(n) ==
    /\ n \in Present
    /\ \A h \in Handles : handle[h] # Unused => handle[h].name # n
    /\ \E i \in DOMAIN order : order[i] = n /\ order' = RemoveAt(order, i)
    /\ dirs' = dirs \ {n}
    /\ file' = [file EXCEPT ![n] = << >>]
    /\ saved' = [saved EXCEPT ![n] = 0]
    /\ listing' = NotListing
    /\ result' = NoResult
    /\ UNCHANGED handle

PathRename(old, new) ==
    /\ old \in Present /\ new \notin Present
    /\ \A h \in Handles : handle[h] # Unused => handle[h].name # old
    /\ \E i \in DOMAIN order : order[i] = old /\ Added(new, RemoveAt(order, i), order')
    /\ dirs' = IF IsDir(old) THEN (dirs \ {old}) \cup {new} ELSE dirs
    /\ file' = [file EXCEPT ![new] = file[old], ![old] = << >>]
    /\ saved' = [saved EXCEPT ![new] = saved[old], ![old] = 0]
    /\ listing' = NotListing
    /\ result' = NoResult
    /\ UNCHANGED handle
-----------------------------------------------------------------------------
(* wasi_fd_readdir.  Entries go into the buffer until a header does not fit
   (that entry has been read all the same) or the buffer is full; the last
   name may be cut.  Descriptor 3 opens the root anew; another descriptor
   goes on where it stood.  Either way as many entries are skipped as the
   cookie says. *)
\* A header and the name, of one character or two.
LenOf(names) ==
    Len(names) * (HeaderLen + 1) + Cardinality({i \in DOMAIN names : names[i] \in Long})

PageFrom(start, len) ==
    LET rest  == SubSeq(order, start + 1, Len(order))
        taken == Max({k \in 0 .. Len(rest) :
                        \A j \in 0 .. k - 1 : LenOf(SubSeq(rest, 1, j)) + HeaderLen <= len})
        names == SubSeq(rest, 1, taken)
    IN  [names |-> names,
         whole |-> SubSeq(names, 1, Max({k \in 0 .. taken :
                     \A j \in 1 .. k : LenOf(SubSeq(names, 1, j)) <= len})),
         read  |-> start + taken + IF LenOf(names) < len THEN 1 ELSE 0]
\* A slip, for Page.
PageSkipsOneMore(at, cookie, len) == PageFrom(at + cookie + (IF cookie > 0 THEN 1 ELSE 0), len)

Page(at, cookie, len) == PageFrom(at + cookie, len)

(* "/" is opened as a directory, as opendir does, and listed. *)
ListStart(own) ==
    /\ FreeHandles # {}
    /\ ~listing.on
    /\ LET h == Min(FreeHandles) IN
       /\ handle' = IF own THEN [handle EXCEPT ![h] = NewDir("/")] ELSE handle
       /\ listing' = [on |-> TRUE, via |-> IF own THEN h ELSE NHandles, cookie |-> 0, seen |-> << >>]
    /\ UNCHANGED <<order, dirs, file, saved, result>>

(* The program goes on after the last whole entry it got, and stops when a
   page has none; its buffer holds any one entry. *)
ListPage(len) ==
    LET own  == listing.via \in Handles
        page == Page(IF own THEN handle[listing.via].at ELSE 0, listing.cookie, len)
    IN  /\ listing.on
        /\ own \/ FreeHandles # {}
        /\ len >= HeaderLen + 2
        /\ result' = [call |-> "readdir", own |-> own, from |-> listing.cookie, names |-> page.names]
        /\ handle' = IF own THEN [handle EXCEPT ![listing.via].at = Min({page.read, Len(order)})]
                     ELSE handle
        /\ listing' = IF page.whole = << >> THEN NotListing
                      ELSE [listing EXCEPT !.cookie = @ + Len(page.whole), !.seen = @ \o page.whole]
        /\ UNCHANGED <<order, dirs, file, saved>>

FileCall ==
    \/ \E n \in Names : PathOpenFails(n) \/ PathMkdir(n) \/ PathUnlink(n) \/ PathFilestat(n)
    \/ \E n \in Opened, w, c, t \in BOOLEAN : PathOpen(n, w, c, t)
    \/ \E m, n \in Names : PathRename(m, n)
    \/ \E h \in Handles : FdClose(h) \/ FdSync(h) \/ FdFilestat(h)
    \/ \E h \in Handles, len \in ReadLens : FdRead(h, len)
    \/ \E h \in Handles, len \in ReadLens, at \in Offsets : FdPread(h, at, len)
    \/ \E h \in Handles, b \in Bytes : FdWrite(h, <<b>>)
    \/ \E h \in Handles, b \in Bytes, at \in Offsets : FdPwrite(h, at, <<b>>)
    \/ \E h \in Handles, w \in {"set", "cur", "end"}, by \in Offsets : FdSeek(h, w, by)
    \/ \E h \in Handles, n \in Offsets : FdSetSize(h, n)

Next == FileCall \/ (\E own \in BOOLEAN : ListStart(own)) \/ \E len \in BufLens : ListPage(len)

Spec == Init /\ [][Next]_vars
-----------------------------------------------------------------------------
TypeOK ==
    /\ IsInjective(order) /\ Present \subseteq Names /\ dirs \subseteq Present
    /\ \A n \in Names : file[n] \in Seq(Bytes \cup {Junk}) /\ saved[n] \in Offsets
    /\ \A h \in Handles :
          \/ handle[h] = Unused
          \/ handle[h].type = "dir" /\ handle[h].at \in Nat
          \/ handle[h].type = "file" /\ handle[h].name \in Present /\ handle[h].pos \in Offsets

(* No descriptor stands past the end of its file, although the file may be
   cut, grown by a seek, or written through the same handle between two
   calls: the position fd_pread and fd_pwrite come back to can be sought
   again (vfs.c:460-477, wasi.c:1054-1116). *)
PositionInside ==
    \A h \in Handles : IsFile(h) => handle[h].pos <= Size(handle[h].name)

(* What was written is in the directory once the file is closed: a size that
   differs from the bytes belongs to a file that is open for writing
   (vfs.c:353-383). *)
SavedWhenClosed ==
    \A n \in Present : saved[n] # Size(n) => \E h \in OpenOn(n) : handle[h].write

(* fd_pread returns the bytes at its offset, in one piece over all buffers,
   and moves no descriptor; only a writable file that is shorter than the
   offset changes, by growing to it (wasi.c:1054-1084). *)
PreadPure ==
    [][result' # result /\ result'.call = "pread" =>
        LET n == handle[result'.h].name IN
        /\ handle' = handle
        /\ result'.got = ReadAt(file'[n], Min({result'.at, Len(file'[n])}), result'.len)
        /\ IsPrefix(file[n], file'[n])
        /\ file' # file => handle[result'.h].write /\ result'.at > Size(n)]_vars

(* Paging through the root by cookies on descriptor 3 shows every entry once
   and in order, whatever the sizes of the buffers, as long as the directory
   does not change on the way (wasi.c:1118-1188). *)
ListedAll ==
    [][listing.on /\ listing.via = NHandles /\ ~listing'.on /\ result'.call = "readdir"
         => listing.seen = order]_vars

(* A page asked for with a cookie starts after the entry the cookie stands
   for, through any descriptor: "постраничных cookie-курсоров для libc
   (opendir/readdir)", CHANGELOG.md:517 (wasi.c:1118-1188). *)
CookieIsPosition ==
    result.call = "readdir" =>
        IsPrefix(result.names, SubSeq(order, result.from + 1, Len(order)))
=============================================================================
