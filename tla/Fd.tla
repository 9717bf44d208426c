--------------------------------- MODULE Fd ---------------------------------
(***************************************************************************)
(* File descriptors, lib/libc/unistd.c: a table of pointers to the files   *)
(* of Fs.  A descriptor has no state of its own: whether it is open and    *)
(* where it reads and writes are kept in the file.                         *)
(*                                                                         *)
(* exclusive is a history variable: no file was opened while it was open,  *)
(* and none was opened or closed by its name, with the functions of fs.c.  *)
(***************************************************************************)
EXTENDS Fs

CONSTANTS
  MaxFds,    \* MAX_FDS (32)
  SeekBy     \* offsets of lseek, negative ones too

FirstFd == 3   \* 0, 1 and 2 are never given out

ASSUME FdAssumption == MaxFds \in Nat /\ MaxFds > FirstFd /\ SeekBy \subseteq Int

VARIABLES fd_table, exclusive

fdVars == <<vars, fd_table, exclusive>>

Fds == FirstFd .. MaxFds - 1
FreeFds == {fd \in Fds : fd_table[fd] = NULL}

\* get_file answers a file: every other number has none.
IsDescriptor(fd) == fd \in Fds /\ fd_table[fd] # NULL

-----------------------------------------------------------------------------
(* Operations.  Those that answer -1 change nothing, except an open that   *)
(* created a file and then found no descriptor.                            *)

FdInit == Init /\ fd_table = [fd \in Fds |-> NULL] /\ exclusive = TRUE

FdReply(call, value) == Reply(call, ZeroName, value) /\ UNCHANGED fd_table

\* What alloc_fd and O_TRUNC make of a file; a directory has no data to clear.
Opened(entry, trunc) ==
  [entry EXCEPT !.is_open = TRUE, !.position = 0,
                !.size = IF trunc /\ entry.allocated_size > 0 THEN 0 ELSE @]

\* Mutant: the file is marked open before a descriptor is looked for.
GiveDescriptorLate(f, entry, trunc) ==
  \/ /\ FreeFds # {}
     /\ fd_table' = [fd_table EXCEPT ![Min(FreeFds)] = f]
     /\ files' = [files EXCEPT ![f] = Opened(entry, trunc)]
     /\ ret' = Answer("fd_open", ZeroName, Min(FreeFds))
  \/ /\ FreeFds = {}
     /\ files' = [files EXCEPT ![f] = Opened(entry, FALSE)]
     /\ ret' = Answer("fd_open", ZeroName, -1)
     /\ UNCHANGED fd_table

\* The file in slot f gets the first free descriptor, if there is one.
GiveDescriptor(f, entry, trunc) ==
  \/ /\ FreeFds # {}
     /\ fd_table' = [fd_table EXCEPT ![Min(FreeFds)] = f]
     /\ files' = [files EXCEPT ![f] = Opened(entry, trunc)]
     /\ ret' = Answer("fd_open", ZeroName, Min(FreeFds))
  \/ /\ FreeFds = {}
     /\ files' = [files EXCEPT ![f] = entry]
     /\ ret' = Answer("fd_open", ZeroName, -1)
     /\ UNCHANGED fd_table

OpenExisting(name, trunc) ==
  /\ Found(name)
  /\ GiveDescriptor(FindFile(name), files[FindFile(name)], trunc)
  /\ UNCHANGED <<free_list, file_count, current_dir>>

\* fs_create, then a search that finds the new file (CreatedIsFound).
OpenNew(name, trunc) ==
  /\ ~Found(name) /\ name \notin InvalidNames /\ free_list # {}
  /\ GiveDescriptor(FreeSlot, NewFile(name, DefaultPerms), trunc)
  /\ free_list' = free_list \ {FreeSlot}
  /\ file_count' = file_count + 1
  /\ UNCHANGED current_dir

Open(name, creat, trunc) ==
  \/ OpenExisting(name, trunc)
  \/ creat /\ OpenNew(name, trunc)
  \/ /\ ~Found(name)
     /\ ~creat \/ name \in InvalidNames \/ free_list = {}
     /\ FdReply("fd_open", -1)

Close(fd) ==
  \/ ~IsDescriptor(fd) /\ FdReply("fd_close", -1)
  \/ /\ IsDescriptor(fd)
     /\ UpdateFile(fd_table[fd], [files[fd_table[fd]] EXCEPT !.is_open = FALSE])
     /\ fd_table' = [fd_table EXCEPT ![fd] = NULL]
     /\ ret' = Answer("fd_close", ZeroName, 0)

\* The descriptor refers to a file that is marked open.
Usable(fd) == IsDescriptor(fd) /\ files[fd_table[fd]].is_open

UpdateThrough(fd, call, entry, value) ==
  /\ UpdateFile(fd_table[fd], entry)
  /\ ret' = Answer(call, ZeroName, value)
  /\ UNCHANGED fd_table

Read(fd, count) ==
  \/ ~Usable(fd) /\ FdReply("fd_read", -1)
  \/ /\ Usable(fd)
     /\ LET e == files[fd_table[fd]]
            bytes == IF e.position >= e.size THEN 0 ELSE Min({count, e.size - e.position})
        IN UpdateThrough(fd, "fd_read", [e EXCEPT !.position = @ + bytes], bytes)

\* write resizes when the buffer is too small, which fs_resize_file refuses a directory.
WriteFd(fd, count) ==
  \/ ~Usable(fd) /\ FdReply("fd_write", -1)
  \/ /\ Usable(fd)
     /\ LET e == files[fd_table[fd]]
            end == e.position + count
            grows == end > e.allocated_size
            resized == IF grows THEN Resized(e, end) ELSE e
        IN /\ end <= MaxPosition
           /\ \/ grows /\ ResizeRefused(e) /\ FdReply("fd_write", -1)
              \/ /\ ~(grows /\ ResizeRefused(e))
                 /\ UpdateThrough(fd, "fd_write",
                      [resized EXCEPT !.position = end, !.size = Max({@, end})], count)

Lseek(fd, offset, whence) ==
  \/ ~Usable(fd) /\ FdReply("fd_lseek", -1)
  \/ /\ Usable(fd)
     /\ LET e == files[fd_table[fd]]
            position == CASE whence = "SET" -> offset
                          [] whence = "CUR" -> e.position + offset
                          [] whence = "END" -> e.size + offset
        IN \/ position \notin 0 .. e.size /\ FdReply("fd_lseek", -1)
           \/ /\ position \in 0 .. e.size
              /\ UpdateThrough(fd, "fd_lseek", [e EXCEPT !.position = position], position)

-----------------------------------------------------------------------------
(* Callers.                                                                *)

ByDescriptor ==
  \E fd \in 0 .. MaxFds :
    \/ Close(fd)
    \/ \E count \in Lengths : Read(fd, count) \/ WriteFd(fd, count)
    \/ \E offset \in SeekBy, whence \in {"SET", "CUR", "END"} : Lseek(fd, offset, whence)

Opening ==
  \E name \in Names, creat, trunc \in BOOLEAN :
    /\ Open(name, creat, trunc)
    /\ exclusive' = (exclusive /\ (Found(name) => ~files[FindFile(name)].is_open))

\* The functions of fs.c.
ByName ==
  /\ Next
  /\ exclusive' = (exclusive /\ ~(ret'.call \in {"open", "close"} /\ ret'.value = "SUCCESS"))
  /\ UNCHANGED fd_table

FdNext == ByName \/ Opening \/ (ByDescriptor /\ UNCHANGED exclusive)

FdSpec == FdInit /\ [][FdNext]_fdVars

-----------------------------------------------------------------------------
(* Properties.                                                             *)

\* Types.
FdTypeOK == TypeOK /\ fd_table \in [Fds -> Slots \cup {NULL}] /\ exclusive \in BOOLEAN

\* A directory never gets data: open accepts it, and only fs_resize_file keeps write
\* from using the NULL buffer (unistd.c:87-93, fs.c:110).
DirectoryHasNoData ==
  \A i \in Live : files[i].is_dir =>
    files[i].size = 0 /\ files[i].allocated_size = 0 /\ files[i].position = 0

\* A descriptor refers to a file that exists and is marked open, so that it can be read
\* and written until it is closed (fs.9:33), and fs_delete leaves the file alone.
DescriptorIsOpen ==
  \A fd \in Fds : fd_table[fd] # NULL => fd_table[fd] \in Live /\ files[fd_table[fd]].is_open

\* This is so for programs that open no file twice: the failure of alloc_fd, the reuse of
\* slots and deletions do not disturb it.
ExclusiveIsOpen == exclusive => DescriptorIsOpen

\* For the same programs no open file is lost: a descriptor refers to it, so it can be closed
\* and deleted (unistd.c:12-22, 43-44).
OpenHasDescriptor ==
  exclusive => \A i \in Live : files[i].is_open => \E fd \in Fds : fd_table[fd] = i

\* What is in a file stays inside its buffer and its position inside the file, by whichever
\* of the two interfaces it is used; directories get no data (fs.c:217-332, unistd.c:50-140).
DataStaysInside == SizeWithinAllocation /\ PositionInFile /\ DirectoryHasNoData

\* For programs that open no file twice, descriptors and open files are the same
\* (unistd.c:12-48).
DescriptorsMatch == ExclusiveIsOpen /\ OpenHasDescriptor
=============================================================================
