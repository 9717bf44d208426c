-------------------------- MODULE CommandsProofs --------------------------
(***************************************************************************)
(* Theorems about FsCommands for arrays of any size.  rmdir shifts the     *)
(* array, so little of what FsProofs says holds between the commands.      *)
(* Three things do: the files that are open are those that the running     *)
(* command has opened and still finds by their names; while the slots are  *)
(* counted, cp writes what it reads; and while orderly holds the array is  *)
(* as fs.c keeps it, with every name once in a directory.                  *)
(***************************************************************************)
EXTENDS FsCommands, FsProofs

-----------------------------------------------------------------------------
(* The array under any commands.                                           *)

Steps == {"none", "open", "create", "open2", "read", "write", "close", "close2", "fail"}

CmdTypeOK ==
  cmd \in [op : {"none", "cp", "cat", "ed"}, src : Names \cup {ZeroName},
           dst : Names \cup {ZeroName}, step : Steps, bytes : Nat]

ArrayOK ==
  /\ files \in [Slots -> Entry] /\ free_list \subseteq Slots
  /\ file_count \in Int /\ file_count <= Cardinality(Live)
  /\ current_dir \in Slots \cup {NULL}

\* Every file that a directory holds can be read and written.
PermissionsOK ==
  \A i \in Slots : files[i].parent # NULL /\ ~files[i].is_dir =>
                     DefaultPerms \subseteq files[i].permissions

\* The names are found, and theirs are the files that are open.
OnlyOpen(names) ==
  /\ \A n \in names : Found(n)
  /\ \A i \in Slots : files[i].is_open => ~files[i].is_dir /\ \E n \in names : FindFile(n) = i
  /\ \A n \in names : files[FindFile(n)].is_open

CpOpenFiles ==
  \/ cmd.step = "open" /\ OnlyOpen({})
  \/ cmd.step \in {"create", "fail"} /\ OnlyOpen({cmd.src})
  \/ cmd.step = "open2" /\ cmd.src # cmd.dst /\ OnlyOpen({cmd.src})
  \/ cmd.step \in {"read", "write", "close"} /\ cmd.src # cmd.dst /\ OnlyOpen({cmd.src, cmd.dst})
  \/ cmd.step = "close2" /\ OnlyOpen({cmd.dst})

\* Of cat and ed, which have one file.
OneOpenFile(before, after) ==
  \/ cmd.step \in before /\ OnlyOpen({})
  \/ cmd.step \in after /\ OnlyOpen({cmd.src})

RunningOpen ==
  \/ cmd = NoCommand /\ OnlyOpen({})
  \/ cmd.op = "cp" /\ cmd.src \in Names /\ cmd.dst \in Names /\ CpOpenFiles
  \/ cmd.op = "cat" /\ cmd.src \in Names /\ OneOpenFile({"open"}, {"read", "close"})
  \/ cmd.op = "ed" /\ cmd.src \in Names /\ OneOpenFile({"create", "open"}, {"write", "close"})

CommandsInv == CmdTypeOK /\ content_len \in Nat /\ ArrayOK /\ PermissionsOK /\ RunningOpen

-----------------------------------------------------------------------------
(* How far cp is, while the slots are counted.                             *)

Source == files[FindFile(cmd.src)]
Copy == files[FindFile(cmd.dst)]

CopyInv ==
  CountIsExact /\ cmd.op = "cp" =>
    /\ cmd.step = "create" => Source.position = 0
    /\ cmd.step = "open2" =>
         /\ Source.position = 0
         /\ Found(cmd.dst) /\ Copy.position = 0 /\ Copy.size = 0
    /\ cmd.step = "read" =>
         Source.position = Copy.position /\ Copy.position = Copy.size /\ Copy.size <= Source.size
    /\ cmd.step = "write" =>
         /\ cmd.bytes > 0 /\ Source.position = Copy.position + cmd.bytes
         /\ Copy.position = Copy.size /\ Source.position <= Source.size
    /\ cmd.step \in {"close", "close2"} =>
         Found(cmd.src) /\ Found(cmd.dst) /\ Source.size = Copy.size

-----------------------------------------------------------------------------
(* The array as the commands find it while orderly holds.                  *)

NamesOnce ==
  \A i, j \in Live : files[i].parent = files[j].parent /\ files[i].name = files[j].name => i = j

OrderInv == orderly => FsInv /\ NoHoles /\ NamesOnce

-----------------------------------------------------------------------------
(* What the calls of fs.c do to such an array.                             *)

LEMMA FoundSlot ==
  ASSUME NEW n, Found(n)
  PROVE  /\ FindFile(n) \in Live /\ FindFile(n) \in Slots /\ FindFile(n) < file_count
         /\ files[FindFile(n)].name = n /\ files[FindFile(n)].parent = current_dir
         /\ current_dir # NULL
         /\ \A j \in Matches(n, current_dir) : FindFile(n) <= j
<1>1. Matches(n, current_dir) \in SUBSET Nat /\ Matches(n, current_dir) # {}
  BY SlotFacts DEF Matches, Live, Found
<1>2. FindFile(n) \in Matches(n, current_dir) /\ \A j \in Matches(n, current_dir) : FindFile(n) <= j
  BY <1>1, MinIsLeast DEF FindFile
<1> QED BY <1>2 DEF Matches, Live, Found

\* An entry changes and stays what the searches take it for.
InPlace(f, e) ==
  /\ f \in Slots /\ e \in Entry
  /\ SamePlace(e, files[f]) /\ e.permissions = files[f].permissions
  /\ UpdateFile(f, e)

SameNames == \A n : Found(n)' = Found(n) /\ FindFile(n)' = FindFile(n)

LEMMA InPlaceFacts ==
  ASSUME ArrayOK, PermissionsOK, NEW f, NEW e, InPlace(f, e)
  PROVE  /\ ArrayOK' /\ PermissionsOK' /\ SameNames /\ CountIsExact' = CountIsExact
         /\ \A i \in Slots : files'[i] = IF i = f THEN e ELSE files[i]
<1>1. /\ files \in [Slots -> Entry] /\ f \in Slots /\ e \in Entry
      /\ files' = [files EXCEPT ![f] = e] /\ UNCHANGED <<free_list, file_count, current_dir>>
      /\ e.name = files[f].name /\ e.parent = files[f].parent /\ e.is_dir = files[f].is_dir
      /\ e.permissions = files[f].permissions
  BY DEF ArrayOK, InPlace, UpdateFile, SamePlace
<1>2. \A i \in Slots : files'[i] = IF i = f THEN e ELSE files[i]
  BY <1>1
<1>3. Live' = Live /\ Live \subseteq Slots
  BY <1>1 DEF Live
<1>4. ArrayOK'
  BY <1>1, <1>2, <1>3 DEF ArrayOK
<1>5. PermissionsOK'
  BY <1>1, <1>2 DEF PermissionsOK
<1>6. ASSUME NEW n PROVE Matches(n, current_dir)' = Matches(n, current_dir)
  BY <1>1, <1>2, <1>3 DEF Matches
<1>7. SameNames
  BY <1>1, <1>6 DEF SameNames, Found, FindFile
<1>8. CountIsExact' = CountIsExact
  BY <1>1, <1>3 DEF CountIsExact
<1> QED BY <1>2, <1>4, <1>5, <1>7, <1>8

LEMMA StaysFacts ==
  ASSUME ArrayOK, PermissionsOK, Stays
  PROVE  /\ ArrayOK' /\ PermissionsOK' /\ SameNames /\ CountIsExact' = CountIsExact
         /\ \A names : OnlyOpen(names)' = OnlyOpen(names)
<1>1. Live' = Live
  BY DEF Stays, Live
<1>2. ArrayOK' /\ PermissionsOK' /\ CountIsExact' = CountIsExact
  BY <1>1 DEF Stays, ArrayOK, PermissionsOK, CountIsExact
<1>3. \A n : Matches(n, current_dir)' = Matches(n, current_dir)
  BY <1>1 DEF Stays, Matches
<1>4. SameNames
  BY <1>3 DEF SameNames, Stays, Found, FindFile
<1>5. ASSUME NEW names PROVE OnlyOpen(names)' = OnlyOpen(names)
  BY <1>4 DEF Stays, OnlyOpen, SameNames
<1> QED BY <1>2, <1>4, <1>5

LEMMA OpenCall ==
  ASSUME ArrayOK, NEW n, FsOpen(n)
  PROVE  \/ ret'.value # "SUCCESS" /\ Stays
         \/ /\ ret'.value = "SUCCESS" /\ Found(n) /\ ~files[FindFile(n)].is_open
            /\ \E e : /\ InPlace(FindFile(n), e) /\ e.is_open /\ ~e.is_dir
                      /\ e.position = 0 /\ e.size = files[FindFile(n)].size
<1>1. ASSUME NEW value, value # "SUCCESS", Reply("open", n, value)
      PROVE  ret'.value # "SUCCESS" /\ Stays
  BY <1>1 DEF Reply, Answer, Stays
<1>2. ASSUME Found(n), NEW f, f = FindFile(n), ~files[f].is_dir, ~files[f].is_open,
             UpdateFile(f, [files[f] EXCEPT !.is_open = TRUE, !.position = 0]),
             ret' = Answer("open", n, "SUCCESS")
      PROVE  /\ ret'.value = "SUCCESS" /\ ~files[f].is_open
             /\ \E e : /\ InPlace(f, e) /\ e.is_open /\ ~e.is_dir
                       /\ e.position = 0 /\ e.size = files[f].size
  <2>1. f \in Slots /\ files[f] \in Entry
    BY <1>2, FoundSlot DEF ArrayOK
  <2> DEFINE e == [files[f] EXCEPT !.is_open = TRUE, !.position = 0]
  <2>2. /\ e \in Entry /\ e.is_open = TRUE /\ e.position = 0 /\ e.size = files[f].size
        /\ e.name = files[f].name /\ e.parent = files[f].parent /\ e.is_dir = files[f].is_dir
        /\ e.permissions = files[f].permissions
    BY <2>1 DEF Entry
  <2>3. InPlace(f, e)
    BY <1>2, <2>1, <2>2 DEF InPlace, SamePlace
  <2> QED BY <1>2, <2>2, <2>3 DEF Answer
<1> QED BY <1>1, <1>2 DEF FsOpen

LEMMA CloseCall ==
  ASSUME ArrayOK, NEW n, FsClose(n), Found(n), files[FindFile(n)].is_open
  PROVE  \E e : /\ InPlace(FindFile(n), e) /\ ~e.is_open
                /\ e.position = files[FindFile(n)].position /\ e.size = files[FindFile(n)].size
<1> DEFINE f == FindFile(n)
           e == [files[f] EXCEPT !.is_open = FALSE]
<1>1. f \in Slots /\ files[f] \in Entry
  BY FoundSlot DEF ArrayOK
<1>2. UpdateFile(f, e)
  BY DEF FsClose
<1>3. /\ e \in Entry /\ e.is_open = FALSE /\ e.position = files[f].position
      /\ e.size = files[f].size
      /\ e.name = files[f].name /\ e.parent = files[f].parent /\ e.is_dir = files[f].is_dir
      /\ e.permissions = files[f].permissions
  BY <1>1 DEF Entry
<1>4. InPlace(f, e)
  BY <1>1, <1>2, <1>3 DEF InPlace, SamePlace
<1> QED BY <1>3, <1>4

\* A file that a command has open can be read and written.
LEMMA OpenIsAccessible ==
  ASSUME ArrayOK, PermissionsOK, NEW n, Found(n), files[FindFile(n)].is_open,
         ~files[FindFile(n)].is_dir
  PROVE  Accessible(n, "READ") /\ Accessible(n, "WRITE")
<1>1. "READ" \in files[FindFile(n)].permissions /\ "WRITE" \in files[FindFile(n)].permissions
  BY FoundSlot DEF PermissionsOK, DefaultPerms
<1> QED BY <1>1 DEF Accessible

\* Reading moves on in what is left, and answers 0 at the end only.
LEMMA ReadCall ==
  ASSUME ArrayOK, PermissionsOK, NEW n, NEW length \in Nat \ {0}, FsRead(n, length), Found(n),
         files[FindFile(n)].is_open, ~files[FindFile(n)].is_dir
  PROVE  LET f == files[FindFile(n)]
         IN /\ ret'.value \in Nat
            /\ f.position <= f.size => f.position + ret'.value <= f.size
            /\ ret'.value = 0 => f.position >= f.size
            /\ \E e : /\ InPlace(FindFile(n), e) /\ e.is_open
                      /\ e.position = f.position + ret'.value /\ e.size = f.size
<1>1. PICK f : f = FindFile(n)
  OBVIOUS
<1>2. f \in Slots /\ files[f] \in Entry /\ files[f].position \in Nat /\ files[f].size \in Nat
  BY <1>1, FoundSlot DEF ArrayOK, Entry
<1>3. PICK available : available = Max({files[f].size - files[f].position, 0})
  OBVIOUS
<1>4. PICK bytes : bytes = Min({length, available})
  OBVIOUS
<1>5. /\ UpdateFile(f, [files[f] EXCEPT !.position = files[f].position + bytes])
      /\ ret' = Answer("read", n, bytes)
  BY <1>1, <1>3, <1>4, OpenIsAccessible DEF FsRead
<1>6. PICK rest \in Int : rest = files[f].size - files[f].position
  BY <1>2
<1>7. available = IF rest >= 0 THEN rest ELSE 0
  BY <1>3, <1>6, MaxOfTwo
<1>8. available \in Nat /\ bytes = IF length <= available THEN length ELSE available
  BY <1>4, <1>6, <1>7, MinOfTwo
<1>9. ret'.value = bytes /\ bytes \in Nat /\ (bytes = 0 => available = 0) /\ bytes <= available
  BY <1>5, <1>8 DEF Answer
<1> DEFINE e == [files[f] EXCEPT !.position = files[f].position + bytes]
<1>10. /\ e \in Entry /\ e.is_open = files[f].is_open
       /\ e.position = files[f].position + bytes /\ e.size = files[f].size
       /\ e.name = files[f].name /\ e.parent = files[f].parent /\ e.is_dir = files[f].is_dir
       /\ e.permissions = files[f].permissions
  BY <1>2, <1>9 DEF Entry
<1>11. InPlace(f, e)
  BY <1>2, <1>5, <1>10 DEF InPlace, SamePlace
<1>12. files[f].position <= files[f].size => files[f].position + bytes <= files[f].size
  BY <1>2, <1>6, <1>7, <1>9
<1>13. bytes = 0 => files[f].position >= files[f].size
  BY <1>2, <1>6, <1>7, <1>9
<1> HIDE DEF e
<1> QED BY <1>1, <1>9, <1>10, <1>11, <1>12, <1>13

\* Writing at the end makes the file longer by what is written.
LEMMA WriteCall ==
  ASSUME ArrayOK, PermissionsOK, NEW n, NEW length \in Nat, FsWrite(n, length), Found(n),
         files[FindFile(n)].is_open, ~files[FindFile(n)].is_dir
  PROVE  LET f == files[FindFile(n)]
         IN \/ length = 0 /\ Stays
            \/ /\ ret'.value = length
               /\ \E e : /\ InPlace(FindFile(n), e) /\ e.is_open
                         /\ e.position = f.position + length
                         /\ f.position = f.size => e.size = e.position
<1>1. CASE ~(length > 0)
  BY <1>1 DEF FsWrite, Reply, Stays
<1>2. CASE length > 0
  <2>1. PICK f : f = FindFile(n)
    OBVIOUS
  <2>2. /\ f \in Slots /\ files[f] \in Entry /\ files[f].position \in Nat /\ files[f].size \in Nat
        /\ ~files[f].is_dir
    BY <2>1, FoundSlot DEF ArrayOK, Entry
  <2>3. UpdateFile(f, Written(files[f], length)) /\ ret' = Answer("write", n, length)
    BY <1>2, <2>1, OpenIsAccessible DEF FsWrite
  <2>4. PICK end \in Nat : end = files[f].position + length
    BY <2>2
  <2>5. PICK r : r = IF end > files[f].size THEN Resized(files[f], end) ELSE files[f]
    OBVIOUS
  <2>6. Written(files[f], length) = [r EXCEPT !.position = end, !.size = Max({@, end})]
    BY <2>4, <2>5 DEF Written
  <2>7. /\ r \in Entry /\ SamePlace(r, files[f]) /\ r.is_open = files[f].is_open
        /\ end > files[f].size => r.size <= end
    <3>1. CASE end > files[f].size
      <4>1. r = Resized(files[f], end)
        BY <2>5, <3>1
      <4>2. /\ r \in Entry /\ r.size = IF end <= MaxFileSize THEN end ELSE MaxFileSize
            /\ r.parent = files[f].parent /\ r.is_dir = files[f].is_dir
            /\ r.name = files[f].name /\ r.is_open = files[f].is_open
        BY <2>2, <2>4, <4>1, ResizedEntry
      <4> QED BY <4>2, FsAssumption DEF SamePlace
    <3>2. CASE ~(end > files[f].size)
      BY <2>2, <2>5, <3>2 DEF SamePlace
    <3> QED BY <3>1, <3>2
  <2>8. r.permissions = files[f].permissions
    BY <2>2, <2>5 DEF Resized, Entry
  <2>9. r.size \in Nat
    BY <2>7 DEF Entry
  <2>10. PICK size : size = Max({r.size, end})
    OBVIOUS
  <2>11. size \in Nat /\ size = IF r.size >= end THEN r.size ELSE end
    BY <2>9, <2>10, MaxOfTwo
  <2> DEFINE e == [r EXCEPT !.position = end, !.size = size]
  <2>12. Written(files[f], length) = e
    BY <2>6, <2>10
  <2>13. /\ e \in Entry /\ e.is_open = r.is_open /\ e.position = end /\ e.size = size
         /\ e.name = r.name /\ e.parent = r.parent /\ e.is_dir = r.is_dir
         /\ e.permissions = r.permissions
    BY <2>7, <2>11 DEF Entry
  <2> HIDE DEF e
  <2>14. InPlace(f, e)
    BY <2>2, <2>3, <2>7, <2>8, <2>12, <2>13 DEF InPlace, SamePlace
  <2>15. files[f].position = files[f].size => size = end
    BY <1>2, <2>2, <2>4, <2>7, <2>9, <2>11
  <2>16. ret'.value = length
    BY <2>3 DEF Answer
  <2> QED BY <2>1, <2>4, <2>7, <2>13, <2>14, <2>15, <2>16
<1> QED BY <1>1, <1>2

-----------------------------------------------------------------------------
(* Which files are open after a call.                                      *)

LEMMA OpenedOnly ==
  ASSUME ArrayOK, PermissionsOK, NEW names, OnlyOpen(names), NEW n, Found(n), NEW e,
         InPlace(FindFile(n), e), e.is_open, ~e.is_dir
  PROVE  OnlyOpen(names \cup {n})'
<1>1. SameNames /\ \A i \in Slots : files'[i] = IF i = FindFile(n) THEN e ELSE files[i]
  BY InPlaceFacts
<1>2. \A m \in names \cup {n} : Found(m) /\ FindFile(m) \in Slots
  BY FoundSlot DEF OnlyOpen
<1> QED BY <1>1, <1>2 DEF OnlyOpen, SameNames

LEMMA StillOpenOnly ==
  ASSUME ArrayOK, PermissionsOK, NEW names, OnlyOpen(names), NEW n \in names, NEW e,
         InPlace(FindFile(n), e), e.is_open
  PROVE  OnlyOpen(names)'
<1>1. SameNames /\ \A i \in Slots : files'[i] = IF i = FindFile(n) THEN e ELSE files[i]
  BY InPlaceFacts
<1>2. e.is_dir = files[FindFile(n)].is_dir
  BY DEF InPlace, SamePlace
<1>3. \A m \in names : Found(m) /\ FindFile(m) \in Slots
  BY FoundSlot DEF OnlyOpen
<1> QED BY <1>1, <1>2, <1>3 DEF OnlyOpen, SameNames

LEMMA ClosedOnly ==
  ASSUME ArrayOK, PermissionsOK, NEW names, OnlyOpen(names), NEW n \in names, NEW e,
         InPlace(FindFile(n), e), ~e.is_open
  PROVE  OnlyOpen(names \ {n})'
<1>1. SameNames /\ \A i \in Slots : files'[i] = IF i = FindFile(n) THEN e ELSE files[i]
  BY InPlaceFacts
<1>2. \A m \in names : Found(m) /\ FindFile(m) \in Slots /\ files[FindFile(m)].name = m
  BY FoundSlot DEF OnlyOpen
<1>3. \A m \in names \ {n} : FindFile(m) # FindFile(n)
  BY <1>2
<1> QED BY <1>1, <1>2, <1>3 DEF OnlyOpen, SameNames

LEMMA LiveGrows ==
  ASSUME NEW f \in free_list, free_list \subseteq Slots, free_list' = free_list \ {f}
  PROVE  Cardinality(Live)' = Cardinality(Live) + 1
<1>1. Live' = Live \cup {f} /\ f \notin Live
  BY DEF Live
<1>2. Cardinality(Live \cup {f}) = Cardinality(Live) + 1
  BY <1>1, LiveIsFinite, FS_AddElement
<1> QED BY <1>1, <1>2

LEMMA LiveShrinks ==
  ASSUME NEW f \in Live, free_list' = free_list \cup {f}
  PROVE  Cardinality(Live)' = Cardinality(Live) - 1
<1>1. Live' = Live \ {f}
  BY DEF Live
<1>2. Cardinality(Live \ {f}) = Cardinality(Live) - 1
  BY LiveIsFinite, FS_RemoveElement
<1> QED BY <1>1, <1>2

\* A new entry hides nothing that was found, and is no open file.
LEMMA PlaceFacts ==
  ASSUME ArrayOK, PermissionsOK, NEW call, NEW n, NEW e \in Entry, Place(call, n, e),
         e.name = n, e.is_open = FALSE, e.is_dir \/ DefaultPerms \subseteq e.permissions
  PROVE  /\ ArrayOK' /\ PermissionsOK' /\ CountIsExact' = CountIsExact
         /\ \A m : Found(m) => /\ m # n /\ FindFile(m)' = FindFile(m) /\ Found(m)'
                               /\ files'[FindFile(m)] = files[FindFile(m)]
         /\ \A names : OnlyOpen(names) => OnlyOpen(names)'
<1>1. PICK f : f = FreeSlot
  OBVIOUS
<1>2. f \in free_list /\ f \in Slots
  <2>1. free_list \in SUBSET Nat /\ free_list # {}
    BY SlotFacts DEF ArrayOK, Place
  <2> QED BY <1>1, <2>1, MinIsLeast DEF FreeSlot, ArrayOK
<1>3. /\ ~Found(n) /\ files' = [files EXCEPT ![f] = e] /\ free_list' = free_list \ {f}
      /\ file_count' = file_count + 1 /\ current_dir' = current_dir
      /\ files \in [Slots -> Entry] /\ free_list \subseteq Slots
      /\ current_dir \in Slots \cup {NULL} /\ file_count \in Int
      /\ file_count <= Cardinality(Live)
  BY <1>1 DEF Place, ArrayOK
<1>4. \A i \in Slots : files'[i] = IF i = f THEN e ELSE files[i]
  BY <1>2, <1>3
<1>5. Cardinality(Live)' = Cardinality(Live) + 1 /\ Cardinality(Live) \in Nat
  BY <1>2, <1>3, LiveGrows, LiveIsFinite
<1>6. ArrayOK' /\ CountIsExact' = CountIsExact
  <2>1. files' \in [Slots -> Entry] /\ free_list' \subseteq Slots
    BY <1>2, <1>3
  <2>2. PICK c \in Nat : c = Cardinality(Live) /\ Cardinality(Live)' = c + 1
    BY <1>5
  <2> QED BY <1>3, <2>1, <2>2 DEF ArrayOK, CountIsExact
<1>7. PermissionsOK'
  BY <1>2, <1>4 DEF PermissionsOK
<1>8. ASSUME NEW m, Found(m)
      PROVE  /\ m # n /\ FindFile(m)' = FindFile(m) /\ Found(m)'
             /\ FindFile(m) # f /\ files'[FindFile(m)] = files[FindFile(m)]
  <2>1. PICK k : k = FindFile(m)
    OBVIOUS
  <2>2. /\ k \in Live /\ k \in Slots /\ k < file_count /\ files[k].name = m
        /\ files[k].parent = current_dir /\ \A j \in Matches(m, current_dir) : k <= j
    BY <1>8, <2>1, FoundSlot
  <2>3. m # n /\ k # f /\ files'[k] = files[k] /\ current_dir' # NULL /\ k \in Nat
    BY <1>2, <1>3, <1>4, <1>8, <2>2, FoundSlot, SlotFacts DEF Live
  <2>4. PICK S : S = Matches(m, current_dir)'
    OBVIOUS
  <2>5. k \in S
    BY <1>3, <2>2, <2>3, <2>4 DEF Matches, Live
  <2>6. ASSUME NEW j \in S PROVE j \in Nat /\ k <= j
    <3>1. /\ j \in Slots /\ j \notin free_list' /\ j < file_count + 1 /\ j \in Nat
          /\ files'[j].parent = current_dir /\ files'[j].name = m
      BY <1>3, <2>4, <2>6, SlotFacts DEF Matches, Live
    <3>2. j # f
      BY <1>2, <1>4, <2>3, <3>1
    <3>3. j \in Live /\ files[j].parent = current_dir /\ files[j].name = m
      BY <1>3, <1>4, <3>1, <3>2 DEF Live
    <3>4. CASE j < file_count
      BY <2>2, <3>1, <3>3, <3>4 DEF Matches
    <3>5. CASE ~(j < file_count)
      BY <1>3, <2>2, <2>3, <3>1, <3>5
    <3> QED BY <3>1, <3>4, <3>5
  <2>7. S \in SUBSET Nat /\ Min(S) = k
    BY <2>5, <2>6, MinIs
  <2> QED BY <2>1, <2>3, <2>4, <2>5, <2>7 DEF Found, FindFile
<1>9. ASSUME NEW names, OnlyOpen(names) PROVE OnlyOpen(names)'
  <2>1. \A m \in names : FindFile(m)' = FindFile(m) /\ Found(m)' /\ FindFile(m) \in Slots
                         /\ files'[FindFile(m)] = files[FindFile(m)]
    BY <1>8, <1>9, FoundSlot DEF OnlyOpen
  <2>2. \A i \in Slots : files'[i].is_open => i # f /\ files[i].is_open
    BY <1>2, <1>4
  <2> QED BY <1>4, <1>9, <2>1, <2>2 DEF OnlyOpen
<1> QED BY <1>6, <1>7, <1>8, <1>9

LEMMA NewEntriesHere ==
  ASSUME ArrayOK, NEW n \in Names
  PROVE  /\ LET e == NewFile(n, DefaultPerms)
            IN /\ e \in Entry /\ e.name = n /\ e.is_open = FALSE /\ e.permissions = DefaultPerms
               /\ e.parent = current_dir /\ e.position = 0 /\ e.size = 0
         /\ LET e == NewDir(n, current_dir)
            IN e \in Entry /\ e.name = n /\ e.is_open = FALSE /\ e.is_dir = TRUE
         /\ Zeroed \in Entry /\ Zeroed.is_open = FALSE /\ Zeroed.parent = NULL
<1>1. current_dir \in Slots \cup {NULL} /\ DefaultPerms \subseteq AllPerms /\ BlockSize \in Nat
  BY FsAssumption DEF ArrayOK, DefaultPerms, AllPerms
<1>2. Zeroed \in Entry /\ Zeroed.is_open = FALSE /\ Zeroed.parent = NULL /\ Zeroed.position = 0
      /\ Zeroed.size = 0
  BY DEF Zeroed, Entry
<1> DEFINE e == NewFile(n, DefaultPerms)
           d == NewDir(n, current_dir)
<1>3. /\ e \in Entry /\ e.name = n /\ e.is_open = FALSE /\ e.permissions = DefaultPerms
      /\ e.parent = current_dir /\ e.position = 0 /\ e.size = 0
  BY <1>1 DEF NewFile, Zeroed, Entry
<1>4. d \in Entry /\ d.name = n /\ d.is_open = FALSE /\ d.is_dir = TRUE
  BY <1>1 DEF NewDir, Zeroed, Entry
<1> QED BY <1>2, <1>3, <1>4

LEMMA CreateCall ==
  ASSUME ArrayOK, NEW n, FsCreate(n)
  PROVE  \/ ret'.value # "SUCCESS" /\ Stays
         \/ ret'.value = "SUCCESS" /\ Place("create", n, NewFile(n, DefaultPerms))
<1>1. ASSUME Refused("create", n) PROVE ret'.value # "SUCCESS" /\ Stays
  BY <1>1 DEF Refused, Reply, Answer, Stays
<1>2. ASSUME NEW e, Place("create", n, e) PROVE ret'.value = "SUCCESS"
  BY <1>2 DEF Place, Answer
<1> QED BY <1>1, <1>2 DEF FsCreate, FsCreateWithPerms

LEMMA CreatedFacts ==
  ASSUME ArrayOK, PermissionsOK, NEW n \in Names, FsCreate(n)
  PROVE  /\ ArrayOK' /\ PermissionsOK' /\ CountIsExact' = CountIsExact
         /\ \A m : Found(m) => /\ FindFile(m)' = FindFile(m) /\ Found(m)'
                               /\ files'[FindFile(m)] = files[FindFile(m)]
                               /\ ret'.value = "SUCCESS" => m # n
         /\ \A names : OnlyOpen(names) => OnlyOpen(names)'
<1>1. CASE ret'.value # "SUCCESS" /\ Stays
  BY <1>1, StaysFacts DEF SameNames, Stays
<1>2. CASE Place("create", n, NewFile(n, DefaultPerms))
  <2> DEFINE e == NewFile(n, DefaultPerms)
  <2>1. e \in Entry /\ e.name = n /\ e.is_open = FALSE /\ e.permissions = DefaultPerms
    BY NewEntriesHere
  <2>2. Place("create", n, e)
    BY <1>2
  <2> HIDE DEF e
  <2>3. /\ ArrayOK' /\ PermissionsOK' /\ CountIsExact' = CountIsExact
        /\ \A m : Found(m) => /\ m # n /\ FindFile(m)' = FindFile(m) /\ Found(m)'
                              /\ files'[FindFile(m)] = files[FindFile(m)]
        /\ \A names : OnlyOpen(names) => OnlyOpen(names)'
    BY <2>1, <2>2, PlaceFacts
  <2> QED BY <2>3
<1> QED BY <1>1, <1>2, CreateCall

-----------------------------------------------------------------------------
(* The steps of the commands that make several calls.                      *)

LEMMA GotoFacts ==
  ASSUME CmdTypeOK, content_len \in Nat, NEW step \in Steps, Goto(step)
  PROVE  /\ CmdTypeOK' /\ content_len' \in Nat
         /\ cmd'.op = cmd.op /\ cmd'.src = cmd.src /\ cmd'.dst = cmd.dst
         /\ cmd'.step = step /\ cmd'.bytes = cmd.bytes
BY DEF CmdTypeOK, Goto

LEMMA ExitFacts ==
  ASSUME content_len \in Nat, NEW value, Exit(value)
  PROVE  CmdTypeOK' /\ content_len' \in Nat /\ cmd' = NoCommand
BY DEF CmdTypeOK, Steps, Exit, NoCommand

LEMMA RunningIs ==
  ASSUME RunningOpen
  PROVE  /\ cmd.op = "cp" => cmd.src \in Names /\ cmd.dst \in Names /\ CpOpenFiles
         /\ cmd.op = "cat" => cmd.src \in Names /\ OneOpenFile({"open"}, {"read", "close"})
         /\ cmd.op = "ed" => cmd.src \in Names /\ OneOpenFile({"create", "open"}, {"write", "close"})
BY DEF RunningOpen, NoCommand

\* Which files are open is said of the names that the command goes on with.
LEMMA OpenOfCommand ==
  ASSUME NEW a, NEW b, cmd'.src = a, cmd'.dst = b
  PROVE  /\ OnlyOpen({a})' => OnlyOpen({cmd.src})'
         /\ OnlyOpen({b})' => OnlyOpen({cmd.dst})'
         /\ OnlyOpen({a, b})' => OnlyOpen({cmd.src, cmd.dst})'
BY DEF OnlyOpen

LEMMA OpenFileIsOpen ==
  ASSUME NEW names, OnlyOpen(names), NEW n \in names
  PROVE  Found(n) /\ files[FindFile(n)].is_open /\ ~files[FindFile(n)].is_dir
BY FoundSlot DEF OnlyOpen

LEMMA ExitKeeps ==
  ASSUME content_len \in Nat, ArrayOK', PermissionsOK', OnlyOpen({})', NEW value, Exit(value)
  PROVE  CommandsInv' /\ CopyInv'
<1>1. CmdTypeOK' /\ content_len' \in Nat /\ cmd' = NoCommand
  BY ExitFacts
<1> QED BY <1>1 DEF CommandsInv, RunningOpen, CopyInv, NoCommand

\* What an action of cp starts from.
CpHas(a, b) == a = cmd.src /\ b = cmd.dst /\ a \in Names /\ b \in Names

LEMMA CpOpenStep ==
  ASSUME CommandsInv, CopyInv, CpOpen
  PROVE  CommandsInv' /\ CopyInv'
<1>1. PICK a, b : CpHas(a, b)
  BY RunningIs DEF CommandsInv, CpOpen, At, CpHas
<1>2. /\ CmdTypeOK /\ content_len \in Nat /\ ArrayOK /\ PermissionsOK
      /\ OnlyOpen({}) /\ FsOpen(a) /\ cmd.op = "cp" /\ a \in Names /\ b \in Names
  BY <1>1, RunningIs DEF CommandsInv, CpOpen, At, CpHas, CpOpenFiles
<1>3. CASE ret'.value # "SUCCESS" /\ Stays
  <2>1. ArrayOK' /\ PermissionsOK' /\ OnlyOpen({})'
    BY <1>2, <1>3, StaysFacts
  <2> QED BY <1>2, <1>3, <2>1, ExitKeeps DEF CpOpen, Succeeds
<1>4. CASE ret'.value = "SUCCESS" /\ Found(a)
  <2>1. PICK e : InPlace(FindFile(a), e) /\ e.is_open /\ ~e.is_dir /\ e.position = 0
    BY <1>2, <1>4, OpenCall
  <2>2. OnlyOpen({} \cup {a})'
    BY <1>2, <1>4, <2>1, OpenedOnly
  <2>3. OnlyOpen({a})'
    BY <2>2 DEF OnlyOpen
  <2>4. ArrayOK' /\ PermissionsOK' /\ SameNames /\ CountIsExact' = CountIsExact
        /\ \A i \in Slots : files'[i] = IF i = FindFile(a) THEN e ELSE files[i]
    BY <1>2, <2>1, InPlaceFacts
  <2>5. /\ CmdTypeOK' /\ content_len' \in Nat /\ cmd'.op = "cp" /\ cmd'.src = a /\ cmd'.dst = b
        /\ cmd'.step = "create"
    BY <1>1, <1>2, <1>4, GotoFacts DEF CpOpen, Succeeds, CpHas, Steps
  <2>6. CpOpenFiles'
    BY <2>3, <2>5, OpenOfCommand DEF CpOpenFiles
  <2>7. FindFile(a) \in Slots /\ FindFile(a)' = FindFile(a)
    BY <1>4, <2>4, FoundSlot DEF SameNames
  <2>8. Source'.position = 0
    BY <2>1, <2>4, <2>5, <2>7 DEF Source, FindFile
  <2>9. CommandsInv'
    BY <1>2, <2>4, <2>5, <2>6 DEF CommandsInv, RunningOpen
  <2>10. CopyInv'
    BY <2>5, <2>8 DEF CopyInv
  <2> QED BY <2>9, <2>10
<1> QED BY <1>2, <1>3, <1>4, OpenCall

LEMMA CpCreateStep ==
  ASSUME CommandsInv, CopyInv, CpCreate
  PROVE  CommandsInv' /\ CopyInv'
<1>1. PICK a, b : CpHas(a, b)
  BY RunningIs DEF CommandsInv, CpCreate, At, CpHas
<1>2. /\ CmdTypeOK /\ content_len \in Nat /\ ArrayOK /\ PermissionsOK
      /\ OnlyOpen({a}) /\ FsCreate(b) /\ cmd.op = "cp" /\ cmd.step = "create"
      /\ a \in Names /\ b \in Names
  BY <1>1, RunningIs DEF CommandsInv, CpCreate, At, CpHas, CpOpenFiles
<1>3. /\ ArrayOK' /\ PermissionsOK' /\ OnlyOpen({a})' /\ CountIsExact' = CountIsExact
      /\ FindFile(a)' = FindFile(a) /\ files'[FindFile(a)] = files[FindFile(a)]
      /\ ret'.value = "SUCCESS" => a # b
  BY <1>2, CreatedFacts, OpenFileIsOpen
<1>4. CASE ret'.value # "SUCCESS"
  <2>1. /\ CmdTypeOK' /\ content_len' \in Nat /\ cmd'.op = "cp" /\ cmd'.src = a /\ cmd'.dst = b
        /\ cmd'.step = "fail"
    BY <1>1, <1>2, <1>4, GotoFacts DEF CpCreate, Succeeds, CpHas, Steps
  <2>2. CpOpenFiles'
    BY <1>3, <2>1, OpenOfCommand DEF CpOpenFiles
  <2> QED BY <1>2, <1>3, <2>1, <2>2 DEF CommandsInv, RunningOpen, CopyInv
<1>5. CASE ret'.value = "SUCCESS"
  <2>1. /\ CmdTypeOK' /\ content_len' \in Nat /\ cmd'.op = "cp" /\ cmd'.src = a /\ cmd'.dst = b
        /\ cmd'.step = "open2"
    BY <1>1, <1>2, <1>5, GotoFacts DEF CpCreate, Succeeds, CpHas, Steps
  <2>2. CpOpenFiles'
    BY <1>3, <1>5, <2>1, OpenOfCommand DEF CpOpenFiles
  <2>3. ASSUME CountIsExact
        PROVE  Source'.position = 0 /\ Found(b)' /\ Copy'.position = 0 /\ Copy'.size = 0
    <3>1. Source.position = 0
      BY <1>2, <2>3 DEF CopyInv
    <3>2. Source' = Source
      BY <1>1, <1>3, <2>1 DEF Source, CpHas, FindFile
    <3>3. PICK e : e = NewFile(b, DefaultPerms)
      OBVIOUS
    <3>4. /\ e \in Entry /\ e.name = b /\ e.parent = current_dir /\ e.position = 0 /\ e.size = 0
          /\ Place("create", b, e)
      BY <1>2, <1>5, <3>3, NewEntriesHere, CreateCall
    <3>5. DataOK(e)
      BY <3>3, FsAssumption DEF NewFile, Zeroed, DataOK
    <3>6. Placed(e)
      BY <3>4, <3>5 DEF Place, Placed
    <3>7. PICK i : i = FreeSlot
      OBVIOUS
    <3>8. i \in free_list /\ i \in Slots /\ i \notin free_list'
      <4>1. free_list \in SUBSET Nat /\ free_list # {} /\ free_list \subseteq Slots
        BY <1>2, <3>4, SlotFacts DEF ArrayOK, Place
      <4> QED BY <3>6, <3>7, <4>1, MinIsLeast DEF FreeSlot, Placed
    <3>9. files'[i] = e /\ files \in [Slots -> Entry] /\ free_list \subseteq Slots
      BY <1>2, <3>6, <3>7, <3>8 DEF Placed, ArrayOK
    <3>10. current_dir # NULL
      BY <1>2, OpenFileIsOpen, FoundSlot
    <3>11. Found(b)' /\ FindFile(b)' = i
      BY <2>3, <3>4, <3>6, <3>8, <3>9, <3>10, PlacedIsFound
    <3>12. Copy' = e
      BY <2>1, <3>9, <3>11 DEF Copy, FindFile
    <3> QED BY <3>1, <3>2, <3>4, <3>11, <3>12
  <2>4. CopyInv'
    BY <1>3, <2>1, <2>3 DEF CopyInv, Found
  <2> QED BY <1>2, <1>3, <2>1, <2>2, <2>4 DEF CommandsInv, RunningOpen
<1> QED BY <1>4, <1>5

LEMMA CpOpenCopyStep ==
  ASSUME CommandsInv, CopyInv, CpOpenCopy
  PROVE  CommandsInv' /\ CopyInv'
<1>1. PICK a, b : CpHas(a, b)
  BY RunningIs DEF CommandsInv, CpOpenCopy, At, CpHas
<1>2. /\ CmdTypeOK /\ content_len \in Nat /\ ArrayOK /\ PermissionsOK /\ a # b
      /\ OnlyOpen({a}) /\ FsOpen(b) /\ cmd.op = "cp" /\ cmd.step = "open2"
      /\ a \in Names /\ b \in Names
  BY <1>1, RunningIs DEF CommandsInv, CpOpenCopy, At, CpHas, CpOpenFiles
<1>3. CASE ret'.value # "SUCCESS" /\ Stays
  <2>1. /\ CmdTypeOK' /\ content_len' \in Nat /\ cmd'.op = "cp" /\ cmd'.src = a /\ cmd'.dst = b
        /\ cmd'.step = "fail"
    BY <1>1, <1>2, <1>3, GotoFacts DEF CpOpenCopy, Succeeds, CpHas, Steps
  <2>2. ArrayOK' /\ PermissionsOK' /\ OnlyOpen({a})'
    BY <1>2, <1>3, StaysFacts
  <2>3. CpOpenFiles'
    BY <2>1, <2>2, OpenOfCommand DEF CpOpenFiles
  <2> QED BY <1>2, <2>1, <2>2, <2>3 DEF CommandsInv, RunningOpen, CopyInv
<1>4. CASE ret'.value = "SUCCESS" /\ Found(b)
  <2>1. PICK e : /\ InPlace(FindFile(b), e) /\ e.is_open /\ ~e.is_dir /\ e.position = 0
                 /\ e.size = files[FindFile(b)].size
    BY <1>2, <1>4, OpenCall
  <2>2. OnlyOpen({a} \cup {b})'
    BY <1>2, <1>4, <2>1, OpenedOnly
  <2>3. OnlyOpen({a, b})'
    BY <2>2 DEF OnlyOpen
  <2>4. ArrayOK' /\ PermissionsOK' /\ SameNames /\ CountIsExact' = CountIsExact
        /\ \A i \in Slots : files'[i] = IF i = FindFile(b) THEN e ELSE files[i]
    BY <1>2, <2>1, InPlaceFacts
  <2>5. /\ CmdTypeOK' /\ content_len' \in Nat /\ cmd'.op = "cp" /\ cmd'.src = a /\ cmd'.dst = b
        /\ cmd'.step = "read"
    BY <1>1, <1>2, <1>4, GotoFacts DEF CpOpenCopy, Succeeds, CpHas, Steps
  <2>6. CpOpenFiles'
    BY <1>2, <2>3, <2>5, OpenOfCommand DEF CpOpenFiles
  <2>7. /\ FindFile(a) \in Slots /\ FindFile(b) \in Slots /\ FindFile(a) # FindFile(b)
        /\ FindFile(a)' = FindFile(a) /\ FindFile(b)' = FindFile(b)
    BY <1>2, <1>4, <2>4, FoundSlot, OpenFileIsOpen DEF SameNames
  <2>8. Source' = Source /\ Copy' = e /\ e.size = Copy.size
    BY <1>1, <2>1, <2>4, <2>5, <2>7 DEF Source, Copy, FindFile, CpHas
  <2>9. Source.size \in Nat
    BY <1>1, <1>2, <2>7 DEF Source, ArrayOK, Entry, CpHas
  <2>10. CopyInv'
    BY <1>2, <2>1, <2>4, <2>5, <2>8, <2>9 DEF CopyInv
  <2> QED BY <1>2, <2>4, <2>5, <2>6, <2>10 DEF CommandsInv, RunningOpen
<1> QED BY <1>2, <1>3, <1>4, OpenCall

LEMMA CpReadStep ==
  ASSUME CommandsInv, CopyInv, CpRead
  PROVE  CommandsInv' /\ CopyInv'
<1>1. PICK a, b : CpHas(a, b)
  BY RunningIs DEF CommandsInv, CpRead, At, CpHas
<1>2. /\ CmdTypeOK /\ content_len \in Nat /\ ArrayOK /\ PermissionsOK /\ a # b
      /\ OnlyOpen({a, b}) /\ FsRead(a, BUFFER_SIZE) /\ cmd.op = "cp" /\ cmd.step = "read"
      /\ a \in Names /\ b \in Names
  BY <1>1, RunningIs DEF CommandsInv, CpRead, At, CpHas, CpOpenFiles
<1>3. PICK n : n = ret'.value
  OBVIOUS
<1>4. PICK s, c : s = files[FindFile(a)] /\ c = files[FindFile(b)]
  OBVIOUS
<1>5. /\ Found(a) /\ Found(b) /\ s.is_open /\ ~s.is_dir
      /\ FindFile(a) \in Slots /\ FindFile(b) \in Slots /\ FindFile(a) # FindFile(b)
      /\ s \in Entry /\ c \in Entry
  BY <1>2, <1>4, OpenFileIsOpen, FoundSlot DEF ArrayOK
<1>6. /\ n \in Nat /\ (s.position <= s.size => s.position + n <= s.size)
      /\ n = 0 => s.position >= s.size
  BY <1>2, <1>3, <1>4, <1>5, ReadCall, CommandsAssumption
<1>7. PICK e : /\ InPlace(FindFile(a), e) /\ e.is_open
               /\ e.position = s.position + n /\ e.size = s.size
  BY <1>2, <1>3, <1>4, <1>5, ReadCall, CommandsAssumption
<1>8. /\ ArrayOK' /\ PermissionsOK' /\ SameNames /\ CountIsExact' = CountIsExact
      /\ \A i \in Slots : files'[i] = IF i = FindFile(a) THEN e ELSE files[i]
  BY <1>2, <1>7, InPlaceFacts
<1>9. OnlyOpen({a, b})'
  <2>1. a \in {a, b}
    OBVIOUS
  <2> QED BY <1>2, <1>7, <2>1, StillOpenOnly
<1>10. /\ CmdTypeOK' /\ content_len' \in Nat /\ cmd'.op = "cp" /\ cmd'.src = a /\ cmd'.dst = b
       /\ cmd'.step = (IF n = 0 THEN "close" ELSE "write") /\ cmd'.bytes = n
  BY <1>1, <1>2, <1>3, <1>6 DEF CpRead, CmdTypeOK, Steps, CpHas
<1>11. CpOpenFiles'
  BY <1>2, <1>9, <1>10, OpenOfCommand DEF CpOpenFiles
<1>12. FindFile(a)' = FindFile(a) /\ FindFile(b)' = FindFile(b) /\ Found(a)' /\ Found(b)'
  BY <1>5, <1>8 DEF SameNames
<1>13. Source = s /\ Copy = c /\ Source' = e /\ Copy' = c
  BY <1>1, <1>4, <1>5, <1>8, <1>10, <1>12 DEF Source, Copy, FindFile, CpHas
<1>14. s.size \in Nat /\ s.position \in Nat /\ c.size \in Nat /\ c.position \in Nat
  BY <1>5 DEF Entry
<1>15. CopyInv'
  <2> SUFFICES ASSUME CountIsExact
               PROVE  /\ n = 0 => Found(cmd.src)' /\ Found(cmd.dst)' /\ e.size = c.size
                      /\ n # 0 => /\ n > 0 /\ e.position = c.position + n
                                  /\ c.position = c.size /\ e.position <= e.size
    BY <1>8, <1>10, <1>13 DEF CopyInv
  <2>1. s.position = c.position /\ c.position = c.size /\ c.size <= s.size
    BY <1>2, <1>13 DEF CopyInv
  <2>2. Found(cmd.src)' /\ Found(cmd.dst)'
    BY <1>10, <1>12 DEF Found
  <2> QED BY <1>6, <1>7, <1>14, <2>1, <2>2
<1> QED BY <1>2, <1>8, <1>10, <1>11, <1>15 DEF CommandsInv, RunningOpen

LEMMA CpWriteStep ==
  ASSUME CommandsInv, CopyInv, CpWrite
  PROVE  CommandsInv' /\ CopyInv'
<1>1. PICK a, b : CpHas(a, b)
  BY RunningIs DEF CommandsInv, CpWrite, At, CpHas
<1>2. PICK n : n = cmd.bytes
  OBVIOUS
<1>3. /\ CmdTypeOK /\ content_len \in Nat /\ ArrayOK /\ PermissionsOK /\ a # b
      /\ OnlyOpen({a, b}) /\ FsWrite(b, n) /\ cmd.op = "cp" /\ cmd.step = "write"
      /\ a \in Names /\ b \in Names /\ n \in Nat
  BY <1>1, <1>2, RunningIs DEF CommandsInv, CpWrite, At, CpHas, CpOpenFiles, CmdTypeOK
<1>4. PICK s, c : s = files[FindFile(a)] /\ c = files[FindFile(b)]
  OBVIOUS
<1>5. /\ Found(a) /\ Found(b) /\ c.is_open /\ ~c.is_dir
      /\ FindFile(a) \in Slots /\ FindFile(b) \in Slots /\ FindFile(a) # FindFile(b)
      /\ s \in Entry /\ c \in Entry
  BY <1>3, <1>4, OpenFileIsOpen, FoundSlot DEF ArrayOK
<1>6. /\ CmdTypeOK' /\ content_len' \in Nat /\ cmd'.op = "cp" /\ cmd'.src = a /\ cmd'.dst = b
      /\ cmd'.step = IF ret'.value = n THEN "read" ELSE "close"
  BY <1>1, <1>2, <1>3, GotoFacts DEF CpWrite, CpHas, Steps
<1>7. ASSUME OnlyOpen({a, b})' PROVE CpOpenFiles'
  BY <1>3, <1>6, <1>7, OpenOfCommand DEF CpOpenFiles
<1>8. Source = s /\ Copy = c
  BY <1>1, <1>4 DEF Source, Copy, CpHas
<1>9. CASE n = 0 /\ Stays
  <2>1. ArrayOK' /\ PermissionsOK' /\ OnlyOpen({a, b})' /\ CountIsExact' = CountIsExact
    BY <1>3, <1>9, StaysFacts
  <2>2. ~CountIsExact
    BY <1>2, <1>3, <1>9 DEF CopyInv
  <2> QED BY <1>3, <1>6, <1>7, <2>1, <2>2 DEF CommandsInv, RunningOpen, CopyInv
<1>10. CASE ret'.value = n /\ ~(n = 0 /\ Stays)
  <2>1. PICK e : /\ InPlace(FindFile(b), e) /\ e.is_open /\ e.position = c.position + n
                 /\ c.position = c.size => e.size = e.position
    BY <1>3, <1>4, <1>5, <1>10, WriteCall
  <2>2. /\ ArrayOK' /\ PermissionsOK' /\ SameNames /\ CountIsExact' = CountIsExact
        /\ \A i \in Slots : files'[i] = IF i = FindFile(b) THEN e ELSE files[i]
    BY <1>3, <2>1, InPlaceFacts
  <2>3. OnlyOpen({a, b})'
    <3>1. b \in {a, b}
      OBVIOUS
    <3> QED BY <1>3, <2>1, <3>1, StillOpenOnly
  <2>4. FindFile(a)' = FindFile(a) /\ FindFile(b)' = FindFile(b)
    BY <2>2 DEF SameNames
  <2>5. Source' = s /\ Copy' = e
    BY <1>4, <1>5, <1>6, <2>2, <2>4 DEF Source, Copy, FindFile
  <2>6. CopyInv'
    <3> SUFFICES ASSUME CountIsExact
                 PROVE  s.position = e.position /\ e.position = e.size /\ e.size <= s.size
      BY <1>6, <1>10, <2>2, <2>5 DEF CopyInv
    <3>1. s.position = c.position + n /\ c.position = c.size /\ s.position <= s.size
      BY <1>2, <1>3, <1>8 DEF CopyInv
    <3> QED BY <2>1, <3>1
  <2> QED BY <1>3, <1>6, <1>7, <2>2, <2>3, <2>6 DEF CommandsInv, RunningOpen
<1> QED BY <1>3, <1>4, <1>5, <1>9, <1>10, WriteCall

LEMMA CpCloseStep ==
  ASSUME CommandsInv, CopyInv, CpClose
  PROVE  CommandsInv' /\ CopyInv'
<1>1. PICK a, b : CpHas(a, b)
  BY RunningIs DEF CommandsInv, CpClose, At, CpHas
<1>2. /\ CmdTypeOK /\ content_len \in Nat /\ ArrayOK /\ PermissionsOK /\ a # b
      /\ OnlyOpen({a, b}) /\ FsClose(a) /\ cmd.op = "cp" /\ cmd.step = "close"
      /\ a \in Names /\ b \in Names
  BY <1>1, RunningIs DEF CommandsInv, CpClose, At, CpHas, CpOpenFiles
<1>3. /\ Found(a) /\ Found(b) /\ files[FindFile(a)].is_open
      /\ FindFile(a) \in Slots /\ FindFile(b) \in Slots /\ FindFile(a) # FindFile(b)
  BY <1>2, OpenFileIsOpen, FoundSlot
<1>4. PICK e : /\ InPlace(FindFile(a), e) /\ ~e.is_open /\ e.size = files[FindFile(a)].size
  BY <1>2, <1>3, CloseCall
<1>5. /\ ArrayOK' /\ PermissionsOK' /\ SameNames /\ CountIsExact' = CountIsExact
      /\ \A i \in Slots : files'[i] = IF i = FindFile(a) THEN e ELSE files[i]
  BY <1>2, <1>4, InPlaceFacts
<1>6. OnlyOpen({b})'
  <2>1. a \in {a, b} /\ {a, b} \ {a} = {b}
    BY <1>2
  <2>2. OnlyOpen({a, b} \ {a})'
    BY <1>2, <1>4, <2>1, ClosedOnly
  <2> QED BY <2>1, <2>2 DEF OnlyOpen
<1>7. /\ CmdTypeOK' /\ content_len' \in Nat /\ cmd'.op = "cp" /\ cmd'.src = a /\ cmd'.dst = b
      /\ cmd'.step = "close2"
  BY <1>1, <1>2, GotoFacts DEF CpClose, CpHas, Steps
<1>8. CpOpenFiles'
  BY <1>6, <1>7, OpenOfCommand DEF CpOpenFiles
<1>9. FindFile(a)' = FindFile(a) /\ FindFile(b)' = FindFile(b) /\ Found(a)' /\ Found(b)'
  BY <1>3, <1>5 DEF SameNames
<1>10. Source'.size = Source.size /\ Copy'.size = Copy.size
  BY <1>1, <1>3, <1>4, <1>5, <1>7, <1>9 DEF Source, Copy, FindFile, CpHas
<1>11. Found(cmd.src)' /\ Found(cmd.dst)'
  BY <1>7, <1>9 DEF Found
<1>12. CopyInv'
  BY <1>2, <1>5, <1>7, <1>10, <1>11 DEF CopyInv
<1> QED BY <1>2, <1>5, <1>7, <1>8, <1>12 DEF CommandsInv, RunningOpen

\* A command that closes its last file and ends.
LEMMA LastCloseKeeps ==
  ASSUME content_len \in Nat, ArrayOK, PermissionsOK, NEW n, OnlyOpen({n}), FsClose(n),
         NEW value, Exit(value)
  PROVE  CommandsInv' /\ CopyInv'
<1>1. Found(n) /\ files[FindFile(n)].is_open
  BY OpenFileIsOpen
<1>2. PICK e : InPlace(FindFile(n), e) /\ ~e.is_open
  BY <1>1, CloseCall
<1>3. n \in {n} /\ {n} \ {n} = {}
  OBVIOUS
<1>4. OnlyOpen({n} \ {n})'
  BY <1>2, <1>3, ClosedOnly
<1>5. OnlyOpen({})'
  BY <1>3, <1>4 DEF OnlyOpen
<1> QED BY <1>2, <1>5, InPlaceFacts, ExitKeeps

LEMMA CpLastStep ==
  ASSUME CommandsInv, CpCloseCopy \/ CpFail
  PROVE  CommandsInv' /\ CopyInv'
<1>1. PICK a, b : CpHas(a, b)
  BY RunningIs DEF CommandsInv, CpCloseCopy, CpFail, At, CpHas
<1>2. content_len \in Nat /\ ArrayOK /\ PermissionsOK
  BY DEF CommandsInv
<1>3. CASE CpCloseCopy
  <2>1. OnlyOpen({b}) /\ FsClose(b) /\ \E value : Exit(value)
    BY <1>1, <1>3, RunningIs DEF CommandsInv, CpCloseCopy, At, CpHas, CpOpenFiles
  <2> QED BY <1>2, <2>1, LastCloseKeeps
<1>4. CASE CpFail
  <2>1. OnlyOpen({a}) /\ FsClose(a) /\ \E value : Exit(value)
    BY <1>1, <1>4, RunningIs DEF CommandsInv, CpFail, At, CpHas, CpOpenFiles
  <2> QED BY <1>2, <2>1, LastCloseKeeps
<1> QED BY <1>3, <1>4

\* Opening the first file of a command.
LEMMA FirstOpen ==
  ASSUME ArrayOK, PermissionsOK, OnlyOpen({}), NEW n, FsOpen(n)
  PROVE  /\ ArrayOK' /\ PermissionsOK'
         /\ ret'.value = "SUCCESS" => OnlyOpen({n})'
         /\ ret'.value # "SUCCESS" => OnlyOpen({})'
<1>1. CASE ret'.value # "SUCCESS" /\ Stays
  BY <1>1, StaysFacts
<1>2. CASE ret'.value = "SUCCESS" /\ Found(n)
  <2>1. PICK e : InPlace(FindFile(n), e) /\ e.is_open /\ ~e.is_dir
    BY <1>2, OpenCall
  <2>2. OnlyOpen({} \cup {n})'
    BY <1>2, <2>1, OpenedOnly
  <2>3. OnlyOpen({n})'
    BY <2>2 DEF OnlyOpen
  <2> QED BY <1>2, <2>1, <2>3, InPlaceFacts
<1> QED BY <1>1, <1>2, OpenCall

\* cat and ed go on with their file.
LEMMA OneFileGoesOn ==
  ASSUME CmdTypeOK, content_len \in Nat, ArrayOK', PermissionsOK', NEW n \in Names, cmd.src = n,
         NEW step \in Steps, Goto(step),
         \/ /\ cmd.op = "cat"
            /\ \/ step = "open" /\ OnlyOpen({})'
               \/ step \in {"read", "close"} /\ OnlyOpen({n})'
         \/ /\ cmd.op = "ed"
            /\ \/ step \in {"create", "open"} /\ OnlyOpen({})'
               \/ step \in {"write", "close"} /\ OnlyOpen({n})'
  PROVE  CommandsInv' /\ CopyInv'
<1>1. /\ CmdTypeOK' /\ content_len' \in Nat /\ cmd'.op = cmd.op /\ cmd'.src = n
      /\ cmd'.step = step
  BY GotoFacts
<1>2. OnlyOpen({n})' => OnlyOpen({cmd.src})'
  BY <1>1, OpenOfCommand
<1>3. RunningOpen'
  BY <1>1, <1>2 DEF RunningOpen, OneOpenFile
<1> QED BY <1>1, <1>3 DEF CommandsInv, CopyInv

LEMMA CatKeeps ==
  ASSUME CommandsInv, CatStep
  PROVE  CommandsInv' /\ CopyInv'
<1>1. PICK n : n = cmd.src
  OBVIOUS
<1>2. /\ CmdTypeOK /\ content_len \in Nat /\ ArrayOK /\ PermissionsOK /\ cmd.op = "cat"
      /\ n \in Names /\ OneOpenFile({"open"}, {"read", "close"})
  BY <1>1, RunningIs DEF CommandsInv, CatStep, CatOpen, CatRead, CatClose, At
<1>3. CASE CatOpen
  <2>1. FsOpen(n) /\ OnlyOpen({})
    BY <1>1, <1>2, <1>3 DEF CatOpen, At, OneOpenFile
  <2>2. CASE ret'.value = "SUCCESS"
    BY <1>1, <1>2, <1>3, <2>1, <2>2, FirstOpen, OneFileGoesOn DEF CatOpen, Succeeds, Steps
  <2>3. CASE ret'.value # "SUCCESS"
    BY <1>2, <1>3, <2>1, <2>3, FirstOpen, ExitKeeps DEF CatOpen, Succeeds
  <2> QED BY <2>2, <2>3
<1>4. CASE CatRead
  <2>1. FsRead(n, CAT_SIZE) /\ OnlyOpen({n})
    BY <1>1, <1>2, <1>4 DEF CatRead, At, OneOpenFile
  <2>2. Found(n) /\ files[FindFile(n)].is_open /\ ~files[FindFile(n)].is_dir
    BY <2>1, OpenFileIsOpen
  <2>3. PICK e : InPlace(FindFile(n), e) /\ e.is_open
    BY <1>2, <2>1, <2>2, ReadCall, CommandsAssumption
  <2>4. OnlyOpen({n})' /\ ArrayOK' /\ PermissionsOK'
    <3>1. n \in {n}
      OBVIOUS
    <3> QED BY <1>2, <2>1, <2>3, <3>1, StillOpenOnly, InPlaceFacts
  <2>5. \E step \in {"read", "close"} : Goto(step)
    BY <1>4 DEF CatRead
  <2> QED BY <1>1, <1>2, <2>4, <2>5, OneFileGoesOn DEF Steps
<1>5. CASE CatClose
  <2>1. FsClose(n) /\ OnlyOpen({n}) /\ \E value : Exit(value)
    BY <1>1, <1>2, <1>5 DEF CatClose, At, OneOpenFile
  <2> QED BY <1>2, <2>1, LastCloseKeeps
<1> QED BY <1>3, <1>4, <1>5 DEF CatStep

LEMMA EdKeeps ==
  ASSUME CommandsInv, EdStep
  PROVE  CommandsInv' /\ CopyInv'
<1>1. PICK n : n = cmd.src
  OBVIOUS
<1>2. /\ CmdTypeOK /\ content_len \in Nat /\ ArrayOK /\ PermissionsOK /\ cmd.op = "ed"
      /\ n \in Names /\ OneOpenFile({"create", "open"}, {"write", "close"})
  BY <1>1, RunningIs DEF CommandsInv, EdStep, EdCreate, EdOpen, EdPut, EdClose, At
<1>3. CASE EdCreate
  <2>1. FsCreate(n) /\ OnlyOpen({})
    BY <1>1, <1>2, <1>3 DEF EdCreate, At, OneOpenFile
  <2>2. ArrayOK' /\ PermissionsOK' /\ OnlyOpen({})'
    BY <1>2, <2>1, CreatedFacts
  <2>3. CASE Goto("open")
    BY <1>1, <1>2, <2>2, <2>3, OneFileGoesOn DEF Steps
  <2>4. CASE Exit(1)
    BY <1>2, <2>2, <2>4, ExitKeeps
  <2> QED BY <1>3, <2>3, <2>4 DEF EdCreate
<1>4. CASE EdOpen
  <2>1. FsOpen(n) /\ OnlyOpen({})
    BY <1>1, <1>2, <1>4 DEF EdOpen, At, OneOpenFile
  <2>2. CASE ret'.value = "SUCCESS"
    BY <1>1, <1>2, <1>4, <2>1, <2>2, FirstOpen, OneFileGoesOn DEF EdOpen, Succeeds, Steps
  <2>3. CASE ret'.value # "SUCCESS"
    BY <1>2, <1>4, <2>1, <2>3, FirstOpen, ExitKeeps DEF EdOpen, Succeeds
  <2> QED BY <2>2, <2>3
<1>5. CASE EdPut
  <2>1. FsWrite(n, content_len) /\ OnlyOpen({n}) /\ Goto("close")
    BY <1>1, <1>2, <1>5 DEF EdPut, At, OneOpenFile
  <2>2. Found(n) /\ files[FindFile(n)].is_open /\ ~files[FindFile(n)].is_dir /\ n \in {n}
    BY <2>1, OpenFileIsOpen
  <2>3. Stays \/ \E e : InPlace(FindFile(n), e) /\ e.is_open
    BY <1>2, <2>1, <2>2, WriteCall
  <2>4. OnlyOpen({n})' /\ ArrayOK' /\ PermissionsOK'
    BY <1>2, <2>1, <2>2, <2>3, StaysFacts, StillOpenOnly, InPlaceFacts
  <2> QED BY <1>1, <1>2, <2>1, <2>4, OneFileGoesOn DEF Steps
<1>6. CASE EdClose
  <2>1. FsClose(n) /\ OnlyOpen({n}) /\ \E value : Exit(value)
    BY <1>1, <1>2, <1>6 DEF EdClose, At, OneOpenFile
  <2> QED BY <1>2, <2>1, LastCloseKeeps
<1> QED BY <1>3, <1>4, <1>5, <1>6 DEF EdStep

-----------------------------------------------------------------------------
(* The commands that are one call, and the launches.                       *)

NoneOpen == \A i \in Slots : ~files[i].is_open

LEMMA NoneOpenIs == OnlyOpen({}) <=> NoneOpen
BY DEF OnlyOpen, NoneOpen

\* What such a command keeps, whatever it changes.
IdleKept == ArrayOK' /\ PermissionsOK' /\ NoneOpen'

LEMMA IdleStays ==
  ASSUME ArrayOK, PermissionsOK, NoneOpen, Stays
  PROVE  IdleKept
BY StaysFacts DEF IdleKept, NoneOpen, Stays

LEMMA MkdirKeeps ==
  ASSUME ArrayOK, PermissionsOK, NoneOpen, NEW n \in Names, FsMkdir(n)
  PROVE  IdleKept
<1>1. CASE Refused("mkdir", n)
  BY <1>1, IdleStays DEF Refused, Reply, Stays
<1>2. CASE Place("mkdir", n, NewDir(n, current_dir))
  <2>1. ArrayOK' /\ PermissionsOK' /\ (OnlyOpen({}) => OnlyOpen({})')
    BY <1>2, NewEntriesHere, PlaceFacts
  <2> QED BY <2>1, NoneOpenIs, PTL DEF IdleKept
<1> QED BY <1>1, <1>2 DEF FsMkdir

LEMMA TouchKeeps ==
  ASSUME ArrayOK, PermissionsOK, NoneOpen, NEW n \in Names, Touch(n)
  PROVE  IdleKept
<1>1. CASE Reply("touch", n, "EXISTS")
  BY <1>1, IdleStays DEF Reply, Stays
<1>2. CASE FsCreate(n)
  <2>1. ArrayOK' /\ PermissionsOK' /\ (OnlyOpen({}) => OnlyOpen({})')
    BY <1>2, CreatedFacts
  <2> QED BY <2>1, NoneOpenIs, PTL DEF IdleKept
<1> QED BY <1>1, <1>2 DEF Touch

LEMMA RmKeeps ==
  ASSUME ArrayOK, PermissionsOK, NoneOpen, NEW n \in Names, FsDelete(n)
  PROVE  IdleKept
<1>1. ASSUME NEW value, Reply("delete", n, value) PROVE IdleKept
  BY <1>1, IdleStays DEF Reply, Stays
<1>2. ASSUME Found(n), NEW f, f = FindFile(n), files' = [files EXCEPT ![f] = Erased(files[f])],
             free_list' = free_list \cup {f}, file_count' = file_count - 1,
             current_dir' = IF current_dir = f THEN files[f].parent ELSE current_dir
      PROVE  IdleKept
  <2>1. f \in Live /\ f \in Slots /\ files[f] \in Entry /\ files[f].parent \in Slots \cup {NULL}
    BY <1>2, FoundSlot DEF ArrayOK, Entry
  <2>2. Zeroed \in Entry /\ Zeroed.is_open = FALSE /\ Zeroed.parent = NULL
    BY DEF Zeroed, Entry
  <2>3. /\ files' \in [Slots -> Entry]
        /\ \A i \in Slots : files'[i] = IF i = f THEN Zeroed ELSE files[i]
    BY <1>2, <2>1, <2>2 DEF ArrayOK, Erased
  <2>4. PICK c \in Nat : c = Cardinality(Live) /\ Cardinality(Live)' = c - 1
    BY <1>2, <2>1, LiveShrinks, LiveIsFinite
  <2>5. ArrayOK'
    BY <1>2, <2>1, <2>3, <2>4 DEF ArrayOK
  <2>6. PermissionsOK' /\ NoneOpen'
    BY <2>2, <2>3 DEF PermissionsOK, NoneOpen
  <2> QED BY <2>5, <2>6 DEF IdleKept
<1> QED BY <1>1, <1>2 DEF FsDelete

LEMMA NamedSlot ==
  ASSUME NEW n, Taken(n)
  PROVE  Named(n) \in Counted /\ Named(n) \in Slots /\ files[Named(n)].name = n
<1>1. PICK S : S = {i \in Counted : files[i].name = n}
  OBVIOUS
<1>2. S \in SUBSET Nat /\ S # {}
  BY <1>1, SlotFacts DEF Taken, Counted
<1> QED BY <1>1, <1>2, MinIsLeast DEF Named, Counted

LEMMA RenamedEntry ==
  ASSUME NEW e \in Entry, NEW n \in Words
  PROVE  LET m == [e EXCEPT !.name = n]
         IN /\ m \in Entry /\ m.name = n /\ m.parent = e.parent /\ m.is_dir = e.is_dir
            /\ m.is_open = e.is_open /\ m.permissions = e.permissions
            /\ m.size = e.size /\ m.position = e.position /\ m.allocated_size = e.allocated_size
BY DEF Entry, Words

LEMMA MvKeeps ==
  ASSUME ArrayOK, PermissionsOK, NoneOpen, NEW source, NEW dest \in Words, Mv(source, dest)
  PROVE  IdleKept
<1>1. ASSUME NEW value, Reply("mv", source, value) PROVE IdleKept
  BY <1>1, IdleStays DEF Reply, Stays
<1>2. ASSUME Taken(source), NEW f, f = Named(source),
             UpdateFile(f, [files[f] EXCEPT !.name = dest])
      PROVE  IdleKept
  <2>1. f \in Slots /\ files \in [Slots -> Entry]
    BY <1>2, NamedSlot DEF ArrayOK
  <2>2. PICK e : e = [files[f] EXCEPT !.name = dest]
    OBVIOUS
  <2>3. /\ e \in Entry /\ e.parent = files[f].parent /\ e.is_dir = files[f].is_dir
        /\ e.is_open = files[f].is_open /\ e.permissions = files[f].permissions
    BY <2>1, <2>2, RenamedEntry
  <2>4. /\ files' = [files EXCEPT ![f] = e] /\ UNCHANGED <<free_list, file_count, current_dir>>
    BY <1>2, <2>2 DEF UpdateFile
  <2>5. \A i \in Slots : files'[i] = IF i = f THEN e ELSE files[i]
    BY <2>1, <2>4
  <2>6. ArrayOK'
    BY <2>1, <2>3, <2>4 DEF ArrayOK, Live
  <2>7. PermissionsOK' /\ NoneOpen'
    BY <2>1, <2>3, <2>5 DEF PermissionsOK, NoneOpen
  <2> QED BY <2>6, <2>7 DEF IdleKept
<1> QED BY <1>1, <1>2 DEF Mv

LEMMA MoveKeeps ==
  ASSUME ArrayOK, PermissionsOK, NoneOpen, NEW dir \in Slots \cup {NULL}, MoveTo(dir)
  PROVE  IdleKept
BY DEF MoveTo, IdleKept, ArrayOK, PermissionsOK, NoneOpen, Live

LEMMA CdKeeps ==
  ASSUME ArrayOK, PermissionsOK, NoneOpen, CdRoot \/ CdUp \/ \E n : Cd(n)
  PROVE  IdleKept
<1>1. CASE CdRoot
  BY <1>1, MoveKeeps DEF CdRoot
<1>2. CASE CdUp
  <2>1. current_dir # NULL => files[current_dir].parent \in Slots \cup {NULL}
    BY DEF ArrayOK, Entry
  <2> QED BY <1>2, <2>1, MoveKeeps DEF CdUp
<1>3. ASSUME NEW n, Cd(n) PROVE IdleKept
  <2>1. CASE Reply("cd", n, "NOT_FOUND")
    BY <2>1, IdleStays DEF Reply, Stays
  <2>2. CASE Subdirs(n) # {} /\ MoveTo(Min(Subdirs(n)))
    <3>1. Subdirs(n) \in SUBSET Nat /\ Subdirs(n) \subseteq Slots
      BY SlotFacts DEF Subdirs, Counted
    <3> QED BY <2>2, <3>1, MinIsLeast, MoveKeeps
  <2> QED BY <1>3, <2>1, <2>2 DEF Cd
<1> QED BY <1>1, <1>2, <1>3

\* The entry that comes to a slot was in the next one.
LEMMA RmdirKeeps ==
  ASSUME ArrayOK, PermissionsOK, NoneOpen, NEW n, Rmdir(n)
  PROVE  IdleKept
<1>1. CASE Reply("rmdir", n, "FAILED")
  BY <1>1, IdleStays DEF Reply, Stays
<1>2. ASSUME NEW i, file_count' = file_count - 1, UNCHANGED <<free_list, current_dir>>,
             files' = [k \in Slots |-> IF i <= k /\ k < file_count - 1 THEN files[k + 1] ELSE files[k]]
      PROVE  IdleKept
  <2>1. PICK c \in Nat : c = Cardinality(Live) /\ Cardinality(Live)' = c /\ c <= MaxFiles
    <3>1. Live' = Live /\ Live \subseteq Slots
      BY <1>2 DEF Live
    <3>2. Cardinality(Live) <= Cardinality(Slots)
      BY <3>1, SlotFacts, FS_Subset
    <3> QED BY <3>1, <3>2, SlotFacts, LiveIsFinite
  <2>2. /\ files \in [Slots -> Entry] /\ free_list \subseteq Slots /\ file_count \in Int
        /\ file_count <= c /\ current_dir \in Slots \cup {NULL}
    BY <2>1 DEF ArrayOK
  <2>3. \A k \in Slots : \E j \in Slots : files'[k] = files[j]
    <3> SUFFICES ASSUME NEW k \in Slots PROVE \E j \in Slots : files'[k] = files[j]
      OBVIOUS
    <3>1. k < file_count - 1 => k + 1 \in Slots
      BY <2>1, <2>2, FsAssumption DEF Slots
    <3>2. CASE i <= k /\ k < file_count - 1
      BY <1>2, <3>1, <3>2
    <3>3. CASE ~(i <= k /\ k < file_count - 1)
      BY <1>2, <3>3
    <3> QED BY <3>2, <3>3
  <2>4. files' \in [Slots -> Entry]
    <3>1. \A k \in Slots : files'[k] \in Entry
      BY <2>2, <2>3
    <3>2. files' = [k \in Slots |-> files'[k]]
      BY <1>2
    <3> QED BY <3>1, <3>2
  <2>5. ArrayOK'
    BY <1>2, <2>1, <2>2, <2>4 DEF ArrayOK
  <2>6. PermissionsOK' /\ NoneOpen'
    BY <2>3 DEF PermissionsOK, NoneOpen
  <2> QED BY <2>5, <2>6 DEF IdleKept
<1> QED BY <1>1, <1>2 DEF Rmdir

\* A whole command: it was run from the idle shell.
LEMMA DoneKeeps ==
  ASSUME CommandsInv, Idle, IdleKept, UNCHANGED cmd, content_len' \in Nat
  PROVE  CommandsInv' /\ CopyInv'
<1>1. OnlyOpen({})'
  BY NoneOpenIs, PTL DEF IdleKept
<1>2. cmd' = NoCommand /\ CmdTypeOK'
  BY DEF Idle, CommandsInv, CmdTypeOK
<1> QED BY <1>1, <1>2 DEF CommandsInv, RunningOpen, IdleKept, CopyInv, NoCommand

LEMMA IdleHas ==
  ASSUME CommandsInv, Idle
  PROVE  ArrayOK /\ PermissionsOK /\ NoneOpen /\ OnlyOpen({}) /\ content_len \in Nat
<1>1. OnlyOpen({})
  BY DEF CommandsInv, RunningOpen, Idle, NoCommand
<1> QED BY <1>1, NoneOpenIs DEF CommandsInv

LEMMA LaunchKeeps ==
  ASSUME CommandsInv, NEW op, NEW src \in Names, NEW dst \in Names \cup {ZeroName}, NEW step,
         Launch(op, src, dst, step),
         \/ op = "cp" /\ step = "open" /\ dst \in Names
         \/ op = "cat" /\ step = "open"
         \/ op = "ed" /\ step = "create"
  PROVE  CommandsInv' /\ CopyInv'
<1>1. /\ Idle /\ Stays /\ content_len' = content_len
      /\ cmd' = [NoCommand EXCEPT !.op = op, !.src = src, !.dst = dst, !.step = step]
  BY DEF Launch, vars, Stays
<1>2. ArrayOK' /\ PermissionsOK' /\ OnlyOpen({})' /\ content_len' \in Nat
  BY <1>1, IdleHas, StaysFacts
<1>3. cmd' = [op |-> op, src |-> src, dst |-> dst, step |-> step, bytes |-> 0]
  BY <1>1 DEF NoCommand
<1>4. CmdTypeOK'
  BY <1>3 DEF CmdTypeOK, Steps
<1>5. RunningOpen'
  BY <1>2, <1>3 DEF RunningOpen, CpOpenFiles, OneOpenFile
<1> QED BY <1>2, <1>3, <1>4, <1>5 DEF CommandsInv, CopyInv

LEMMA EnteredKeeps ==
  ASSUME CommandsInv, Entered
  PROVE  CommandsInv' /\ CopyInv'
<1>1. ASSUME NEW op, NEW value, Done(op, value), Idle => IdleKept
      PROVE  CommandsInv' /\ CopyInv'
  BY <1>1, IdleHas, DoneKeeps DEF Done
<1>2. ASSUME NEW n \in Names, Mkdir(n) \/ Rm(n) \/ Touch(n) \/ Rmdir(n)
      PROVE  CommandsInv' /\ CopyInv'
  <2>1. Idle => IdleKept
    BY <1>2, IdleHas, MkdirKeeps, RmKeeps, TouchKeeps, RmdirKeeps DEF Mkdir, Rm
  <2>2. \E op, value : Done(op, value)
    BY <1>2 DEF Mkdir, Rm, Touch, Rmdir
  <2> QED BY <1>1, <2>1, <2>2
<1>3. ASSUME NEW n \in Names, Cat(n) \/ EdWrite(n) PROVE CommandsInv' /\ CopyInv'
  BY <1>3, LaunchKeeps DEF Cat, EdWrite
<1>4. ASSUME CdRoot \/ CdUp \/ \E n \in Words : Cd(n) PROVE CommandsInv' /\ CopyInv'
  <2>1. Idle => IdleKept
    BY <1>4, IdleHas, CdKeeps
  <2>2. \E op, value : Done(op, value)
    BY <1>4 DEF CdRoot, CdUp, Cd, MoveTo
  <2> QED BY <1>1, <2>1, <2>2
<1>5. ASSUME NEW a \in Words, NEW b \in Words, Mv(a, b) PROVE CommandsInv' /\ CopyInv'
  <2>1. Idle => IdleKept
    BY <1>5, IdleHas, MvKeeps
  <2>2. \E op, value : Done(op, value)
    BY <1>5 DEF Mv
  <2> QED BY <1>1, <2>1, <2>2
<1>6. ASSUME NEW a \in Names, NEW b \in Names, Cp(a, b) PROVE CommandsInv' /\ CopyInv'
  BY <1>6, LaunchKeeps DEF Cp
<1>7. ASSUME Pwd PROVE CommandsInv' /\ CopyInv'
  <2>1. Idle => IdleKept
    BY <1>7, IdleHas, IdleStays DEF Pwd, Reply, Stays
  <2> QED BY <1>1, <1>7, <2>1 DEF Pwd
<1>8. ASSUME EdInsert PROVE CommandsInv' /\ CopyInv'
  <2>1. PICK k \in Lines : content_len' = content_len + k
    BY <1>8 DEF EdInsert
  <2>2. Idle /\ Stays /\ UNCHANGED cmd
    BY <1>8 DEF EdInsert, vars, Stays
  <2>3. content_len' \in Nat
    BY <2>1, CommandsAssumption DEF CommandsInv
  <2> QED BY <2>2, <2>3, IdleHas, IdleStays, DoneKeeps
<1> QED BY <1>2, <1>3, <1>4, <1>5, <1>6, <1>7, <1>8 DEF Entered

LEMMA RunningKeeps ==
  ASSUME CommandsInv, CopyInv, CpStep \/ CatStep \/ EdStep
  PROVE  CommandsInv' /\ CopyInv'
BY CpOpenStep, CpCreateStep, CpOpenCopyStep, CpReadStep, CpWriteStep, CpCloseStep, CpLastStep,
   CatKeeps, EdKeeps DEF CpStep

LEMMA CommandsInvariant == CommandsSpec => [](CommandsInv /\ CopyInv)
<1>1. CommandsInit => CommandsInv /\ CopyInv
  <2> SUFFICES ASSUME CommandsInit PROVE CommandsInv /\ CopyInv
    OBVIOUS
  <2>1. /\ files = [i \in Slots |-> IF i = Root THEN NewDir(RootName, NULL) ELSE Zeroed]
        /\ free_list = Slots \ {Root} /\ file_count = 1 /\ current_dir = Root
        /\ cmd = NoCommand /\ content_len = 0
    BY DEF CommandsInit, Init
  <2>2. PICK root : root = NewDir(RootName, NULL)
    OBVIOUS
  <2>3. /\ root \in Entry /\ root.is_open = FALSE /\ root.parent = NULL
        /\ Zeroed \in Entry /\ Zeroed.is_open = FALSE /\ Zeroed.parent = NULL
    <3>1. Zeroed \in Entry /\ Zeroed.is_open = FALSE /\ Zeroed.parent = NULL
      BY DEF Zeroed, Entry
    <3>2. root \in Entry
      BY <2>2, <3>1 DEF NewDir, Entry
    <3> QED BY <2>2, <3>1, <3>2 DEF NewDir, Zeroed
  <2>4. Root \in Slots /\ \A i \in Slots : files[i] = IF i = Root THEN root ELSE Zeroed
    BY <2>1, <2>2, SlotFacts
  <2>5. Live = {Root} /\ Cardinality({Root}) = 1
    BY <2>1, <2>4, FS_Singleton DEF Live
  <2>6. files \in [Slots -> Entry]
    BY <2>1, <2>2, <2>3
  <2>7. ArrayOK
    BY <2>1, <2>4, <2>5, <2>6 DEF ArrayOK
  <2>8. PermissionsOK /\ NoneOpen
    BY <2>3, <2>4 DEF PermissionsOK, NoneOpen
  <2>9. CmdTypeOK
    BY <2>1 DEF CmdTypeOK, NoCommand, Steps
  <2>10. CommandsInv
    BY <2>1, <2>7, <2>8, <2>9, NoneOpenIs DEF CommandsInv, RunningOpen
  <2>11. CopyInv
    BY <2>1 DEF CopyInv, NoCommand
  <2> QED BY <2>10, <2>11
<1>2. CommandsInv /\ CopyInv /\ [CommandsNext]_commands_vars => CommandsInv' /\ CopyInv'
  <2> SUFFICES ASSUME CommandsInv, CopyInv, [CommandsNext]_commands_vars
               PROVE  CommandsInv' /\ CopyInv'
    OBVIOUS
  <2>1. CASE CommandsNext
    BY <2>1, EnteredKeeps, RunningKeeps DEF CommandsNext
  <2>2. CASE UNCHANGED commands_vars
    <3>1. Stays /\ UNCHANGED <<cmd, content_len>>
      BY <2>2 DEF commands_vars, vars, Stays
    <3>2. /\ ArrayOK' /\ PermissionsOK' /\ SameNames /\ CountIsExact' = CountIsExact
      BY <3>1, StaysFacts DEF CommandsInv
    <3>3. RunningOpen'
      BY <3>1, <3>2 DEF CommandsInv, RunningOpen, CpOpenFiles, OneOpenFile, OnlyOpen, SameNames,
                        Stays
    <3>4. CopyInv'
      BY <3>1, <3>2 DEF CopyInv, Source, Copy, SameNames, Stays
    <3> QED BY <3>1, <3>2, <3>3, <3>4 DEF CommandsInv, CmdTypeOK
  <2> QED BY <2>1, <2>2
<1> QED BY <1>1, <1>2, PTL DEF CommandsSpec

-----------------------------------------------------------------------------
(* Order.                                                                  *)

\* mv: an entry that no directory has a name of.
Renamed(f, e) ==
  /\ f \in Live /\ Replaced(f, e)
  /\ \A i \in Live : files[i].name # e.name

LEMMA CountedIsLive ==
  ASSUME FsInv, NoHoles
  PROVE  Counted = Live
<1>1. \A i \in Live : i \in Counted
  BY SearchedAreLive, LiveIsFinite DEF Counted
<1>2. ASSUME NEW i \in Counted, i \notin Live PROVE FALSE
  <2>1. i \in Nat /\ i \in Slots /\ i < file_count
    BY <1>2, SlotFacts DEF Counted
  <2>2. Live \subseteq 0 .. i - 1
    <3> SUFFICES ASSUME NEW j \in Live PROVE j \in 0 .. i - 1
      OBVIOUS
    <3>1. j \in Slots /\ j \in Nat /\ j # i /\ ~(i < j)
      BY <1>2, <2>1, LiveIsFinite, SlotFacts DEF NoHoles
    <3> QED BY <2>1, <3>1
  <2>3. IsFiniteSet(0 .. i - 1) /\ Cardinality(0 .. i - 1) = i
    BY <2>1, FS_Interval
  <2>4. Cardinality(Live) <= Cardinality(0 .. i - 1)
    BY <2>2, <2>3, FS_Subset
  <2>5. PICK c \in Nat : c = Cardinality(Live) /\ file_count = c
    BY LiveIsCounted, LiveIsFinite
  <2> QED BY <2>1, <2>3, <2>4, <2>5
<1>3. Counted \subseteq Live
  BY <1>2
<1> QED BY <1>1, <1>3

\* A call of fs.c on an array in order, and what the commands do instead.
LEMMA NamesStayOnce ==
  ASSUME FsInv, NoHoles, NamesOnce, OneSlot \/ \E f, e : Renamed(f, e)
  PROVE  NamesOnce' /\ FsInv'
<1>0. files \in [Slots -> Entry] /\ Live \subseteq Slots /\ free_list \subseteq Slots
  BY LiveIsFinite DEF FsInv, TypeOK
<1>1. CASE Stays
  BY <1>1, OneSlotKeeps DEF OneSlot, FsInv, NamesOnce, Live, Stays
<1>2. CASE Moved
  <2>1. NamesOnce'
    BY <1>2 DEF NamesOnce, Live, Moved
  <2>2. FsInv'
    BY <1>2, OneSlotKeeps DEF OneSlot, FsInv
  <2> QED BY <2>1, <2>2
<1>3. ASSUME NEW f \in Slots, NEW e \in Entry, Changed(f, e) PROVE NamesOnce' /\ FsInv'
  <2>1. /\ Live' = Live
        /\ \A i \in Slots : files'[i].parent = files[i].parent /\ files'[i].name = files[i].name
    BY <1>0, <1>3 DEF Changed, Live, SamePlace
  <2>2. NamesOnce'
    BY <1>0, <2>1 DEF NamesOnce
  <2>3. FsInv'
    BY <1>3, OneSlotKeeps DEF OneSlot, FsInv
  <2> QED BY <2>2, <2>3
<1>4. ASSUME NEW e \in Entry, Placed(e) PROVE NamesOnce' /\ FsInv'
  <2>1. PICK f : f = FreeSlot
    OBVIOUS
  <2>2. f \in free_list /\ f \in Slots
    BY <1>4, <2>1, FreeSlotIsFree DEF Placed
  <2>3. Live' = Live \cup {f} /\ f \notin Live
    BY <1>4, <2>1, <2>2 DEF Placed, Live
  <2>4. \A i \in Slots : files'[i] = IF i = f THEN e ELSE files[i]
    BY <1>0, <1>4, <2>1, <2>2 DEF Placed
  <2>5. ~Found(e.name) /\ e.parent = current_dir /\ current_dir # NULL
    BY <1>4, SlotFacts DEF Placed, FsInv, TypeOK
  <2>6. \A i \in Live : ~(files[i].parent = e.parent /\ files[i].name = e.name)
    BY <2>5, SearchedAreLive DEF Found, Matches
  <2>7. \A i \in Live : files'[i] = files[i]
    BY <1>0, <2>3, <2>4
  <2>8. files'[f] = e
    BY <2>2, <2>4
  <2>9. NamesOnce'
    BY <2>3, <2>6, <2>7, <2>8 DEF NamesOnce
  <2>10. FsInv'
    BY <1>4, OneSlotKeeps DEF OneSlot, FsInv
  <2> QED BY <2>9, <2>10
<1>5. ASSUME NEW f \in Slots, Removed(f) PROVE NamesOnce' /\ FsInv'
  <2>1. Live' = Live \ {f} /\ \A i \in Slots : i # f => files'[i] = files[i]
    BY <1>0, <1>5 DEF Removed, Live
  <2>2. NamesOnce'
    BY <1>0, <2>1 DEF NamesOnce
  <2>3. FsInv'
    BY <1>5, OneSlotKeeps DEF OneSlot, FsInv
  <2> QED BY <2>2, <2>3
<1>6. ASSUME NEW f, NEW e, Renamed(f, e) PROVE NamesOnce' /\ FsInv'
  <2>1. /\ Live' = Live /\ f \in Live
        /\ \A i \in Slots : files'[i] = IF i = f THEN e ELSE files[i]
    BY <1>0, <1>6 DEF Renamed, Replaced, Live
  <2>2. NamesOnce'
    BY <1>0, <1>6, <2>1 DEF NamesOnce, Renamed
  <2>3. FsInv'
    BY <1>6, ReplacedKeeps DEF Renamed, FsInv
  <2> QED BY <2>2, <2>3
<1> QED BY <1>1, <1>2, <1>3, <1>4, <1>5, <1>6 DEF OneSlot

LEMMA RunningOrder ==
  ASSUME CommandsInv, FsInv, CpStep \/ CatStep \/ EdStep
  PROVE  OneSlot
<1>1. PICK a, b : a = cmd.src /\ b = cmd.dst
  OBVIOUS
<1>2. a \in Names /\ (cmd.op = "cp" => b \in Names)
  BY <1>1, RunningIs DEF CommandsInv, CpStep, CatStep, EdStep, At, CpOpen, CpCreate, CpOpenCopy,
     CpRead, CpWrite, CpClose, CpCloseCopy, CpFail, CatOpen, CatRead, CatClose, EdCreate, EdOpen,
     EdPut, EdClose
<1>3. ASSUME NEW n \in Names, FsCreate(n) \/ FsOpen(n) \/ FsClose(n) PROVE OneSlot
  BY <1>3, GrowStep, UseStep DEF Grow, Use
<1>4. ASSUME NEW n \in Names, FsRead(n, BUFFER_SIZE) \/ FsRead(n, CAT_SIZE) PROVE OneSlot
  BY <1>4, ReadNameStep, CommandsAssumption
<1>5. ASSUME NEW n \in Names, FsWrite(n, cmd.bytes) \/ FsWrite(n, content_len) PROVE OneSlot
  <2>1. cmd.bytes \in Nat /\ content_len \in Nat
    BY DEF CommandsInv, CmdTypeOK
  <2> QED BY <1>5, <2>1, WriteStep
<1>6. CASE CpStep
  BY <1>1, <1>2, <1>3, <1>4, <1>5, <1>6
     DEF CpStep, CpOpen, CpCreate, CpOpenCopy, CpRead, CpWrite, CpClose, CpCloseCopy, CpFail, At
<1>7. CASE CatStep
  BY <1>1, <1>2, <1>3, <1>4, <1>7 DEF CatStep, CatOpen, CatRead, CatClose
<1>8. CASE EdStep
  BY <1>1, <1>2, <1>3, <1>5, <1>8 DEF EdStep, EdCreate, EdOpen, EdPut, EdClose
<1> QED BY <1>6, <1>7, <1>8

\* The commands that use root_fs themselves.
LEMMA MvOrder ==
  ASSUME FsInv, NoHoles, NEW source, NEW dest \in Words, Mv(source, dest)
  PROVE  OneSlot \/ \E f, e : Renamed(f, e)
<1>1. ASSUME NEW value, Reply("mv", source, value) PROVE OneSlot
  BY <1>1 DEF Reply, OneSlot, Stays
<1>2. ASSUME Taken(source), ~Taken(dest), NEW f, f = Named(source),
             UpdateFile(f, [files[f] EXCEPT !.name = dest])
      PROVE  \E e : Renamed(f, e)
  <2>1. f \in Live /\ f \in Slots /\ f \notin free_list /\ files[f] \in Entry /\ DataOK(files[f])
    BY <1>2, NamedSlot, CountedIsLive, SlotEntry DEF Live
  <2> DEFINE e == [files[f] EXCEPT !.name = dest]
  <2>2. /\ e \in Entry /\ e.parent = files[f].parent /\ e.is_dir = files[f].is_dir /\ e.name = dest
        /\ e.size = files[f].size /\ e.position = files[f].position
        /\ e.allocated_size = files[f].allocated_size
    BY <2>1, RenamedEntry
  <2> HIDE DEF e
  <2>3. DataOK(e)
    BY <2>1, <2>2 DEF DataOK
  <2>4. Replaced(f, e)
    BY <1>2, <2>1, <2>2, <2>3 DEF Replaced, UpdateFile, e
  <2>5. \A i \in Live : files[i].name # e.name
    BY <1>2, <2>2, CountedIsLive DEF Taken
  <2> QED BY <2>1, <2>4, <2>5 DEF Renamed
<1> QED BY <1>1, <1>2 DEF Mv

LEMMA CdOrder ==
  ASSUME FsInv, NoHoles, CdRoot \/ CdUp \/ \E n \in Words : Cd(n), current_dir' # NULL
  PROVE  OneSlot
<1>1. ASSUME NEW dir \in Live, files[dir].is_dir, MoveTo(dir) PROVE OneSlot
  BY <1>1 DEF MoveTo, OneSlot, Moved
<1>2. CASE CdRoot
  BY <1>2 DEF CdRoot, MoveTo
<1>3. CASE CdUp
  <2>1. current_dir # NULL /\ MoveTo(files[current_dir].parent)
    BY <1>3 DEF CdUp, MoveTo
  <2>2. files[current_dir].parent # NULL
    BY <2>1 DEF MoveTo
  <2>3. current_dir \in Live \ {Root}
    BY <2>2 DEF FsInv, NoDanglingParent
  <2>4. files[current_dir].parent \in Live /\ files[files[current_dir].parent].is_dir
    BY <2>3 DEF FsInv, NoDanglingParent
  <2> QED BY <1>1, <2>1, <2>4
<1>4. ASSUME NEW n, Cd(n) PROVE OneSlot
  <2>1. CASE Reply("cd", n, "NOT_FOUND")
    BY <2>1 DEF Reply, OneSlot, Stays
  <2>2. CASE Subdirs(n) # {} /\ MoveTo(Min(Subdirs(n)))
    <3>1. Subdirs(n) \in SUBSET Nat /\ Subdirs(n) \subseteq Live
          /\ \A i \in Subdirs(n) : files[i].is_dir
      BY CountedIsLive, SlotFacts DEF Subdirs, Counted
    <3> QED BY <1>1, <2>2, <3>1, MinIsLeast
  <2> QED BY <1>4, <2>1, <2>2 DEF Cd
<1> QED BY <1>2, <1>3, <1>4

LEMMA EnteredOrder ==
  ASSUME FsInv, NoHoles, Entered, current_dir' # NULL, ~Removes
  PROVE  OneSlot \/ \E f, e : Renamed(f, e)
<1>1. ASSUME NEW call, NEW name, NEW value, Reply(call, name, value) PROVE OneSlot
  BY <1>1 DEF Reply, OneSlot, Stays
<1>2. ASSUME UNCHANGED vars PROVE OneSlot
  BY <1>2 DEF vars, OneSlot, Stays
<1>3. ASSUME NEW n \in Names, Mkdir(n) \/ Rm(n) \/ Touch(n) PROVE OneSlot
  BY <1>1, <1>3, GrowStep, DeleteStep DEF Mkdir, Rm, Touch, Grow
<1>4. ASSUME NEW n \in Names, Rmdir(n) PROVE OneSlot
  <2>1. CASE Reply("rmdir", n, "FAILED")
    BY <1>1, <2>1
  <2>2. CASE ret' = Answer("rmdir", n, "REMOVED") /\ status' = 0
    BY <2>2 DEF Removes, Answer
  <2> QED BY <1>4, <2>1, <2>2 DEF Rmdir, Done
<1>5. ASSUME NEW n, Cat(n) \/ EdWrite(n) \/ EdInsert PROVE OneSlot
  BY <1>2, <1>5 DEF Cat, EdWrite, EdInsert, Launch
<1>6. ASSUME NEW a, NEW b, Cp(a, b) PROVE OneSlot
  BY <1>2, <1>6 DEF Cp, Launch
<1>7. ASSUME Pwd PROVE OneSlot
  BY <1>1, <1>7 DEF Pwd
<1> QED BY <1>3, <1>4, <1>5, <1>6, <1>7, MvOrder, CdOrder DEF Entered

LEMMA OrderNext ==
  ASSUME CommandsInv, OrderInv, [CommandsNext]_commands_vars
  PROVE  OrderInv'
<1>1. CASE UNCHANGED commands_vars
  <2>1. Stays /\ UNCHANGED orderly
    BY <1>1 DEF commands_vars, vars, Stays
  <2>2. orderly => NamesOnce' /\ FsInv'
    BY <2>1, NamesStayOnce DEF OrderInv, OneSlot
  <2> QED BY <2>1, <2>2 DEF OrderInv, NoHoles, Live, Stays
<1>2. CASE CommandsNext
  <2> SUFFICES ASSUME orderly' PROVE FsInv' /\ NoHoles' /\ NamesOnce'
    BY DEF OrderInv
  <2>1. orderly /\ current_dir' # NULL /\ ~Removes /\ NoHolesIn(free_list')
    BY <1>2 DEF CommandsNext
  <2>2. FsInv /\ NoHoles /\ NamesOnce
    BY <2>1 DEF OrderInv
  <2>3. OneSlot \/ \E f, e : Renamed(f, e)
    BY <1>2, <2>1, <2>2, RunningOrder, EnteredOrder DEF CommandsNext
  <2>4. NamesOnce' /\ FsInv'
    BY <2>2, <2>3, NamesStayOnce
  <2>5. NoHoles'
    BY <2>1 DEF NoHolesIn, NoHoles, Live
  <2> QED BY <2>4, <2>5
<1> QED BY <1>1, <1>2

-----------------------------------------------------------------------------
(* Paths.                                                                  *)

\* pwd walks as fs_getcwd does, and one step further than the root.
LEMMA AboveSteps ==
  /\ Above[0] = current_dir
  /\ \A k \in 1 .. MaxFiles : Above[k] = Parent(Above[k - 1])
<1>1. Above = Ancestor
  BY DEF Above, Ancestor, Parent
<1> QED BY <1>1, AncestorSteps DEF Parent, Up

LEMMA PathsEnd ==
  ASSUME FsInv
  PROVE  PathEnds
<1>1. PICK n \in 0 .. MaxFiles - 1 : Ancestor[n] = Root
  BY RootIsReached DEF CwdReachesRoot
<1>2. Above = Ancestor
  BY DEF Above, Ancestor, Parent
<1>3. MaxFiles \in Nat /\ n \in Nat /\ n + 1 \in 1 .. MaxFiles
  BY <1>1, FsAssumption
<1>4. Above[n + 1] = NULL
  <2>1. Above[n + 1] = Parent(Above[n + 1 - 1]) /\ n + 1 - 1 = n
    BY <1>3, AboveSteps
  <2>2. files[Root].parent = NULL /\ Root # NULL
    BY DEF FsInv, NoDanglingParent, Root, NULL
  <2> QED BY <1>1, <1>2, <2>1, <2>2 DEF Parent
<1>5. ASSUME Above[MaxFiles] # NULL PROVE FALSE
  <2> DEFINE Bad == {k \in n + 1 .. MaxFiles : Above[k] # NULL}
  <2>1. MaxFiles \in Bad /\ Bad \in SUBSET Nat
    BY <1>3, <1>5
  <2>2. PICK m \in Bad : \A k \in Bad : m <= k
    BY <2>1, LeastNumber
  <2>3. m # n + 1 /\ m \in n + 1 .. MaxFiles /\ Above[m] # NULL
    BY <1>4, <2>2
  <2>4. m - 1 \in n + 1 .. MaxFiles /\ m \in 1 .. MaxFiles /\ ~(m <= m - 1)
    BY <1>3, <2>3
  <2>5. Above[m - 1] = NULL
    BY <2>2, <2>4
  <2>6. Above[m] = NULL
    BY <2>4, <2>5, AboveSteps DEF Parent
  <2> QED BY <2>3, <2>6
<1> QED BY <1>5 DEF PathEnds

-----------------------------------------------------------------------------
(* Theorems.                                                               *)

\* Whatever a command was refused on its way, and wherever its file is found after rmdir has
\* shifted the array, it leaves no file open (bin/cp.c:21-58, bin/cat.c:17-41, bin/ed.c:82-89).
THEOREM CommandsLeaveNothingOpen == CommandsSpec => []CommandsCloseFiles
<1>1. CommandsInv => CommandsCloseFiles
  BY IdleHas DEF CommandsCloseFiles, NoneOpen
<1> QED BY <1>1, CommandsInvariant, PTL

\* While the slots are counted, a copy has all bytes of its source, for any sizes of the buffers
\* and the files (bin/cp.c:43-55).
THEOREM CopiesAreComplete == CommandsSpec => CopyIsComplete
<1>1. CommandsInv /\ CopyInv /\ [CommandsNext]_commands_vars =>
        [CountIsExact /\ At("cp", "close2") /\ cmd' = NoCommand =>
          /\ Found(cmd.src) /\ Found(cmd.dst)
          /\ files'[FindFile(cmd.src)].size = files'[FindFile(cmd.dst)].size]_commands_vars
  <2> SUFFICES ASSUME CommandsInv, CopyInv, CommandsNext, CountIsExact, At("cp", "close2"),
                      cmd' = NoCommand
               PROVE  /\ Found(cmd.src) /\ Found(cmd.dst)
                      /\ files'[FindFile(cmd.src)].size = files'[FindFile(cmd.dst)].size
    OBVIOUS
  <2>1. PICK a, b : a = cmd.src /\ b = cmd.dst
    OBVIOUS
  <2>2. /\ Found(a) /\ Found(b) /\ files[FindFile(a)].size = files[FindFile(b)].size
    BY <2>1 DEF CopyInv, Source, Copy, At
  <2>3. ArrayOK /\ PermissionsOK /\ OnlyOpen({b})
    BY <2>1, RunningIs DEF CommandsInv, CpOpenFiles, At
  <2>4. cmd # NoCommand
    BY DEF At, NoCommand
  <2>5. CpCloseCopy
    BY <2>4 DEF CommandsNext, Entered, Mkdir, Rm, Touch, Rmdir, Cat, EdWrite, Cd, MoveTo, Mv, Cp,
       CdRoot, CdUp, Pwd, EdInsert, Done, Launch, Idle, CpStep, CatStep, EdStep, At, CpOpen,
       CpCreate, CpOpenCopy, CpRead, CpWrite, CpClose, CpFail, CatOpen, CatRead, CatClose,
       EdCreate, EdOpen, EdPut, EdClose
  <2>6. FsClose(b) /\ files[FindFile(b)].is_open
    BY <2>1, <2>3, <2>5, OpenFileIsOpen DEF CpCloseCopy
  <2>7. PICK e : InPlace(FindFile(b), e) /\ e.size = files[FindFile(b)].size
    BY <2>2, <2>3, <2>6, CloseCall
  <2>8. \A i \in Slots : files'[i] = IF i = FindFile(b) THEN e ELSE files[i]
    BY <2>3, <2>7, InPlaceFacts
  <2>9. FindFile(a) \in Slots /\ FindFile(b) \in Slots
    BY <2>2, FoundSlot
  <2> QED BY <2>1, <2>2, <2>7, <2>8, <2>9
<1> QED BY <1>1, CommandsInvariant, PTL DEF CommandsSpec, CopyIsComplete

\* While orderly holds: one entry of a name in a directory, every directory in the array, a path
\* from the current one to the root, and ls prints all entries (bin/mv.c:28-58,
\* bin/touch.c:17-32, bin/cd.c:55-78, bin/ls.c:16-30).
THEOREM CommandsKeepOrder == CommandsSpec => []OrderlyTree
<1>1. CommandsInit => OrderInv
  <2> SUFFICES ASSUME CommandsInit PROVE FsInv /\ NoHoles /\ NamesOnce
    BY DEF OrderInv
  <2>1. Live = {Root} /\ Root \in Slots
    BY SlotFacts DEF CommandsInit, Init, Live
  <2>2. NoHoles /\ NamesOnce
    BY <2>1 DEF NoHoles, NamesOnce, Slots, Root
  <2> QED BY <2>2, FsInvInit DEF CommandsInit
<1>2. OrderInv => OrderlyTree
  <2> SUFFICES ASSUME orderly, OrderInv
               PROVE  /\ NamesOnce /\ NoDanglingParent /\ PathEnds
                      /\ Listed = {i \in Live : files[i].parent = current_dir}
    BY DEF OrderlyTree, NamesOnce
  <2>1. FsInv /\ NoHoles /\ NamesOnce
    BY DEF OrderInv
  <2>2. Counted = Live
    BY <2>1, CountedIsLive
  <2> QED BY <2>1, <2>2, PathsEnd DEF FsInv, Listed
<1>3. CommandsInv /\ OrderInv /\ [CommandsNext]_commands_vars => OrderInv'
  BY OrderNext
<1> QED BY <1>1, <1>2, <1>3, CommandsInvariant, PTL DEF CommandsSpec
=============================================================================
