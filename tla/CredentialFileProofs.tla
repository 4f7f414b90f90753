------------------------ MODULE CredentialFileProofs ------------------------
(***************************************************************************)
(* CredentialFile implements CredentialRegister whatever the numbers of    *)
(* saves, loads and processes, if no process runs two saves at once.  The  *)
(* argument: an inode is written only while it goes by a temporary name,   *)
(* it goes by one name at a time, and only its own process changes that    *)
(* name; so no inode that a load can reach is ever written again.          *)
(***************************************************************************)
EXTENDS CredentialFile, TLAPS

\* A process runs one save at a time.
OneActive ==
    \A s, d \in Saves :
        ProcessOf[s] = ProcessOf[d] /\ pc[s] \in Active /\ pc[d] \in Active => s = d

\* A save under way has its process' temporary file open.
TempHeld == \A s \in Saves : pc[s] \in Active => fd[s] # NoInode /\ Temp(s) = fd[s]

\* A temporary file is the file of one process, and no load can reach it.
Apart ==
    \A p \in Processes : tmp[p] # NoInode =>
        /\ tmp[p] # path
        /\ \A l \in Loads : tmp[p] # handle[l]
        /\ \A q \in Processes : tmp[p] = tmp[q] => p = q

\* The inode a save will create is not there yet.
Unborn ==
    \A s \in Saves : pc[s] = "idle" =>
        /\ content[s] = "empty"
        /\ path # s
        /\ \A p \in Processes : tmp[p] # s
        /\ \A l \in Loads : handle[l] # s

\* What can be read is whole, and a temporary file is empty until it is written.
Whole ==
    /\ FileWhole
    /\ \A l \in Loads : handle[l] # NoInode => content[handle[l]] \in Tokens
    /\ \A s \in Saves : /\ pc[s] = "open" => content[fd[s]] = "empty"
                        /\ pc[s] = "written" => content[fd[s]] = s

IInv == TypeOK /\ OneActive /\ TempHeld /\ Apart /\ Unborn /\ Whole /\ TempFilesOwned

LEMMA Distinct == \A s \in Saves : s \notin Marks
  BY SaveAssumption

LEMMA InitIInv == Init => IInv
  <1> SUFFICES ASSUME Init PROVE IInv
    OBVIOUS
  <1>1. TypeOK
    BY Distinct DEF Init, TypeOK, Inodes, NoInode, Contents, Tokens, Active, Failed, Marks
  <1>2. OneActive /\ TempHeld /\ Apart
    BY DEF Init, OneActive, TempHeld, Apart, Active
  <1>3. Unborn /\ Whole
    BY Distinct DEF Init, Unborn, Whole, FileWhole, Inodes, NoInode, Tokens, Marks
  <1>4. TempFilesOwned
    BY DEF Init, TempFilesOwned
  <1> QED
    BY <1>1, <1>2, <1>3, <1>4 DEF IInv

\* A save that opens its temporary file finds nobody else using it.
LEMMA OpenKeeps ==
  ASSUME ~Overlap, IInv, NEW s \in Saves, Open(s)
  PROVE  IInv'
  <1> DEFINE p == ProcessOf[s]
  <1> USE SaveAssumption, Distinct DEF IInv
  <1>1. p \in Processes /\ \A d \in Saves : ProcessOf[d] \in Processes
    OBVIOUS
  <1>2. \A d \in Saves : ProcessOf[d] = p => pc[d] \notin Active
    BY DEF Open, MayStart
  <1>3. /\ pc' = [pc EXCEPT ![s] = "open"]
        /\ path' = path /\ handle' = handle /\ seen' = seen
        /\ pc[s] = "idle"
    BY DEF Open
  <1>4. fd'[s] \in Inodes /\ fd' = [fd EXCEPT ![s] = fd'[s]]
    BY <1>1 DEF Open, TypeOK, Inodes, Temp
  <1>5. tmp' = [tmp EXCEPT ![p] = fd'[s]]
    <2>1. CASE Temp(s) = NoInode
      <3>1. fd'[s] = s
        BY <2>1 DEF Open, TypeOK
      <3> QED
        BY <2>1, <3>1 DEF Open, NameTemp
    <2>2. CASE Temp(s) # NoInode
      <3>1. fd'[s] = tmp[p] /\ tmp' = tmp
        BY <2>2 DEF Open, TypeOK, Temp
      <3> QED
        BY <3>1, <1>1 DEF TypeOK
    <2> QED
      BY <2>1, <2>2
  <1>6. content' = [content EXCEPT ![fd'[s]] = "empty"]
    <2>1. CASE Temp(s) = NoInode
      <3>1. fd'[s] = s /\ content' = content /\ content[s] = "empty"
        BY <2>1, <1>3 DEF Open, Unborn, TypeOK
      <3> QED
        BY <3>1 DEF TypeOK, Inodes
    <2>2. CASE Temp(s) # NoInode
      BY <2>2, <1>1 DEF Open, TypeOK, Inodes, Temp
    <2> QED
      BY <2>1, <2>2
  <1>7. fd'[s] # NoInode /\ (fd'[s] = s \/ (fd'[s] = tmp[p] /\ tmp[p] # NoInode))
    BY <1>1 DEF Open, Temp, TypeOK, NoInode, Marks
  <1>8. /\ fd'[s] # path
        /\ \A l \in Loads : fd'[s] # handle[l]
        /\ \A q \in Processes : fd'[s] = tmp[q] => q = p
        /\ \A d \in Saves : pc[d] = "idle" /\ d # s => fd'[s] # d
    BY <1>1, <1>3, <1>7 DEF Apart, Unborn, NoInode
  <1>9. TypeOK'
    BY <1>1, <1>3, <1>4, <1>5, <1>6 DEF TypeOK, Contents, Active
  <1>10. OneActive'
    BY <1>2, <1>3 DEF OneActive, TypeOK
  <1>11. TempHeld'
    BY <1>1, <1>2, <1>3, <1>4, <1>5, <1>7 DEF TempHeld, TypeOK, Temp, Active
  <1>12. Apart'
    BY <1>1, <1>3, <1>5, <1>7, <1>8 DEF Apart, TypeOK
  <1>13. Unborn'
    BY <1>1, <1>3, <1>5, <1>6, <1>8 DEF Unborn, TypeOK, Inodes
  <1>14. Whole'
    <2>1. FileWhole'
      BY <1>3, <1>6, <1>8 DEF Whole, FileWhole, TypeOK
    <2>2. (\A l \in Loads : handle[l] # NoInode => content[handle[l]] \in Tokens)'
      BY <1>3, <1>6, <1>8 DEF Whole, TypeOK
    <2>3. ASSUME NEW d \in Saves, d # s, pc[d] \in Active
          PROVE  fd'[d] = fd[d] /\ content'[fd[d]] = content[fd[d]]
      <3>1. ProcessOf[d] # p
        BY <1>2, <2>3
      <3>2. fd[d] # NoInode /\ tmp[ProcessOf[d]] = fd[d]
        BY <2>3 DEF TempHeld, Temp
      <3>3. fd[d] # fd'[s]
        BY <1>1, <1>8, <3>1, <3>2
      <3> QED
        BY <1>4, <1>6, <3>2, <3>3, <2>3 DEF TypeOK
    <2>4. (\A d \in Saves : /\ pc[d] = "open" => content[fd[d]] = "empty"
                            /\ pc[d] = "written" => content[fd[d]] = d)'
      BY <2>3, <1>3, <1>4, <1>6 DEF Whole, TypeOK, Active
    <2> QED
      BY <2>1, <2>2, <2>4 DEF Whole
  <1>15. TempFilesOwned'
    <2> SUFFICES ASSUME NEW q \in Processes, tmp'[q] # NoInode
                 PROVE  \E d \in Saves : /\ ProcessOf[d] = q
                                         /\ fd'[d] = tmp'[q]
                                         /\ pc'[d] \in Active \cup {"notRenamed", "died"}
      BY DEF TempFilesOwned
    <2>1. CASE q = p
      BY <2>1, <1>1, <1>3, <1>5 DEF Active, TypeOK
    <2>2. CASE q # p
      <3>0. tmp[q] # NoInode
        BY <2>2, <1>5 DEF TypeOK
      <3>1. PICK d \in Saves : /\ ProcessOf[d] = q
                               /\ fd[d] = tmp[q]
                               /\ pc[d] \in Active \cup {"notRenamed", "died"}
        BY <3>0 DEF TempFilesOwned
      <3> QED
        <4>1. d # s
          BY <3>1, <2>2
        <4>2. tmp'[q] = tmp[q] /\ fd'[d] = fd[d] /\ pc'[d] = pc[d]
          BY <4>1, <2>2, <1>3, <1>4, <1>5 DEF TypeOK
        <4> QED
          BY <3>1, <4>2
    <2> QED
      BY <2>1, <2>2
  <1> QED
    BY <1>9, <1>10, <1>11, <1>12, <1>13, <1>14, <1>15

\* A write, whether it succeeds or fails, touches the save's own temporary file.
LEMMA WriteKeeps ==
  ASSUME IInv, NEW s \in Saves, Write(s)
  PROVE  IInv'
  <1> USE SaveAssumption, Distinct DEF IInv
  <1>1. /\ pc[s] = "open" /\ pc' = [pc EXCEPT ![s] = "written"]
        /\ UNCHANGED <<path, tmp, fd, handle, seen>>
    BY DEF Write
  <1>2. fd[s] \in Inodes /\ fd[s] # NoInode /\ fd[s] = tmp[ProcessOf[s]]
    BY <1>1 DEF TypeOK, TempHeld, Temp, Active
  <1>3. content' = [content EXCEPT ![fd[s]] = s]
    BY <1>1 DEF Write, Whole
  <1>0. pc'[s] = "written" /\ \A d \in Saves : d # s => pc'[d] = pc[d]
    BY <1>1 DEF TypeOK
  <1>4. \A d \in Saves : d # s /\ pc[d] \in Active => fd[d] # fd[s]
    BY <1>1, <1>2 DEF TempHeld, OneActive, Apart, Temp, Active
  <1>5. TypeOK'
    BY <1>1, <1>2, <1>3 DEF TypeOK, Active, Contents, Tokens
  <1>6. OneActive' /\ TempHeld' /\ Apart'
    BY <1>1, <1>0 DEF OneActive, TempHeld, Apart, Temp, Active
  <1>7. Unborn'
    BY <1>1, <1>2, <1>3 DEF Unborn, TypeOK, Inodes
  <1>8. Whole'
    <2>1. FileWhole' /\ (\A l \in Loads : handle[l] # NoInode => content[handle[l]] \in Tokens)'
      BY <1>1, <1>2, <1>3 DEF Whole, FileWhole, Apart, TypeOK
    <2>2. (\A d \in Saves : /\ pc[d] = "open" => content[fd[d]] = "empty"
                            /\ pc[d] = "written" => content[fd[d]] = d)'
      <3>1. \A d \in Saves : pc[d] \in Active => fd[d] \in Inodes
        BY DEF TypeOK, TempHeld
      <3>2. content'[fd[s]] = s
        BY <1>2, <1>3 DEF TypeOK
      <3>3. \A d \in Saves : d # s /\ pc[d] \in Active => content'[fd[d]] = content[fd[d]]
        BY <1>3, <1>4, <3>1 DEF TypeOK
      <3> QED
        BY <1>1, <1>0, <3>2, <3>3 DEF Whole, Active
    <2> QED
      BY <2>1, <2>2 DEF Whole
  <1>9. TempFilesOwned'
    BY <1>1, <1>0 DEF TempFilesOwned, Active
  <1> QED
    BY <1>5, <1>6, <1>7, <1>8, <1>9

LEMMA WriteFailsKeeps ==
  ASSUME IInv, NEW s \in Saves, WriteFails(s)
  PROVE  IInv'
  <1> DEFINE p == ProcessOf[s]
  <1> USE SaveAssumption, Distinct DEF IInv
  <1>1. /\ pc[s] = "open" /\ pc' = [pc EXCEPT ![s] = "failed"]
        /\ tmp' = [tmp EXCEPT ![p] = NoInode]
        /\ UNCHANGED <<path, fd, handle, seen>>
    BY DEF WriteFails, NameTemp
  <1>2. fd[s] \in Inodes /\ fd[s] # NoInode /\ fd[s] = tmp[p] /\ p \in Processes
    BY <1>1 DEF TypeOK, TempHeld, Temp, Active
  <1>0. /\ pc'[s] = "failed" /\ \A d \in Saves : d # s => pc'[d] = pc[d]
        /\ tmp'[p] = NoInode /\ \A q \in Processes : q # p => tmp'[q] = tmp[q]
    BY <1>1, <1>2 DEF TypeOK
  <1>3. /\ content' \in [Inodes -> Contents]
        /\ \A i \in Inodes : i # fd[s] => content'[i] = content[i]
    BY <1>2 DEF WriteFails, TypeOK, Contents
  <1>4. \A d \in Saves : d # s /\ pc[d] \in Active => fd[d] # fd[s] /\ ProcessOf[d] # p
    BY <1>1, <1>2 DEF TempHeld, OneActive, Apart, Temp, Active
  <1>5. TypeOK'
    BY <1>1, <1>2, <1>3 DEF TypeOK, Failed, NoInode
  <1>6. OneActive' /\ Apart'
    BY <1>1, <1>2 DEF OneActive, Apart, Active, TypeOK
  <1>7. TempHeld'
    BY <1>1, <1>2, <1>4 DEF TempHeld, Temp, Active, TypeOK
  <1>8. Unborn'
    <2>1. \A d \in Saves : pc[d] = "idle" => d # fd[s] /\ d \in Inodes /\ d # NoInode
      BY <1>2 DEF Unborn, Inodes, Marks, NoInode
    <2> QED
      BY <1>1, <1>0, <1>3, <2>1 DEF Unborn
  <1>9. Whole'
    <2>1. FileWhole' /\ (\A l \in Loads : handle[l] # NoInode => content[handle[l]] \in Tokens)'
      <3>1. fd[s] # path /\ \A l \in Loads : fd[s] # handle[l]
        BY <1>2 DEF Apart
      <3>2. (path # NoInode => path \in Inodes)
            /\ \A l \in Loads : handle[l] # NoInode => handle[l] \in Inodes
        BY DEF TypeOK
      <3> QED
        BY <1>1, <1>3, <3>1, <3>2 DEF Whole, FileWhole
    <2>2. (\A d \in Saves : /\ pc[d] = "open" => content[fd[d]] = "empty"
                            /\ pc[d] = "written" => content[fd[d]] = d)'
      <3>1. \A d \in Saves : pc[d] \in Active => fd[d] \in Inodes
        BY DEF TypeOK, TempHeld
      <3>2. \A d \in Saves : d # s /\ pc[d] \in Active => content'[fd[d]] = content[fd[d]]
        BY <1>3, <1>4, <3>1
      <3> QED
        BY <1>1, <1>0, <3>2 DEF Whole, Active
    <2> QED
      BY <2>1, <2>2 DEF Whole
  <1>10. TempFilesOwned'
    <2> SUFFICES ASSUME NEW q \in Processes, tmp'[q] # NoInode
                 PROVE  \E d \in Saves : /\ ProcessOf[d] = q
                                         /\ fd'[d] = tmp'[q]
                                         /\ pc'[d] \in Active \cup {"notRenamed", "died"}
      BY DEF TempFilesOwned
    <2>1. q # p /\ tmp'[q] = tmp[q]
      BY <1>0
    <2>2. PICK d \in Saves : /\ ProcessOf[d] = q
                             /\ fd[d] = tmp[q]
                             /\ pc[d] \in Active \cup {"notRenamed", "died"}
      BY <2>1 DEF TempFilesOwned
    <2> QED
      BY <1>1, <1>0, <2>1, <2>2
  <1> QED
    BY <1>5, <1>6, <1>7, <1>8, <1>9, <1>10

LEMMA ReplaceKeeps ==
  ASSUME IInv, NEW s \in Saves, Replace(s)
  PROVE  IInv' /\ path' = fd[s] /\ content'[path'] = s
  <1> DEFINE p == ProcessOf[s]
  <1> USE SaveAssumption, Distinct DEF IInv
  <1>1. /\ pc[s] = "written" /\ pc' = [pc EXCEPT ![s] = "saved"]
        /\ tmp' = [tmp EXCEPT ![p] = NoInode]
        /\ path' = tmp[p]
        /\ UNCHANGED <<content, fd, handle, seen>>
    BY DEF Replace, NameTemp, Temp
  <1>2. /\ fd[s] \in Inodes /\ fd[s] # NoInode /\ fd[s] = tmp[p] /\ p \in Processes
        /\ content[fd[s]] = s
    BY <1>1 DEF TypeOK, TempHeld, Temp, Active, Whole
  <1>0. /\ pc'[s] = "saved" /\ \A d \in Saves : d # s => pc'[d] = pc[d]
        /\ tmp'[p] = NoInode /\ \A q \in Processes : q # p => tmp'[q] = tmp[q]
    BY <1>1, <1>2 DEF TypeOK
  <1>3. \A d \in Saves : d # s /\ pc[d] \in Active => ProcessOf[d] # p
    BY <1>1 DEF OneActive, Active
  <1>4. TypeOK'
    BY <1>1, <1>2 DEF TypeOK, NoInode
  <1>5. OneActive' /\ TempHeld'
    BY <1>1, <1>2, <1>3 DEF OneActive, TempHeld, Temp, Active, TypeOK
  <1>6. Apart'
    BY <1>1, <1>2 DEF Apart, TypeOK
  <1>7. Unborn'
    BY <1>1, <1>2 DEF Unborn, TypeOK, NoInode, Marks
  <1>8. Whole'
    BY <1>1, <1>2 DEF Whole, FileWhole, TypeOK, Tokens
  <1>9. TempFilesOwned'
    <2> SUFFICES ASSUME NEW q \in Processes, tmp'[q] # NoInode
                 PROVE  \E d \in Saves : /\ ProcessOf[d] = q
                                         /\ fd'[d] = tmp'[q]
                                         /\ pc'[d] \in Active \cup {"notRenamed", "died"}
      BY DEF TempFilesOwned
    <2>1. q # p /\ tmp'[q] = tmp[q]
      BY <1>0
    <2>2. PICK d \in Saves : /\ ProcessOf[d] = q
                             /\ fd[d] = tmp[q]
                             /\ pc[d] \in Active \cup {"notRenamed", "died"}
      BY <2>1 DEF TempFilesOwned
    <2> QED
      BY <1>1, <1>0, <2>1, <2>2
  <1> QED
    BY <1>1, <1>2, <1>4, <1>5, <1>6, <1>7, <1>8, <1>9

\* The failures that touch no file, and the death of a process.
LEMMA FailureKeeps ==
  ASSUME IInv,
         \/ \E s \in Saves : OpenFails(s) \/ ReplaceFails(s)
         \/ \E p \in Processes : Die(p)
  PROVE  IInv'
  <1> USE SaveAssumption DEF IInv
  <1>1. UNCHANGED <<path, tmp, content, fd, handle, seen>>
    BY DEF OpenFails, ReplaceFails, Die, files
  <1>2. /\ pc' \in [Saves -> {"idle", "saved"} \cup Active \cup Failed]
        /\ \A d \in Saves : pc'[d] = pc[d] \/ pc'[d] \in Failed
        /\ \A d \in Saves : pc[d] \in Active =>
               pc'[d] \in Active \cup {"notRenamed", "died"}
        /\ \A d \in Saves : pc[d] \in {"notRenamed", "died"} => pc'[d] = pc[d]
    <2>1. CASE \E s \in Saves : OpenFails(s) \/ ReplaceFails(s)
      BY <2>1 DEF OpenFails, ReplaceFails, TypeOK, Active, Failed
    <2>2. CASE \E p \in Processes : Die(p)
      BY <2>2 DEF Die, TypeOK, Active, Failed
    <2> QED
      BY <2>1, <2>2
  <1>3. TypeOK'
    BY <1>1, <1>2 DEF TypeOK
  <1>4. OneActive' /\ TempHeld'
    BY <1>1, <1>2 DEF OneActive, TempHeld, Temp, Active, Failed
  <1>5. Apart' /\ Unborn'
    BY <1>1, <1>2 DEF Apart, Unborn, Failed
  <1>6. Whole'
    BY <1>1, <1>2 DEF Whole, FileWhole, Failed
  <1>7. TempFilesOwned'
    BY <1>1, <1>2 DEF TempFilesOwned
  <1> QED
    BY <1>3, <1>4, <1>5, <1>6, <1>7

LEMMA LoadKeeps ==
  ASSUME IInv, NEW l \in Loads, OpenToRead(l) \/ Read(l)
  PROVE  IInv'
  <1> USE DEF IInv
  <1>1. UNCHANGED <<path, tmp, content, fd, pc>>
    BY DEF OpenToRead, Read, files
  <1>2. /\ handle' \in [Loads -> Inodes \cup {NoInode}]
        /\ \A k \in Loads : handle'[k] = handle[k] \/ (handle'[k] = path /\ path # NoInode)
    BY DEF OpenToRead, Read, TypeOK
  <1>3. seen' \in [Loads -> Tokens \cup {"absent", "nothing yet"}]
    BY DEF OpenToRead, Read, Return, TypeOK
  <1>4. TypeOK'
    BY <1>1, <1>2, <1>3 DEF TypeOK
  <1>5. OneActive' /\ TempHeld' /\ TempFilesOwned'
    BY <1>1 DEF OneActive, TempHeld, Temp, TempFilesOwned
  <1>6. Apart' /\ Unborn'
    BY <1>1, <1>2 DEF Apart, Unborn
  <1>7. Whole'
    BY <1>1, <1>2 DEF Whole, FileWhole
  <1> QED
    BY <1>4, <1>5, <1>6, <1>7

LEMMA NextIInv ==
  ASSUME ~Overlap, IInv, [Next]_vars
  PROVE  IInv'
  <1>1. ASSUME NEW s \in Saves, SaveStep(s) \/ SaveFailure(s)
        PROVE  IInv'
    <2>1. CASE Open(s)
      BY <2>1, OpenKeeps
    <2>2. CASE Write(s)
      BY <2>2, WriteKeeps
    <2>3. CASE Replace(s)
      BY <2>3, ReplaceKeeps
    <2>4. CASE OpenFails(s) \/ ReplaceFails(s)
      BY <2>4, FailureKeeps
    <2>5. CASE WriteFails(s)
      BY <2>5, WriteFailsKeeps
    <2> QED
      BY <1>1, <2>1, <2>2, <2>3, <2>4, <2>5 DEF SaveStep, SaveFailure
  <1>2. CASE \E p \in Processes : Die(p)
    BY <1>2, FailureKeeps
  <1>3. CASE \E l \in Loads : OpenToRead(l) \/ Read(l)
    BY <1>3, LoadKeeps
  <1>4. CASE UNCHANGED vars
    <2> USE <1>4 DEF vars, files, IInv
    <2>1. TypeOK'
      BY DEF TypeOK
    <2>2. OneActive' /\ TempHeld' /\ Apart'
      BY DEF OneActive, TempHeld, Apart, Temp
    <2>3. Unborn' /\ Whole' /\ TempFilesOwned'
      BY DEF Unborn, Whole, FileWhole, TempFilesOwned
    <2> QED
      BY <2>1, <2>2, <2>3
  <1> QED
    BY <1>1, <1>2, <1>3, <1>4 DEF Next

\* The inductive invariant: see the head of the module.
THEOREM Invariance ==
  ASSUME ~Overlap
  PROVE  Spec => []IInv
  <1>1. IInv /\ [Next]_vars => IInv'
    BY NextIInv
  <1> QED
    BY <1>1, InitIInv, PTL DEF Spec

\* The types: every name leads to an inode, and a file descriptor in use is open.
THEOREM TypeCorrect ==
  ASSUME ~Overlap
  PROVE  Spec => []TypeOK
  <1>1. IInv => TypeOK
    BY DEF IInv
  <1> QED
    BY <1>1, Invariance, PTL

\* The credential file is whole at every instant, if no process runs two saves at
\* once: a load never finds it empty or torn.
THEOREM FileWholeHolds ==
  ASSUME ~Overlap
  PROVE  Spec => []FileWhole
  <1>1. IInv => FileWhole
    BY DEF IInv, Whole
  <1> QED
    BY <1>1, Invariance, PTL

\* A temporary file, with a token in it, stays only behind a process that died
\* during a save, if no process runs two saves at once.
THEOREM TempFilesOwnedHolds ==
  ASSUME ~Overlap
  PROVE  Spec => []TempFilesOwned
  <1>1. IInv => TempFilesOwned
    BY DEF IInv
  <1> QED
    BY <1>1, Invariance, PTL

-----------------------------------------------------------------------------
(* The refinement *)

LEMMA InitRefines == Init => Register!Init
  <1> SUFFICES ASSUME Init PROVE Register!Init
    OBVIOUS
  <1>1. Value \in {"before", "absent"}
    BY DEF Init, Value, Inodes, NoInode
  <1>2. Phase = [s \in Saves |-> "open"]
    <2>1. \A s \in Saves : pc[s] = "idle"
      BY DEF Init
    <2> QED
      BY <2>1 DEF Phase, Failed
  <1>3. Seen = [l \in Loads |-> "nothing yet"]
    <2>1. \A l \in Loads : seen[l] = "nothing yet" /\ handle[l] = NoInode
      BY DEF Init
    <2> QED
      BY <2>1 DEF Seen
  <1> QED
    BY <1>1, <1>2, <1>3 DEF Register!Init

\* What a step of a save that is not its last leaves alone.
LEMMA Hidden ==
  ASSUME IInv, NEW s \in Saves,
         \A i \in Inodes : i # Temp(s) => content'[i] = content[i],
         Temp(s) # NoInode, path' = path, handle' = handle, seen' = seen
  PROVE  Value' = Value /\ Seen' = Seen
  <1>1. ProcessOf[s] \in Processes
    BY SaveAssumption
  <1>2. Temp(s) # path /\ \A l \in Loads : Temp(s) # handle[l]
    BY <1>1 DEF IInv, Apart, Temp
  <1>3. Value' = Value
    BY <1>2 DEF Value, IInv, TypeOK
  <1>4. \A l \in Loads : handle[l] # NoInode => content'[handle[l]] = content[handle[l]]
    BY <1>2 DEF IInv, TypeOK
  <1> QED
    BY <1>3, <1>4 DEF Seen

\* A save that fails, or several with their process, is a failure of the register's.
LEMMA FailRefines ==
  ASSUME IInv, Value' = Value, Seen' = Seen,
         \A s \in Saves : pc'[s] = pc[s] \/ (pc[s] # "saved" /\ pc[s] \notin Failed
                                            /\ pc'[s] \in Failed)
  PROVE  Register!Fail
  <1>1. Phase \in [Saves -> {"open", "saved", "failed"}]
    BY DEF Phase
  <1>2. Phase' \in [Saves -> {"open", "saved", "failed"}]
    BY DEF Phase
  <1>3. ASSUME NEW s \in Saves
        PROVE  Phase'[s] = Phase[s] \/ (Phase[s] = "open" /\ Phase'[s] = "failed")
    BY <1>3 DEF Phase, Failed
  <1> QED
    BY <1>1, <1>2, <1>3 DEF Register!Fail

LEMMA SaveRefines ==
  ASSUME ~Overlap, IInv, IInv', NEW s \in Saves, SaveStep(s) \/ SaveFailure(s)
  PROVE  [Register!Next]_Register!vars
  <1> USE SaveAssumption, Distinct
  <1>1. ASSUME Value' = Value, Seen' = Seen, Phase' = Phase
        PROVE  [Register!Next]_Register!vars
    BY <1>1 DEF Register!vars
  <1>2. CASE Open(s)
    <2>1. Phase' = Phase
      BY <1>2 DEF Open, Phase, Failed, IInv, TypeOK
    <2>2. CASE Temp(s) = NoInode
      <3>1. path' = path /\ handle' = handle /\ seen' = seen /\ content' = content
        BY <1>2, <2>2 DEF Open
      <3> QED
        BY <1>1, <2>1, <3>1 DEF Value, Seen
    <2>3. CASE Temp(s) # NoInode
      <3>1. path' = path /\ handle' = handle /\ seen' = seen
            /\ content' = [content EXCEPT ![Temp(s)] = "empty"]
        BY <1>2, <2>3 DEF Open
      <3>2. \A i \in Inodes : i # Temp(s) => content'[i] = content[i]
        BY <3>1 DEF IInv, TypeOK
      <3> QED
        BY <1>1, <2>1, <2>3, <3>1, <3>2, Hidden
    <2> QED
      BY <2>2, <2>3
  <1>3. CASE Write(s)
    <2>1. pc[s] = "open" /\ path' = path /\ handle' = handle /\ seen' = seen
          /\ pc' = [pc EXCEPT ![s] = "written"]
      BY <1>3 DEF Write
    <2>2. Temp(s) = fd[s] /\ Temp(s) # NoInode
      BY <2>1 DEF IInv, TempHeld, Active
    <2>3. \A i \in Inodes : i # Temp(s) => content'[i] = content[i]
      BY <1>3, <2>2 DEF Write, IInv, TypeOK
    <2>4. Phase' = Phase
      BY <2>1 DEF Phase, Failed, IInv, TypeOK
    <2> QED
      BY <1>1, <2>1, <2>2, <2>3, <2>4, Hidden
  <1>4. CASE Replace(s)
    <2>1. /\ pc[s] = "written" /\ pc' = [pc EXCEPT ![s] = "saved"]
          /\ content' = content /\ handle' = handle /\ seen' = seen
          /\ path' = Temp(s) /\ Temp(s) # NoInode
      BY <1>4 DEF Replace
    <2>2. content'[path'] = s
      BY <1>4, ReplaceKeeps
    <2>3. Value' = s
      BY <2>1, <2>2 DEF Value
    <2>4. Seen' = Seen
      BY <2>1 DEF Seen
    <2>5. Phase[s] = "open" /\ Phase' = [Phase EXCEPT ![s] = "saved"]
      BY <2>1 DEF Phase, Failed, IInv, TypeOK
    <2>6. Register!Save(s)
      BY <2>3, <2>4, <2>5 DEF Register!Save
    <2> QED
      BY <2>6 DEF Register!Next
  <1>5. CASE OpenFails(s) \/ ReplaceFails(s)
    <2>1. path' = path /\ handle' = handle /\ seen' = seen /\ content' = content
      BY <1>5 DEF OpenFails, ReplaceFails, files
    <2>2. Value' = Value /\ Seen' = Seen
      BY <2>1 DEF Value, Seen
    <2>3. \A d \in Saves : pc'[d] = pc[d] \/ (pc[d] # "saved" /\ pc[d] \notin Failed
                                             /\ pc'[d] \in Failed)
      BY <1>5 DEF OpenFails, ReplaceFails, Failed, IInv, TypeOK
    <2> QED
      BY <2>2, <2>3, FailRefines DEF Register!Next
  <1>6. CASE WriteFails(s)
    <2>1. pc[s] = "open" /\ path' = path /\ handle' = handle /\ seen' = seen
          /\ pc' = [pc EXCEPT ![s] = "failed"]
      BY <1>6 DEF WriteFails
    <2>2. Temp(s) = fd[s] /\ Temp(s) # NoInode
      BY <2>1 DEF IInv, TempHeld, Active
    <2>3. \A i \in Inodes : i # Temp(s) => content'[i] = content[i]
      BY <1>6, <2>2 DEF WriteFails, IInv, TypeOK
    <2>4. Value' = Value /\ Seen' = Seen
      BY <2>1, <2>2, <2>3, Hidden
    <2>5. \A d \in Saves : pc'[d] = pc[d] \/ (pc[d] # "saved" /\ pc[d] \notin Failed
                                             /\ pc'[d] \in Failed)
      BY <2>1 DEF Failed, IInv, TypeOK
    <2> QED
      BY <2>4, <2>5, FailRefines DEF Register!Next
  <1> QED
    BY <1>2, <1>3, <1>4, <1>5, <1>6 DEF SaveStep, SaveFailure

LEMMA LoadRefines ==
  ASSUME IInv, NEW l \in Loads, OpenToRead(l) \/ Read(l)
  PROVE  [Register!Next]_Register!vars
  <1>1. path' = path /\ content' = content /\ pc' = pc
    BY DEF OpenToRead, Read, files
  <1>2. Value' = Value /\ Phase' = Phase
    BY <1>1 DEF Value, Phase
  <1>3. CASE OpenToRead(l) /\ path # NoInode /\ handle' = [handle EXCEPT ![l] = path]
             /\ seen' = seen
    <2>1. Seen[l] = "nothing yet"
      BY <1>3 DEF OpenToRead, Seen
    <2>2. Seen' = [Seen EXCEPT ![l] = Value]
      <3>1. Seen'[l] = Value
        BY <1>1, <1>3 DEF OpenToRead, Seen, Value, IInv, TypeOK
      <3>2. \A k \in Loads : k # l => Seen'[k] = Seen[k]
        BY <1>1, <1>3 DEF Seen, IInv, TypeOK
      <3> QED
        BY <3>1, <3>2 DEF Seen
    <2> QED
      BY <1>2, <2>1, <2>2 DEF Register!Load, Register!Next
  <1>4. CASE OpenToRead(l) /\ seen' = [seen EXCEPT ![l] = "absent"] /\ handle' = handle
    <2>1. Seen[l] = "nothing yet"
      BY <1>4 DEF OpenToRead, Seen
    <2>2. Seen' = [Seen EXCEPT ![l] = "absent"]
      BY <1>1, <1>4 DEF Seen, IInv, TypeOK
    <2> QED
      BY <1>2, <2>1, <2>2 DEF Register!LoadFails, Register!Next
  <1>5. CASE Read(l)
    <2>1. content[handle[l]] \in Tokens /\ handle[l] # NoInode /\ seen[l] = "nothing yet"
      BY <1>5 DEF Read, IInv, Whole
    <2>2. seen' = [seen EXCEPT ![l] = content[handle[l]]] /\ handle' = handle
      BY <1>5, <2>1 DEF Read, Return
    <2>3. content[handle[l]] # "nothing yet"
      BY <2>1, Distinct DEF Tokens, Marks
    <2>4. Seen' = Seen
      BY <1>1, <2>1, <2>2, <2>3 DEF Seen, IInv, TypeOK
    <2> QED
      BY <1>2, <2>4 DEF Register!vars
  <1> QED
    BY <1>3, <1>4, <1>5 DEF OpenToRead, Return

LEMMA NextRefines ==
  ASSUME ~Overlap, IInv, IInv', [Next]_vars
  PROVE  [Register!Next]_Register!vars
  <1>1. CASE \E s \in Saves : SaveStep(s) \/ SaveFailure(s)
    BY <1>1, SaveRefines
  <1>2. CASE \E p \in Processes : Die(p)
    <2>1. path' = path /\ handle' = handle /\ seen' = seen /\ content' = content
      BY <1>2 DEF Die, files
    <2>2. Value' = Value /\ Seen' = Seen
      BY <2>1 DEF Value, Seen
    <2>3. \A d \in Saves : pc'[d] = pc[d] \/ (pc[d] # "saved" /\ pc[d] \notin Failed
                                             /\ pc'[d] \in Failed)
      <3>1. PICK p \in Processes : Die(p)
        BY <1>2
      <3>2. \A d \in Saves : pc'[d] = IF ProcessOf[d] = p /\ pc[d] \in Active
                                       THEN "died" ELSE pc[d]
        BY <3>1 DEF Die
      <3> QED
        BY <3>2 DEF Active, Failed
    <2> QED
      BY <2>2, <2>3, FailRefines DEF Register!Next
  <1>3. CASE \E l \in Loads : OpenToRead(l) \/ Read(l)
    BY <1>3, LoadRefines
  <1>4. CASE UNCHANGED vars
    <2>1. path' = path /\ handle' = handle /\ seen' = seen /\ content' = content /\ pc' = pc
      BY <1>4 DEF vars, files
    <2>2. Value' = Value /\ Seen' = Seen /\ Phase' = Phase
      BY <2>1 DEF Value, Seen, Phase
    <2> QED
      BY <2>2 DEF Register!vars
  <1> QED
    BY <1>1, <1>2, <1>3, <1>4 DEF Next

\* The credential file is a register, if no process runs two saves at once:
\* ImplementsRegister, for any number of saves, loads and processes.
THEOREM FileImplementsRegister ==
  ASSUME ~Overlap
  PROVE  Spec => ImplementsRegister
  <1>1. IInv /\ IInv' /\ [Next]_vars => [Register!Next]_Register!vars
    BY NextRefines
  <1> QED
    BY <1>1, InitRefines, Invariance, PTL DEF Spec, ImplementsRegister, Register!Spec

=============================================================================
