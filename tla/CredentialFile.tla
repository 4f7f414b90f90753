--------------------------- MODULE CredentialFile ---------------------------
(***************************************************************************)
(* src/clm_mcp/auth/store.py: save_credentials and load_credentials, run   *)
(* by the threads of several processes (servers, `clm-mcp login`) on one   *)
(* credential file.  An inode is named by the save that created it, and so *)
(* is the token it writes.                                                 *)
(***************************************************************************)
CONSTANTS
    Saves,         \* the calls of save_credentials, each with a token of its own
    Loads,         \* the calls of load_credentials
    Processes,     \* the process ids
    ProcessOf,     \* the process of each save
    Overlap        \* whether a process may start a save while another of its saves
                   \* runs: it may not hold the lock, if its task was cancelled

Marks == {"none", "before", "absent", "empty", "torn", "nothing yet"}

ASSUME SaveAssumption == Saves \cap Marks = {} /\ ProcessOf \in [Saves -> Processes]
ASSUME OverlapAssumption == Overlap \in BOOLEAN

NoInode == "none"
Inodes == Saves \cup {"before"}
Tokens == Saves \cup {"before"}
Contents == Tokens \cup {"empty", "torn"}

VARIABLES
    path,          \* the inode the credential file's name leads to
    tmp,           \* the inode under each process' temporary name
    content,       \* what each inode holds
    fd,            \* the inode each save has opened
    pc,            \* how far each save is
    handle,        \* the inode each load has opened
    seen           \* what each load returned

files == <<path, tmp, content>>
vars == <<files, fd, pc, handle, seen>>

Active == {"open", "written"}
Failed == {"failed", "notRenamed", "died"}

TypeOK ==
    /\ path \in Inodes \cup {NoInode}
    /\ tmp \in [Processes -> Inodes \cup {NoInode}]
    /\ content \in [Inodes -> Contents]
    /\ fd \in [Saves -> Inodes \cup {NoInode}]
    /\ pc \in [Saves -> {"idle", "saved"} \cup Active \cup Failed]
    /\ handle \in [Loads -> Inodes \cup {NoInode}]
    /\ seen \in [Loads -> Tokens \cup {"absent", "nothing yet"}]

Init ==
    /\ path \in {"before", NoInode}
    /\ tmp = [p \in Processes |-> NoInode]
    /\ content = [i \in Inodes |-> IF i = "before" THEN "before" ELSE "empty"]
    /\ fd = [s \in Saves |-> NoInode]
    /\ pc = [s \in Saves |-> "idle"]
    /\ handle = [l \in Loads |-> NoInode]
    /\ seen = [l \in Loads |-> "nothing yet"]

-----------------------------------------------------------------------------
(* save_credentials *)

Temp(s) == tmp[ProcessOf[s]]
NameTemp(s, inode) == tmp' = [tmp EXCEPT ![ProcessOf[s]] = inode]

\* The process is free to save: its TokenManager saves with the lock held, and
\* `clm-mcp login` saves once.
MayStart(s) ==
    \/ Overlap
    \/ \A d \in Saves : ProcessOf[d] = ProcessOf[s] => pc[d] \notin Active

\* A temporary file that is there is opened as it is.
OpenUntruncated(s) ==
    /\ pc[s] = "idle"
    /\ MayStart(s)
    /\ IF Temp(s) = NoInode
       THEN NameTemp(s, s) /\ fd' = [fd EXCEPT ![s] = s]
       ELSE UNCHANGED tmp /\ fd' = [fd EXCEPT ![s] = Temp(s)]
    /\ pc' = [pc EXCEPT ![s] = "open"]
    /\ UNCHANGED <<path, content, handle, seen>>

\* os.open with O_CREAT and O_TRUNC: a new inode, or the one under the temporary
\* name, emptied.
Open(s) ==
    /\ pc[s] = "idle"
    /\ MayStart(s)
    /\ IF Temp(s) = NoInode
       THEN /\ NameTemp(s, s)
            /\ fd' = [fd EXCEPT ![s] = s]
            /\ UNCHANGED content
       ELSE /\ fd' = [fd EXCEPT ![s] = Temp(s)]
            /\ content' = [content EXCEPT ![Temp(s)] = "empty"]
            /\ UNCHANGED tmp
    /\ pc' = [pc EXCEPT ![s] = "open"]
    /\ UNCHANGED <<path, handle, seen>>

\* The directory or the temporary file cannot be made.
OpenFails(s) ==
    /\ pc[s] = "idle"
    /\ MayStart(s)
    /\ pc' = [pc EXCEPT ![s] = "failed"]
    /\ UNCHANGED <<files, fd, handle, seen>>

\* The payload goes out with one write(2) when the file is closed, over what the
\* inode holds: a longer text leaves its tail behind.
Write(s) ==
    /\ pc[s] = "open"
    /\ \/ content' = [content EXCEPT ![fd[s]] = s]
       \/ /\ content[fd[s]] # "empty"
          /\ content' = [content EXCEPT ![fd[s]] = "torn"]
    /\ pc' = [pc EXCEPT ![s] = "written"]
    /\ UNCHANGED <<path, tmp, fd, handle, seen>>

\* The partial file is left where it is.
WriteFailsUntidy(s) ==
    /\ pc[s] = "open"
    /\ content' \in {content, [content EXCEPT ![fd[s]] = "torn"]}
    /\ pc' = [pc EXCEPT ![s] = "failed"]
    /\ UNCHANGED <<path, tmp, fd, handle, seen>>

\* The write raises, part of it done or none: the temporary name is unlinked.
WriteFails(s) ==
    /\ pc[s] = "open"
    /\ content' \in {content, [content EXCEPT ![fd[s]] = "torn"]}
    /\ NameTemp(s, NoInode)
    /\ pc' = [pc EXCEPT ![s] = "failed"]
    /\ UNCHANGED <<path, fd, handle, seen>>

\* The file goes by its name before it is written.
ReplaceEarly(s) ==
    /\ pc[s] \in Active
    /\ Temp(s) # NoInode
    /\ path' = Temp(s)
    /\ NameTemp(s, NoInode)
    /\ pc' = [pc EXCEPT ![s] = "saved"]
    /\ UNCHANGED <<content, fd, handle, seen>>

\* chmod and rename, each by the temporary name
Replace(s) ==
    /\ pc[s] = "written"
    /\ Temp(s) # NoInode
    /\ path' = Temp(s)
    /\ NameTemp(s, NoInode)
    /\ pc' = [pc EXCEPT ![s] = "saved"]
    /\ UNCHANGED <<content, fd, handle, seen>>

\* Either of the two raises, because the name is gone or for a reason of its own.
ReplaceFails(s) ==
    /\ pc[s] = "written"
    /\ pc' = [pc EXCEPT ![s] = "notRenamed"]
    /\ UNCHANGED <<files, fd, handle, seen>>

\* A process dies, and the saves under way in it with it.
Die(p) ==
    /\ \E s \in Saves : ProcessOf[s] = p /\ pc[s] \in Active
    /\ pc' = [s \in Saves |-> IF ProcessOf[s] = p /\ pc[s] \in Active
                              THEN "died" ELSE pc[s]]
    /\ UNCHANGED <<files, fd, handle, seen>>

-----------------------------------------------------------------------------
(* load_credentials *)

Return(l, result) == seen' = [seen EXCEPT ![l] = result]

\* An OSError of the open goes to the caller.
OpenToReadOrRaise(l) ==
    /\ seen[l] = "nothing yet"
    /\ handle[l] = NoInode
    /\ \/ /\ path # NoInode
          /\ handle' = [handle EXCEPT ![l] = path]
          /\ UNCHANGED seen
       \/ path # NoInode /\ Return(l, "raised") /\ UNCHANGED handle
       \/ path = NoInode /\ Return(l, "absent") /\ UNCHANGED handle
    /\ UNCHANGED <<files, fd, pc>>

\* path.exists() and the open in read_text; nothing unlinks the file between them.
\* An OSError of the open is logged and treated as an absent file.
OpenToRead(l) ==
    /\ seen[l] = "nothing yet"
    /\ handle[l] = NoInode
    /\ \/ /\ path # NoInode
          /\ handle' = [handle EXCEPT ![l] = path]
          /\ UNCHANGED seen
       \/ Return(l, "absent") /\ UNCHANGED handle
    /\ UNCHANGED <<files, fd, pc>>

\* Text that is no StoredCredentials is treated as an absent file.
Read(l) ==
    /\ seen[l] = "nothing yet"
    /\ handle[l] # NoInode
    /\ Return(l, IF content[handle[l]] \in Tokens THEN content[handle[l]] ELSE "absent")
    /\ UNCHANGED <<files, fd, pc, handle>>

-----------------------------------------------------------------------------

SaveStep(s) == Open(s) \/ Write(s) \/ Replace(s)
SaveFailure(s) == OpenFails(s) \/ WriteFails(s) \/ ReplaceFails(s)

Next ==
    \/ \E s \in Saves : SaveStep(s) \/ SaveFailure(s)
    \/ \E p \in Processes : Die(p)
    \/ \E l \in Loads : OpenToRead(l) \/ Read(l)

Spec == Init /\ [][Next]_vars

-----------------------------------------------------------------------------
(* Correctness *)

\* The credential file holds a whole payload at every instant, whichever process
\* died at whichever step: what save_credentials' docstring says of a crash
\* mid-write.
FileWhole == path # NoInode => content[path] \in Tokens

\* A temporary file, and the token in it, is there only while its save runs or
\* because its process died or could not rename it: a failed write removes it.
TempFilesOwned ==
    \A p \in Processes :
        tmp[p] # NoInode =>
            \E s \in Saves : /\ ProcessOf[s] = p
                             /\ fd[s] = tmp[p]
                             /\ pc[s] \in Active \cup {"notRenamed", "died"}

Value == IF path = NoInode THEN "absent" ELSE content[path]

Phase ==
    [s \in Saves |-> CASE pc[s] = "saved" -> "saved"
                       [] pc[s] \in Failed -> "failed"
                       [] OTHER -> "open"]

\* A load takes effect when it opens the file.
Seen ==
    [l \in Loads |-> IF seen[l] = "nothing yet" /\ handle[l] # NoInode
                     THEN content[handle[l]] ELSE seen[l]]

Register == INSTANCE CredentialRegister WITH value <- Value, phase <- Phase, seen <- Seen

\* However saves, loads, failures and deaths interleave, the file is a register:
\* a load sees one save as a whole, and a save that fails leaves no trace.
ImplementsRegister == Register!Spec

=============================================================================
