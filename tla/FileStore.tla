------------------------------ MODULE FileStore ------------------------------
(***************************************************************************)
(* What the file system promises the callers of src/src/fs.rs: a map from  *)
(* names to contents, changed one whole call at a time.  A call that fails *)
(* or is cut short by a power loss may cost the file it was writing, since *)
(* create_file deletes the old file first, and never another one.          *)
(***************************************************************************)
CONSTANTS Names, Contents, None

VARIABLES
    files,  \* what read_file returns for each name, None if it is not found
    ret     \* what the last call returned

Init == /\ files = [n \in Names |-> None]
        /\ ret = "Ok"

Write(n, c) == /\ files' = [files EXCEPT ![n] = c]
               /\ ret' = "Ok"

WriteFails(n) == /\ files' = [files EXCEPT ![n] = None]
                 /\ ret' \in {"NoSpace", "InvalidArgument"}

Rejected == /\ ret' \in {"InvalidArgument", "NotFormatted"}
            /\ UNCHANGED files

Delete(n) == /\ files[n] # None
             /\ files' = [files EXCEPT ![n] = None]
             /\ ret' = "Ok"

DeleteMissing(n) == /\ files[n] = None
                    /\ ret' = "FileNotFound"
                    /\ UNCHANGED files

Format == /\ files' = [n \in Names |-> None]
          /\ ret' = "Ok"

Interrupted(n) == /\ files' = [files EXCEPT ![n] = None]
                  /\ UNCHANGED ret

Next ==
    \/ \E n \in Names : \/ \E c \in Contents : Write(n, c)
                        \/ WriteFails(n)
                        \/ Delete(n)
                        \/ DeleteMissing(n)
                        \/ Interrupted(n)
    \/ Rejected
    \/ Format

Spec == Init /\ [][Next]_<<files, ret>>
=============================================================================
