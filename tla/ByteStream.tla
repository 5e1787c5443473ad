------------------------------ MODULE ByteStream ------------------------------
(***************************************************************************)
(* What a reliable byte stream promises its reader.  A byte is known by    *)
(* its place among the bytes written.  What is read is what was written,   *)
(* in order and without gaps; the end of the stream is reported only when  *)
(* every byte has been read; any other end is an error.                    *)
(***************************************************************************)
EXTENDS Naturals, Sequences

CONSTANT Chunk   \* sizes of writes and reads

VARIABLES written,   \* bytes accepted from the writer
          received,  \* the bytes read
          seen       \* what the reader knows of the end: "open", "EOF", "Err"

vars == <<written, received, seen>>

Init == written = 0 /\ received = <<>> /\ seen = "open"

Write(n) ==
    /\ seen # "EOF"
    /\ written' = written + n
    /\ UNCHANGED <<received, seen>>

Read(n) ==
    /\ seen = "open"
    /\ Len(received) + n <= written
    /\ received' = received \o [i \in 1..n |-> Len(received) + i]
    /\ UNCHANGED <<written, seen>>

End ==
    /\ seen = "open" /\ Len(received) = written
    /\ seen' = "EOF"
    /\ UNCHANGED <<written, received>>

Fail == seen = "open" /\ seen' = "Err" /\ UNCHANGED <<written, received>>

Next == (\E n \in Chunk : Write(n) \/ Read(n)) \/ End \/ Fail

Spec == Init /\ [][Next]_vars
=============================================================================
