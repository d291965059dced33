--------------------------- MODULE DatasetLedger ----------------------------
(***************************************************************************)
(* What a custom dataset promises its readers: its view selects whole      *)
(* files, one import at a time, and nothing but a publication changes what *)
(* it selects (internal/customdataset).                                    *)
(***************************************************************************)
EXTENDS Integers

CONSTANTS
    Imports,    \* imports, in order of submission
    FileRows    \* the most records of a file

VARIABLES
    size,       \* the records in the file of each import; -1 before it is submitted
    done,       \* imports that are over, published or failed
    published,  \* those that were published
    content     \* what the view selects: pairs <<import, record>>

NotSubmitted == -1

File(i) == {i} \X (1 .. size[i])

Pending == {i \in Imports \ done : size[i] # NotSubmitted}

Init ==
    /\ size = [i \in Imports |-> NotSubmitted]
    /\ done = {}
    /\ published = {}
    /\ content = {}

Submit(i, n) ==
    /\ size[i] = NotSubmitted
    /\ size' = [size EXCEPT ![i] = n]
    /\ UNCHANGED <<done, published, content>>

\* An import is published, once, with all of its file.
Publish(i) ==
    /\ i \in Pending
    /\ done' = done \cup {i}
    /\ published' = published \cup {i}
    /\ UNCHANGED size

\* The file takes the place of everything shown before.
Replace(i) == Publish(i) /\ content' = File(i)

\* The file is added to a dataset that has been published.
Append(i) == Publish(i) /\ published # {} /\ content' = content \cup File(i)

\* An import that fails shows nothing, and is over for good.
Reject(i) ==
    /\ i \in Pending
    /\ done' = done \cup {i}
    /\ UNCHANGED <<size, published, content>>

Next ==
    \E i \in Imports :
        \/ \E n \in 0 .. FileRows : Submit(i, n)
        \/ Replace(i) \/ Append(i) \/ Reject(i)

Spec == Init /\ [][Next]_<<size, done, published, content>>
=============================================================================
