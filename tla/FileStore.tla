----------------------------- MODULE FileStore ------------------------------
(***************************************************************************)
(* What a file system promises the callers of vfs.h: a tree in which a     *)
(* call changes the path it names, and in the way it names, completely or  *)
(* not at all; a call that answers that it did has done so.  Only a write  *)
(* that is reported as failed may have replaced a part of the bytes that   *)
(* were there.  Nothing else changes the tree, and nothing is promised     *)
(* once the store is damaged.                                              *)
(***************************************************************************)
EXTENDS Integers, Sequences

CONSTANT Paths       \* the paths that are used, at most two levels deep

VARIABLES tree,      \* path -> absent, a directory or a file with its bytes
          call,      \* the last call: what it is, the paths that name its file, the
                     \* text and the position of a write, whether it answered that
                     \* it did all of it, and whether something went wrong
          damaged,   \* the structure of the store is lost
          behind     \* bytes were accepted that the file does not show yet

Absent == [kind |-> "absent", data |-> << >>]
Directory == [kind |-> "directory", data |-> << >>]
File(data) == [kind |-> "file", data |-> data]

HasParent(p) ==
    Len(p) > 1 => tree[SubSeq(p, 1, Len(p) - 1)] = Directory

IsEmpty(p) ==
    \A q \in Paths : Len(q) > Len(p) /\ SubSeq(q, 1, Len(p)) = p => tree[q] = Absent

Create(p) ==
    /\ call'.op = "create" /\ tree[p] = Absent /\ HasParent(p)
    /\ tree' = [tree EXCEPT ![p] = File(<< >>)]

MakeDirectory(p) ==
    /\ call'.op = "mkdir" /\ tree[p] = Absent /\ HasParent(p)
    /\ tree' = [tree EXCEPT ![p] = Directory]

Remove(p) ==
    /\ call'.op = "remove" /\ tree[p].kind = "file"
    /\ tree' = [tree EXCEPT ![p] = Absent]

RemoveDirectory(p) ==
    /\ call'.op = "rmdir" /\ tree[p] = Directory /\ IsEmpty(p)
    /\ tree' = [tree EXCEPT ![p] = Absent]

\* The bytes with the first n of the text in their place.
Splice(data, n) ==
    LET at == call'.position
    IN  SubSeq(data, 1, at) \o SubSeq(call'.text, 1, n) \o SubSeq(data, at + n + 1, Len(data))

Write(p) ==
    /\ call'.op = "write" /\ tree[p].kind = "file" /\ call'.position <= Len(tree[p].data)
    /\ tree' = [tree EXCEPT ![p] = File(Splice(tree[p].data, Len(call'.text)))]

\* Some of the text is in, but the file is no longer than before.
WriteFails(p) ==
    /\ call'.op = "write" /\ call'.failed
    /\ tree[p].kind = "file" /\ call'.position <= Len(tree[p].data)
    /\ \E n \in 1 .. Len(call'.text) :
           tree' = [tree EXCEPT ![p] =
                        File(SubSeq(Splice(tree[p].data, n), 1, Len(tree[p].data)))]

\* A write after one that failed shows what both of them wrote.
CatchUp(p) ==
    /\ call'.op = "write" /\ behind
    /\ tree[p].kind = "file" /\ tree'[p].kind = "file"
    /\ tree' = [tree EXCEPT ![p] = tree'[p]]

\* Mount, unmount, open, read, seek and close are none of these.
Step == \E p \in call'.paths :
            \/ Create(p) \/ MakeDirectory(p) \/ Remove(p) \/ RemoveDirectory(p)
            \/ Write(p) \/ WriteFails(p) \/ CatchUp(p)

\* What a call that answered that it did all of it has left.
Effect ==
    call.done => \A p \in call.paths :
        /\ call.op = "create" => tree[p] = File(<< >>)
        /\ call.op = "mkdir" => tree[p] = Directory
        /\ call.op \in {"remove", "rmdir"} => tree[p] = Absent
        /\ call.op = "write" => \A i \in 1 .. Len(call.text) :
               call.position + i <= Len(tree[p].data)
                   /\ tree[p].data[call.position + i] = call.text[i]

Init == tree \in [Paths -> {Absent, Directory} \cup [kind : {"file"}, data : Seq(Nat)]]

Next == damaged \/ damaged' \/ (Effect' /\ (Step \/ UNCHANGED tree))

Spec == Init /\ [][Next]_<<tree, call>>
=============================================================================
