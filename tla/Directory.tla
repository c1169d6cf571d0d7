------------------------------ MODULE Directory -----------------------------
(***************************************************************************)
(* What a file system promises about names: a tree of directories.  This   *)
(* is what node_create, node_mkdir, node_copy, node_move and               *)
(* vfs_remove_node of the kernel offer whatever driver the fs_t of a node  *)
(* names; a call that fails changes nothing.                               *)
(***************************************************************************)
EXTENDS Integers, TLC

CONSTANT Root

VARIABLES
    tree,      \* tree[d]: entries of directory d, as [name, id, dir]
    call,      \* the last call: op, dir and name of an entry, to and new for another
    err,       \* what it returned
    damaged,   \* it broke the promise
    calls      \* number of calls so far

vars == <<tree, call, err, damaged, calls>>

Names(d) == {e.name : e \in tree[d]}

Ids == {Root} \cup {e.id : e \in UNION {tree[d] : d \in DOMAIN tree}}

(* A root directory with files, each of its own. *)
Init ==
    /\ DOMAIN tree = {Root}
    /\ \A e, f \in tree[Root] : ~e.dir /\ (e.name = f.name \/ e.id = f.id => e = f)
    /\ err = "ok" /\ ~damaged /\ calls = 0

Entry(n, id, dir) == [name |-> n, id |-> id, dir |-> dir]

(* A new file or an empty new directory. *)
Add(d, n, id, dir) ==
    /\ n \notin Names(d)
    /\ id \notin Ids
    /\ tree' = LET t == [tree EXCEPT ![d] = @ \cup {Entry(n, id, dir)}]
               IN IF dir THEN t @@ (id :> {}) ELSE t

(* A directory is removed only when it is empty. *)
Remove(d, e) ==
    /\ e.dir => tree[e.id] = {}
    /\ tree' = [x \in DOMAIN tree \ (IF e.dir THEN {e.id} ELSE {}) |->
                  IF x = d THEN tree[d] \ {e} ELSE tree[x]]

(* What e names is named n in directory d2 from now on. *)
Move(d, e, d2, n) ==
    /\ n \notin Names(d2)
    /\ tree' = [x \in DOMAIN tree |->
                  (IF x = d THEN tree[x] \ {e} ELSE tree[x])
                  \cup (IF x = d2 THEN {Entry(n, e.id, e.dir)} ELSE {})]

Shown == {e.id : e \in UNION {tree'[x] : x \in DOMAIN tree'}}

(* What a call that succeeds does. *)
Done ==
    CASE call'.op \in {"create", "copy"} -> \E id \in Shown : Add(call'.to, call'.new, id, FALSE)
      [] call'.op = "mkdir"  -> \E id \in Shown : Add(call'.to, call'.new, id, TRUE)
      [] call'.op = "remove" -> \E e \in tree[call'.dir] : e.name = call'.name /\ Remove(call'.dir, e)
      [] call'.op = "move"   -> \E e \in tree[call'.dir] :
                                   e.name = call'.name /\ Move(call'.dir, e, call'.to, call'.new)
      [] call'.op = "write"  -> UNCHANGED tree

(* Why a call may be refused; it changes nothing.  A directory that is made *)
(* without room for its "." and ".." is there although the call failed.     *)
Refused ==
    \/ UNCHANGED tree /\ err' = "existed" /\ call'.new \in Names(call'.to)
    \/ /\ UNCHANGED tree /\ err' = "not empty"
       /\ \E e \in tree[call'.dir] : e.name = call'.name /\ e.dir /\ tree[e.id] # {}
    \/ err' = "no space" /\ UNCHANGED tree
    \/ err' = "no space" /\ call'.op = "mkdir" /\ \E id \in Shown : Add(call'.to, call'.new, id, TRUE)

(* The directories a call is not about stay as they were. *)
Confined == \A d \in DOMAIN tree \cap DOMAIN tree' : d \notin {call'.dir, call'.to} => tree'[d] = tree[d]

Next ==
    /\ calls' = calls + 1
    /\ IF damaged' THEN Confined ELSE IF err' = "ok" THEN Done ELSE Refused

Spec == Init /\ [][Next]_vars

=============================================================================
