---- MODULE MCHome ----
(***************************************************************************)
(* Checks Home on a small instance.                                        *)
(***************************************************************************)
EXTENDS Home, TLC

(* Processes of a kind and conversation IDs are interchangeable.           *)
Symmetry == Permutations(Tuis) \cup Permutations(Convs)

(* A temporary file matters to those who write or rename it: what earlier  *)
(* savers have left behind is truncated before it is used.  A path is read *)
(* again before it is next written, unless it is in use; and what two have *)
(* in use is excepted for good.                                            *)
Used ==
  {Path(p) : p \in {q \in Procs : Saving(q) /\ (proc[q].fd = "tmp" \/ proc[q].pc = "rename")}}
Missed == (missed \cap UNION {InUse(proc[p]) : p \in Procs}) \ spoilt
Unkept == IF spoilt \cap {Archive(c) : c \in Convs} = {} THEN unkept ELSE {}
View == <<file, [x \in Used |-> tmp[x]], proc, asked, starts, spoilt, Missed, Unkept>>
====
