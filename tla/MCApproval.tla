------------------------------- MODULE MCApproval -------------------------------
(* Instances of Approval: processes, scopes and files are interchangeable,   *)
(* tokens are not, since their order matters.                                *)
EXTENDS Approval, TLC

Perms == Permutations(Process) \cup Permutations(Scope) \cup Permutations(Inode)

===============================================================================
