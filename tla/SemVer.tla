------------------------------- MODULE SemVer -------------------------------
(* Versions and dependency requirements as lifecycle/src/release uses them: a *)
(* version is the triple of its three numbers, a requirement an operator and *)
(* the one to three numbers written after it.  Python versions are ordered   *)
(* the same way and are not modelled apart; overflow of a u64, wildcards and *)
(* comma-separated lists are left out.                                       *)
EXTENDS Naturals, Sequences

Versions == Nat \X Nat \X Nat

\* No version at all: every version exceeds it.
NoVersion == <<0, 0, 0>>

\* The version a package graduates to.
Stable == <<1, 0, 0>>

Less(v, w) ==
    \/ v[1] < w[1]
    \/ v[1] = w[1] /\ v[2] < w[2]
    \/ v[1] = w[1] /\ v[2] = w[2] /\ v[3] < w[3]

Later(v, w) == IF Less(v, w) THEN w ELSE v

Unstable(v) == v[1] = 0

\* The next version of a level: 3 is major, 2 is minor, anything else a patch.
BumpNative(v, level) ==
    CASE level = 3 -> <<v[1] + 1, 0, 0>>
      [] level = 2 -> <<v[1], v[2] + 1, 0>>
      [] OTHER     -> <<v[1], v[2], v[3] + 1>>

-----------------------------------------------------------------------------
(* Requirements.                                                             *)

Operators == {">=", "<=", ">", "<", "=", "^", "~"}

Requirement == [op : Operators, parts : [1..1 -> Nat] \cup [1..2 -> Nat] \cup [1..3 -> Nat]]

Part(r, i) == IF i <= Len(r.parts) THEN r.parts[i] ELSE 0

Lower(r) == <<Part(r, 1), Part(r, 2), Part(r, 3)>>

\* The first version a requirement excludes: the first number that is not zero
\* grows, except where the operator only lets the last written number vary.
Upper(r) ==
    LET n      == Len(r.parts)
        narrow == r.op = "~" \/ (r.op \in {">", "<="} /\ n < 3)
        level  == IF narrow THEN IF n = 1 THEN 3 ELSE 2
                  ELSE IF n = 1 \/ r.parts[1] > 0 THEN 3
                  ELSE IF n = 2 \/ r.parts[2] > 0 THEN 2
                  ELSE 1
    IN  BumpNative(Lower(r), level)

\* A requirement accepts a version.
Accepts(r, v) ==
    LET low  == Lower(r)
        full == Len(r.parts) = 3
    IN  CASE r.op = ">=" -> ~Less(v, low)
          [] r.op = ">"  -> IF full THEN Less(low, v) ELSE ~Less(v, Upper(r))
          [] r.op = "<"  -> Less(v, low)
          [] r.op = "<=" -> IF full THEN ~Less(low, v) ELSE Less(v, Upper(r))
          [] r.op = "="  -> \A i \in 1..Len(r.parts) : v[i] = r.parts[i]
          [] OTHER       -> ~Less(v, low) /\ Less(v, Upper(r))

\* A range cannot be moved to another version without changing what it says.
Rewritable(r) == r.op \in {"=", "^", "~"}

\* The requirement rewritten for a version it does not accept.
UpdatedRequirement(r, v) == [op |-> r.op, parts |-> v]

\* What a caret requirement on v promises of w.
Compatible(v, w) == Accepts([op |-> "^", parts |-> v], w)
=============================================================================
