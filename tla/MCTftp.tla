------------------------------- MODULE MCTftp -------------------------------
(***************************************************************************)
(* Setups of Tftp for TLC.  Blocks of one byte, or of two when the server  *)
(* knows options, are numbered modulo 4.  The file of four bytes without   *)
(* options has five blocks and wraps the numbers; the same file with       *)
(* options, and the file of two bytes, have at most three, so an older     *)
(* block, or the OACK, may arrive late.                                    *)
(***************************************************************************)
EXTENDS Tftp

Environment(forever, count, rotate) ==
  [retry_forever |-> forever, retrycnt |-> count, ethrotate |-> rotate]
Once == Environment(FALSE, 0, TRUE)
Twice(rotate) == Environment(FALSE, 2, rotate)
Forever(rotate) == Environment(TRUE, 0, rotate)

Case(bytes, opts, ordered, pre, env) ==
  [size |-> bytes, options |-> opts, fifo |-> ordered, prereq |-> pre,
   retry_forever |-> env.retry_forever, retrycnt |-> env.retrycnt, ethrotate |-> env.ethrotate]

\* One attempt in every combination; two attempts where the order matters or
\* the numbers wrap; endless attempts for the file of two bytes; the cases that
\* lack an address.
MCSetups ==
  {Case(2, opts, ordered, 0, Once) : opts, ordered \in BOOLEAN}
    \union {Case(4, TRUE, ordered, 0, Once) : ordered \in BOOLEAN}
    \union {Case(4, FALSE, TRUE, 0, Once)}
    \union {Case(2, FALSE, FALSE, 0, Twice(TRUE)), Case(4, TRUE, FALSE, 0, Twice(FALSE))}
    \union {Case(4, FALSE, TRUE, 0, Twice(rotate)) : rotate \in BOOLEAN}
    \union {Case(2, TRUE, TRUE, 0, Forever(rotate)) : rotate \in BOOLEAN}
    \union {Case(2, TRUE, TRUE, pre, env) :
              pre \in {1, 2},
              env \in {Once} \union UNION {{Twice(rotate), Forever(rotate)} : rotate \in BOOLEAN}}
=============================================================================
