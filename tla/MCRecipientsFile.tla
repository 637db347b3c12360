------------------------- MODULE MCRecipientsFile -------------------------
(* Two commands on a file of up to three people; two of the names look     *)
(* alike, and a merge may leave a list that loads or one that does not.    *)
(* xa is sa typed with a line break after it, xx a key with one inside.    *)
EXTENDS RecipientsFile, TLC

CONSTANTS alice, al1ce, bob, ka, kb, sa, sb, xa, xx

MCLook == [n \in {alice, al1ce, bob} |-> IF n = bob THEN bob ELSE alice]
MCReads == [s \in SignKey |-> CASE s = xa -> sa [] s = xx -> Torn [] OTHER -> s]

Person(n, k, s) == [name |-> n, key |-> k, sign |-> s]

MCOutside == {{Person(alice, ka, sa), Person(bob, kb, sb)},
              {Person(alice, ka, sa), Person(alice, kb, sb)}}

MCSymmetry == Permutations(Proc)
============================================================================
