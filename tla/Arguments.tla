----------------------------- MODULE Arguments ------------------------------
(***************************************************************************)
(* Command lines of the driver.  An argument is one of the kinds main      *)
(* tells apart, and two that only xgcc does: "-xc++" sets the language of  *)
(* what follows, "-include" stands for the options whose operand is the    *)
(* next argument.  "a.ct" is a CZet source by its name, "a.c" any other    *)
(* argument.                                                               *)
(***************************************************************************)
EXTENDS Naturals, Sequences

CONSTANT Argvs      \* the command lines considered

LibcArgs == {"-libc=musl", "-libc=glibc", "-libc=/dir"}
Kinds == LibcArgs \cup {"-std", "-static", "-o", "-xc++", "-include", "a.ct", "a.c"}

ASSUME ArgvsAssumption == Argvs \subseteq Seq(Kinds)
=============================================================================
