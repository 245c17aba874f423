------------------------------ MODULE SrtpKernel ------------------------------
(***************************************************************************)
(* The crypto kernel of libsrtp (crypto_kernel.c), one for the process.    *)
(* It loads its debug modules, cipher types and authentication types one   *)
(* after the other, each into a node of its own from the heap, and is      *)
(* secure when all of them are there.  The self-tests are taken to pass.   *)
(***************************************************************************)
EXTENDS Naturals

CONSTANTS Loads,   \* how many modules and types srtp_crypto_kernel_init loads
          Faults   \* the allocations that may fail

ASSUME LoadsAssumption == Loads \in Nat \ {0}

VARIABLES kernel

KernelType == [secure : BOOLEAN, loaded : 0 .. Loads]

Insecure == [secure |-> FALSE, loaded |-> 0]

(***************************************************************************)
(* The kernel that srtp_crypto_kernel_init leaves when there is memory for *)
(* n nodes.  What was loaded before an allocation failed stays, so the     *)
(* next call finds its first module there already and gives up; a kernel   *)
(* that is secure only runs its self-tests again.                          *)
(***************************************************************************)
srtp_crypto_kernel_init(n) ==
  IF kernel.secure \/ kernel.loaded > 0 THEN kernel
  ELSE [secure |-> n = Loads, loaded |-> n]

\* srtp_init adds a debug module of its own, which nothing depends on.
srtp_init ==
  \E n \in IF "load" \in Faults THEN 0 .. Loads ELSE {Loads} :
    kernel' = srtp_crypto_kernel_init(n)

srtp_shutdown == kernel' = Insecure
=============================================================================
