------------------------------- MODULE MCUif -------------------------------
(* The instance of Uif for TLC: the programs, each with the commands and    *)
(* the failures it is started under.                                        *)
EXTENDS Uif

C(id, q, op, slba, n) == [id |-> id, q |-> q, op |-> op, slba |-> slba, n |-> n]
D(prog, nthreads, dev, faults, cmds) ==
    [prog |-> prog, nthreads |-> nthreads, dev |-> dev, faults |-> faults, cmds |-> cmds]

OneDev == <<1, 1>>
TwoDev == <<1, 2>>

Mirrored  == {C(1, 1, "write", 0, 2), C(2, 2, "zeroes", 1, 1), C(3, 1, "flush", 0, 0)}
Rewritten == {C(1, 1, "write", 0, 2), C(2, 2, "write", 1, 1), C(3, 2, "read", 0, 2)}
Zeroed    == {C(1, 1, "zeroes", 0, 1), C(2, 2, "write", 0, 2), C(3, 2, "read", 0, 1)}
Cleared   == {C(1, 1, "zeroes", 0, 2), C(2, 2, "zeroes", 1, 1), C(3, 2, "read", 0, 2)}
ReadOnce  == {C(1, 1, "read", 0, 2), C(2, 2, "other", 0, 0)}

\* Left out are the combinations in which the code acknowledges what it has
\* not written: end of file and encryptor writes, short writes of the
\* io_uring programs, zeroes beyond block 0 of encryptor-aio and -multi,
\* zeroes after other commands of an encryptor-sgx worker, and a failing
\* enclave under writes of encryptor-sgx-aio; and a device whose queues
\* several workers of encryptor-multi serve.
Started ==
         {D("replicator", n, OneDev, {"check", "short", "io"}, Mirrored) : n \in 1 .. 2}
  \union {D("replicator_aio", n, OneDev, {"check", "io"}, Mirrored) : n \in 1 .. 2}
  \union {D("encryptor_mt", 2, OneDev, {"check", "crypt", "short", "io"}, Rewritten)}
  \union {D("encryptor_mt", 1, OneDev, {"crypt", "io", "eof"}, Cleared)}
  \union {D("encryptor_aio", n, OneDev, {"check", "crypt", "io"}, Rewritten) : n \in 1 .. 2}
  \union {D("encryptor_aio", 2, OneDev, {"io"}, Zeroed)}
  \union {D("encryptor_multi", n, TwoDev, {"crypt", "io"}, Rewritten) : n \in 1 .. 2}
  \union {D("encryptor_multi", 1, OneDev, {"io"}, Zeroed)}
  \union {D("encryptor_sgx", 1, OneDev, {"check", "crypt", "enclave", "io"}, Rewritten)}
  \union {D("encryptor_sgx", 2, OneDev, {"crypt", "io", "eof"}, {C(1, 1, "zeroes", 0, 1), C(3, 2, "read", 0, 1)})}
  \union {D("encryptor_sgx_aio", 2, OneDev, {"enclave", "io"}, Rewritten)}
  \union {D("encryptor_sgx_aio", 1, OneDev, {"io"}, Cleared)}
  \union {D("encryptor_sgx_aio", 1, OneDev, {"check", "crypt", "enclave"}, ReadOnce)}

ASSUME StartedAssumption == \A d \in Deployments : Owned(d) /\ Sound(d)
=============================================================================
