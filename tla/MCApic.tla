-------------------------------- MODULE MCApic -------------------------------
(* Machines with one or two IOAPICs, with one that is too small, and without *)
(* any.  The counter may run out before it is read.                          *)
EXTENDS Apic

Io(max, base) == [max |-> max, base |-> base]

MCModels ==
  {[kind |-> "unknown", io_apics |-> <<>>]}
    \cup {[kind |-> "apic", io_apics |-> io] :
            io \in {<<Io(4, 0)>>, <<Io(2, 0)>>, <<Io(0, 0)>>, <<Io(5, 0), Io(3, 6)>>,
                    <<Io(3, 6), Io(4, 0)>>}}
=============================================================================
