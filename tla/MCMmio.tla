-------------------------------- MODULE MCMmio --------------------------------
(***************************************************************************)
(* Requests of Mmio for TLC: every access size at every offset of a page,  *)
(* dumps of every length up to the limit of unsigned int and beyond it,    *)
(* and operands that do not fit their type.                                *)
(***************************************************************************)
EXTENDS Mmio

CONSTANTS MaxAddr, MaxVal, MaxBytes

Blank == [entry |-> "mmio_read_x", group |-> "MEM", size |-> 1, addr |-> 0,
          val |-> 0, num |-> 0, opt |-> "none"]

Addresses == (-1 .. MaxAddr) \union (U64 - PageSize .. U64)
Groups == {"MMIO", "MEM"}

ReadReqs == {[Blank EXCEPT !.group = g, !.size = s, !.addr = a] :
               g \in Groups, s \in {1, 2, 4, 8}, a \in Addresses}
WriteReqs == {[Blank EXCEPT !.entry = "mmio_write_x", !.group = g, !.size = s,
                            !.addr = a, !.val = v] :
                g \in Groups, s \in {1, 2, 4, 8}, a \in 0 .. PageSize, v \in -1 .. MaxVal}
DumpReqs == {[Blank EXCEPT !.entry = "mmio_dump", !.group = g, !.addr = a,
                           !.num = n, !.opt = o] :
               g \in {"MMIO"}, a \in Addresses, n \in 0 .. MaxBytes,
               o \in {"none", "-b", "other"}}

MCReqs == ReadReqs \union WriteReqs \union DumpReqs
==============================================================================
