-------------------------- MODULE MCKernelSnapshot --------------------------
(* Small instances of KernelSnapshot for TLC. *)
EXTENDS KernelSnapshot

\* A machine with two functions behind one slot, an empty memory descriptor, a
\* function 1 that does not answer, and two tables of one name and length.
PciMachine ==
  [vendor |-> 1, brand |-> 2, features |-> <<1, 2>>,
   pci |-> << [at |-> <<0, 1, 0>>, ids |-> <<7, 2, 0, 0, 0>>, multi |-> TRUE],
              [at |-> <<0, 1, 1>>, ids |-> <<7, 1, 0, 0, 0>>, multi |-> FALSE],
              [at |-> <<0, 2, 1>>, ids |-> <<7, 3, 0, 0, 0>>, multi |-> FALSE] >>,
   memory |-> << [type |-> "CONVENTIONAL", start |-> 0, pages |-> 2],
                 [type |-> "MMIO", start |-> 2, pages |-> 0] >>,
   rsdp |-> TRUE,
   headers |-> << [signature |-> 1, length |-> 9], [signature |-> 1, length |-> 9] >>,
   dsdt |-> << [signature |-> 2, address |-> 5, length |-> 9] >>,
   ssdts |-> << [signature |-> 1, address |-> 6, length |-> 9] >>,
   display |-> << <<8, 6, 4, 1>> >>]

\* The boot disk is the largest, and one of its partitions is larger than the others.
Disk(name, path, blocks) ==
  [name |-> name, path |-> path, label |-> 3, blocks |-> blocks, size |-> 1,
   boot |-> FALSE, partition |-> FALSE]
Boot == [Disk("boot", <<1, 1>>, 20) EXCEPT !.boot = TRUE, !.partition = TRUE]
Ancestors == Disk("whole", <<1>>, 30)
Part == [Disk("part", <<2, 1>>, 9) EXCEPT !.partition = TRUE]
Large == Disk("large", <<2>>, 4)
Small == Disk("small", <<3>>, 3)
MCInventories ==
  { <<Boot, Ancestors, Small, Part, Large>>, <<Large, Small, Ancestors, Boot>>, <<Ancestors, Boot>> }

ProbedLbas == {2}
MCBlobs == {<<2, 3>>}
=============================================================================
