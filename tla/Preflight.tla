------------------------------ MODULE Preflight ------------------------------
(***************************************************************************)
(* trainers/_preflight.py: can the torch inside an image run on the GPU    *)
(* that was rented?  A torch, as a machine sees it, is a record            *)
(*   imports  it can be imported at all                                    *)
(*   cuda     it sees a GPU                                                *)
(*   archs    its architecture list: [kind |-> "sm" | "compute", num |-> n]*)
(* An entry of another shape is skipped by the code and left out here.  A  *)
(* device is its compute capability as one number, 10 * major + minor.     *)
(* TFCT_SKIP_ARCH_CHECK, which nothing in the repository sets, is unset.   *)
(***************************************************************************)
EXTENDS Integers

\* Mutant: PTX newer than the device is taken for runnable too.
arch_supported_any_ptx(device, arch_list) ==
  \E e \in arch_list : \/ e.kind = "sm" /\ e.num = device
                       \/ e.kind = "compute"

\* A native kernel of exactly this architecture, or PTX that is not newer.
arch_supported(device, arch_list) ==
  \E e \in arch_list : \/ e.kind = "sm" /\ e.num = device
                       \/ e.kind = "compute" /\ e.num <= device

\* The gate before train(): silent where there is nothing to check.
check_gpu_arch(torch, device) ==
  torch.imports /\ torch.cuda => arch_supported(device, torch.archs)

\* The exit code of the preflight task: unlike the gate, it refuses a machine
\* without torch or without a GPU.
report(torch, device) ==
  IF ~(torch.imports /\ torch.cuda) THEN 2
  ELSE IF arch_supported(device, torch.archs) THEN 0 ELSE 1
=============================================================================
