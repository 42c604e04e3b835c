------------------------------ MODULE GuestMemory ------------------------------
(***************************************************************************)
(* The checks host/src/file_io.cpp makes before it touches guest memory.   *)
(* An address is what a guest sends in a 32-bit register; sizes are of     *)
(* type size_t.  The state of a check is not kept anywhere, so this module *)
(* has no variables.                                                       *)
(***************************************************************************)
EXTENDS Integers

CONSTANTS
    MemSize,        \* vm.mem_size
    FILE_NAME_MAX,  \* longest name of a file
    RequestSize     \* sizeof(file_request)

ASSUME MemoryAssumption ==
    /\ MemSize \in Nat /\ FILE_NAME_MAX \in Nat /\ RequestSize \in Nat

(* Mutant: the end of the range is compared, and the sum wraps around. *)
RangeEndWraps(address, size) == (address + size) % (2 * MemSize) <= MemSize

(* The range lies in guest memory; nothing is added, so nothing wraps. *)
getGuestMemory(address, size) == address <= MemSize /\ size <= MemSize - address

(* readGuestFileName: length is the distance from the address to the first *)
(* zero byte; lettered tells whether isValidGuestFileName accepts the      *)
(* characters before it.                                                   *)
readGuestFileName(address, length, lettered) ==
    /\ getGuestMemory(address, 1)
    /\ length <= FILE_NAME_MAX
    /\ length < MemSize - address
    /\ lettered /\ length > 0

(* The bytes readGuestFileName looks at, as a range: up to the zero, at    *)
(* most FILE_NAME_MAX + 1, and none behind the end of memory.              *)
NameRange(address, length) ==
    LET wanted == IF length <= FILE_NAME_MAX THEN length + 1 ELSE FILE_NAME_MAX + 1
        available == MemSize - address
    IN  <<address, IF wanted <= available THEN wanted ELSE available>>
=============================================================================
