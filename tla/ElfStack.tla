------------------------------ MODULE ElfStack ------------------------------
(***************************************************************************)
(* Where load_elf leaves the stack pointer of a new process: below the     *)
(* strings of its argument and environment vectors, aligned, then padding, *)
(* the auxiliary vector and the two vectors with their ends and argc.      *)
(***************************************************************************)
EXTENDS Integers

\* The end of the strings, strings bytes below top, rounded down to 16.
AlignedStrings(top, strings) == (top - strings) - ((top - strings) % 16)

\* The auxiliary entries: AT_PHDR, AT_PHENT, AT_PHNUM, AT_ENTRY, and AT_EXECPATH
\* if load_elf was given an exec_path.
AuxEntries(exec_path) == IF exec_path THEN 5 ELSE 4

\* The 8-byte words below the strings: padding, AT_NULL, the auxiliary entries of
\* two words, a null, the environment, a null, the arguments, argc.
Padding(argc, envc) == (argc + envc) % 2
StackWords(argc, envc, exec_path) ==
    Padding(argc, envc) + 1 + 2 * AuxEntries(exec_path) + 1 + envc + 1 + argc + 1

StackPointer(top, strings, argc, envc, exec_path) ==
    AlignedStrings(top, strings) - 8 * StackWords(argc, envc, exec_path)
=============================================================================
