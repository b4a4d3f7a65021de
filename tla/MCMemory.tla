------------------------------ MODULE MCMemory ------------------------------
(***************************************************************************)
(* Model of Memory for TLC.  init starts in the middle of a page and has a *)
(* bss; the two segments of packed share a page, and the copy of the       *)
(* second faults; the second segment of inner lies in the page of its      *)
(* first; text is no ELF file.  The count of an object matters only where  *)
(* a mapping is refused, in packed and inner; the list of regions has 256  *)
(* slots.                                                                  *)
(***************************************************************************)
EXTENDS Memory

Seg(v, m, f) == [vaddr |-> v, memsz |-> m, filesz |-> f]
Elf(name, ok, segs, interp) == [name |-> name, ok |-> ok, segments |-> segs, interp |-> interp]
init == Elf("init", TRUE, <<Seg(7, 2, 1), Seg(10, 1, 1)>>, TRUE)
packed == Elf("packed", TRUE, <<Seg(8, 1, 1), Seg(9, 2, 1)>>, FALSE)
inner == Elf("inner", TRUE, <<Seg(8, 1, 1), Seg(9, 1, 1), Seg(10, 1, 1)>>, TRUE)
text == Elf("text", FALSE, <<>>, FALSE)
ld == Elf("ld", TRUE, <<Seg(1, 1, 1)>>, TRUE)
bad == Elf("bad", FALSE, <<>>, FALSE)
Boot(e, l, j, c) == [elf |-> e, linker |-> l, junk |-> j, clean |-> c]
MCBoots == {Boot(init, ld, 0, 256), Boot(init, ld, 0, 4), Boot(init, <<>>, 0, 256),
            Boot(init, bad, 0, 256), Boot(inner, ld, 0, 256), Boot(inner, ld, 2, 256),
            Boot(packed, <<>>, 0, 256), Boot(text, <<>>, 0, 256)}
=============================================================================
