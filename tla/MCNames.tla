------------------------------ MODULE MCNames -------------------------------
(***************************************************************************)
(* Model of Names for TLC.  The first image has lib, bin/zsh behind a      *)
(* deleted entry of the same name and in a second directory block, and two *)
(* links; the second has no zsh, and a link to itself; the third is the    *)
(* first with block numbers in the file that are past the volume's end.    *)
(***************************************************************************)
EXTENDS Names

E(ino, name) == [ino |-> ino, name |-> name]
Dots(self, parent) == <<E(self, "."), E(parent, "..")>>
Full(past) ==
     [dirs |-> 2 :> <<Dots(2, 2) \o <<E(0, "bin"), E(3, "lib")>>, <<E(4, "bin"), E(7, "sh")>>>>
               @@ 3 :> <<Dots(3, 2)>>
               @@ 4 :> <<Dots(4, 2) \o <<E(5, "zsh"), E(6, "sh")>>>>,
      links |-> 6 :> <<"zsh">> @@ 7 :> <<"bin", "sh">>,
      sizes |-> 5 :> 11, past |-> past]
MCImages ==
    {Full({}), Full({2, Indirect}),
     [dirs |-> 2 :> <<Dots(2, 2) \o <<E(4, "bin")>>, <<E(7, "sh")>>>> @@ 4 :> <<Dots(4, 2)>>,
      links |-> 7 :> <<"sh">>,
      sizes |-> 8 :> 1, past |-> {}]}

H(name, type, blocks) == [name |-> name, type |-> type, blocks |-> blocks]
MCArchives ==
    {<<H("fterm", "file", 1), H("", "data", 0), H("kernel.map", "file", 0), H("", "end", 0)>>,
     <<H("etc", "dir", 0), H("fterm", "file", 0), H("kernel.map", "file", 0), H("", "end", 0)>>,
     <<H("etc", "dir", 0), H("kernel.map", "file", 0), H("fterm", "file", 0), H("", "end", 0)>>}

MCPaths == {<<"", "">>, <<"", "system", "sh">>, <<"system", "bin", "..", "bin", "sh">>,
            <<"", "system", "bin", "zsh", "x">>, <<"", "", "initrd", "fterm">>,
            <<"", "dev", "null">>, <<"", "lib", "..">>, <<"", "system", "lib">>,
            <<"", "dev", "..", "dev", "null">>}
MCWorkingDir == <<"">>
=============================================================================
