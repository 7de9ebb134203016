----------------------------- MODULE MCMeasure -----------------------------
(* Every case of a small machine: two kernels, its boot files, updates.    *)
EXTENDS Measure

v9 == <<6, 9>>
v10 == <<6, 10>>

\* A disk with one kernel, and what updates make of it, one or two at once.
Disk0 == [files |-> [n \in {Plain("loader"), Plain("uki"), Plain("fs.lst"), Plain("grub.cfg"), Kernel(v9), Initrd(v9)} |-> 1],
          menu |-> [kernel |-> v9, opts |-> 1]]
Write(d, n) == [d EXCEPT !.files = [x \in DOMAIN @ \union {n} |-> IF x = n THEN IF n \in DOMAIN @ THEN @[n] + 1 ELSE 1 ELSE @[x]]]
Without(d, n) == [d EXCEPT !.files = [x \in DOMAIN @ \ {n} |-> @[x]]]
updateGrub(d) == [Write(d, Plain("grub.cfg")) EXCEPT !.menu.kernel = newest(installedKernels(d))]
NewKernel(d) == updateGrub(Write(Write(d, Kernel(v10)), Initrd(v10)))
Updates(d) ==
  {d, Write(d, Plain("loader")), Write(d, Plain("uki")), Without(d, Plain("uki")), Write(d, Initrd(d.menu.kernel)),
   Write(d, Kernel(d.menu.kernel)), NewKernel(d), Write(Write(d, Kernel(v10)), Initrd(v10)), Write(d, Kernel(v10)),
   [Write(d, Plain("grub.cfg")) EXCEPT !.menu.opts = 2], Write(d, Plain("fs.lst"))}
     \union (IF v10 \in installedKernels(d) /\ d.menu.kernel = v10
             THEN {updateGrub(Without(Without(d, Kernel(v10)), Initrd(v10)))} ELSE {})
Cases == {<<Disk0, n>> : n \in UNION {Updates(u) : u \in Updates(Disk0)}}
           \union {<<NewKernel(Disk0), n>> : n \in Updates(NewKernel(Disk0))}
Systems == {[chain |-> ch, phases |-> p, separator |-> s, firmware |-> 1, log |-> l] :
              ch \in {"uki", "grub"}, p, s \in BOOLEAN, l \in {{"sha1", SHA256}, {SHA256}}}
Sane == {s \in Systems : s.separator => s.phases}
SpecsOf(t) == [i \in DOMAIN t |-> PCRSpec(t[i][1], t[i][2])]
SpecLists == {SpecsOf(t) : t \in {
  << <<0, "e">>, <<4, "u">>, <<7, "e">>, <<11, "u">> >>, << <<0, "e">>, <<4, "u">>, <<7, "e">>, <<8, "e">>, <<9, "e">> >>,
  << <<0, "r">>, <<4, "r">>, <<9, "r">> >>, << <<7, "r">>, <<8, "r">>, <<11, "e">> >>, << <<0, "e">>, <<11, "s">> >>,
  << <<9, "e">> >>, << <<11, "r">>, <<15, "r">> >>}}
Unordered == SpecsOf(<< <<7, "e">>, <<0, "e">> >>)
Selections == {{0, 7}, {0, 4, 7, 11}, {0, 7, 8, 9}}
=============================================================================
