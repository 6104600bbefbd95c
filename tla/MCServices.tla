----------------------------- MODULE MCServices -----------------------------
(***************************************************************************)
(* What the kernel does with what it is given, for TLC: the walk over the  *)
(* boot loader's memory map, the reading of program images and of the      *)
(* kernel's symbols, the demangling of their names, and the lines that are *)
(* typed at the console.  A behaviour is one of them.                      *)
(***************************************************************************)
EXTENDS Console, MultibootMemoryMap, ElfImages, MCMangledNames

VARIABLE subject

\* The console.
MCPrompt == <<">">>

MCGreeting == <<NEWLINE, "E", NEWLINE>>

\* With two characters of input it fills a row.
MCAnswer == <<"G", "o", "t", ":">>

MCCharacters == {"a", TAB}

\* Maps of up to four entries, ten bytes apart, with pages of two bytes.
MapsOf(lengths) ==
    UNION {{[i \in 1 .. n |-> Entry(10 * i, len[i], avail[i])] :
               len \in [1 .. n -> lengths], avail \in [1 .. n -> BOOLEAN]} : n \in 1 .. 4}

LastAvailable(m) ==
    CHOOSE i \in DOMAIN m : m[i].available /\ \A j \in i + 1 .. Len(m) : ~m[j].available

StartsAvailable == {m \in MapsOf({2, 3, 6, 7}) : m[1].available}

\* Every entry has a page or more, and the last available one whole pages.
WholePages == {m \in StartsAvailable : m[LastAvailable(m)].length % PAGE_SIZE = 0}

Zeros == [size |-> 0, base |-> 0, length |-> 0, available |-> FALSE]

ZerosAfter == {<<Zeros>>}

-----------------------------------------------------------------------------
(***************************************************************************)
(* Images that differ in what decides on their loader, with up to two      *)
(* segments; and kernels whose tables hold functions, an object and a      *)
(* local function, in any order.                                           *)
(***************************************************************************)
Section(name, type, offset, size) ==
    [sh_name |-> name, sh_type |-> type, sh_offset |-> offset, sh_addr |-> KERNEL + offset, sh_size |-> size]

Sections(symtab_size) ==
    <<Section(0, 0, 0, 0), Section(1, 1, 64, 8), Section(2, SHT_SYMTAB, SYMBOLS, symtab_size),
      Section(3, SHT_STRTAB, STRINGS, 8), Section(4, SHT_STRTAB, SECTION_NAMES, 8)>>

Segment(type, flags) ==
    [p_type |-> type, p_offset |-> 64, p_vaddr |-> 128, p_filesz |-> 3, p_memsz |-> 5, p_flags |-> flags]

Programs ==
    {[class |-> class, machine |-> m, data |-> data, version |-> version, type |-> type, flags |-> flags,
      entry |-> 129, segments |-> segments, sections |-> Sections(0), shstrndx |-> 4, symbols |-> <<>>] :
        class \in {32, 64}, m \in {EM_386, EM_X86_64, 8}, data \in {1, 2}, version \in {0, 1},
        type \in {ET_EXEC, 3}, flags \in {0, 1},
        segments \in {<<>>, <<Segment(1, 5)>>, <<Segment(6, 4), Segment(1, 6)>>}}

Symbol(name, value, size, info) ==
    [st_name |-> name, st_value |-> value, st_size |-> size, st_info |-> info]

\* Two global functions and a local one, two of them adjacent; an object inside.
KernelSymbols ==
    {Symbol(1, 16, 4, 18), Symbol(2, 20, 4, 2), Symbol(3, 32, 8, 18), Symbol(4, 22, 1, 17)}

SymbolTables == {s \in [1 .. 4 -> KernelSymbols] : \A i, j \in 1 .. 4 : i # j => s[i] # s[j]}

Names == <<"_start", "_Z4workv", "_Z5panicv", "count">>

MCDemangledName == "_Z4workv" :> "work(void)" @@ "_Z5panicv" :> "panic(void)"

Kernels ==
    {[class |-> class, machine |-> EM_386, data |-> 1, version |-> 1, type |-> ET_EXEC, flags |-> 0, entry |-> 0,
      segments |-> <<>>, sections |-> Sections(4 * FileFormat(class).size.Sym), shstrndx |-> 4, symbols |-> symbols] :
        class \in {32, 64}, symbols \in SymbolTables}

MCFiles ==
    {[use |-> "module", meant |-> p, file |-> FileOf(p, 0), strings |-> <<>>, addresses |-> {}] : p \in Programs}
    \union
    {[use |-> "kernel", meant |-> k, file |-> FileOf(k, KERNEL), addresses |-> 16 .. 40,
      strings |-> [a \in KERNEL + STRINGS + 1 .. KERNEL + STRINGS + 4 |-> Names[a - KERNEL - STRINGS]]
                  @@ [a \in KERNEL + SECTION_NAMES + 1 .. KERNEL + SECTION_NAMES + 4 |-> ".section"]] : k \in Kernels}

-----------------------------------------------------------------------------
serviceVars == <<subject, vars, mapVars, imagesVars, namesVars>>

\* What a service that is not used holds.
NoMap ==
    /\ map = <<>> /\ memory = <<>> /\ entry_ = 0 /\ remaining_length_of_entry_ = 0
    /\ curr_page_frame_ = 0 /\ enumerated = <<>> /\ panicked = FALSE
NoImage == machine = "none" /\ image = <<>> /\ reading = <<>>
NoEntity == entity = <<>> /\ ddata = <<>>

MCInit ==
    /\ subject \in {"console", "memory_map", "images", "names"}
    /\ Init
    /\ IF subject = "memory_map" THEN MapInit ELSE NoMap
    /\ IF subject = "images" THEN ImagesInit ELSE NoImage
    /\ IF subject = "names" THEN NamesInit ELSE NoEntity

UseConsole == subject = "console" /\ Next /\ UNCHANGED <<subject, mapVars, imagesVars, namesVars>>

UseMap == subject = "memory_map" /\ get_next /\ UNCHANGED <<subject, vars, imagesVars, namesVars>>

UseImages == subject = "images" /\ ImagesNext /\ UNCHANGED <<subject, vars, mapVars, namesVars>>

UseNames == subject = "names" /\ DemangleStep /\ UNCHANGED <<subject, vars, mapVars, imagesVars>>

\* The map, an image and a name are read to their end.
Finished ==
    /\ \/ subject = "memory_map" /\ ~has_next
       \/ subject = "images" /\ reading.phase \notin {"create", "enumerate", "register", "symbolicate"}
       \/ subject = "names" /\ ddata.calls = <<>>
    /\ UNCHANGED serviceVars

MCNext == UseConsole \/ UseMap \/ UseImages \/ UseNames \/ Finished

MCSpec == MCInit /\ [][MCNext]_serviceVars

-----------------------------------------------------------------------------
\* The line that getline() will return is the one on the terminal, with the
\* same cursor, every row of the display shows its line although tabs flow
\* over, and the console stops on an assertion in the two known cases only
\* (line_editor.cpp, text_terminal.cpp).
ScreenShowsLine == subject = "console" => EditorMirrored /\ DisplayShows /\ StopsOnlyIf



\* An address in a function is given the name of that function, whatever else
\* is in the symbol table and in whichever order (symbolicator.cpp).
AddressesNamed == subject = "images" => SymbolNamed


=============================================================================
