----------------------------- MODULE ElfImages ------------------------------
(***************************************************************************)
(* The ELF images of the kernel: how Elf::Parser32 and Parser64 read one   *)
(* through the structures of elf32.hpp and elf64.hpp, which loader         *)
(* ElfLoaderFactory makes for it, and how the symbol table of the kernel   *)
(* itself becomes the Symbolicator of a backtrace.                         *)
(*                                                                         *)
(* A file is a function from the offsets at which a field begins to its    *)
(* width and value.  A structure is a sequence of fields, which the        *)
(* compiler lays out; a field that is read from an offset, or with a       *)
(* width, that it was not written with is garbage.                         *)
(***************************************************************************)
EXTENDS Integers, Sequences, SequencesExt

CONSTANTS
    Files,          \* images: what is meant by one, and the file and strings of it
    DemangledName       \* DemangledName[n]: __cxa_demangle_gnu3() of a name with _Z (external)

VARIABLES
    machine,        \* "i386" or "x86_64": for which the kernel is compiled
    image,          \* what is in the image
    reading         \* how far the kernel has got with it

imagesVars == <<machine, image, reading>>

-----------------------------------------------------------------------------
(***************************************************************************)
(* The structures.                                                         *)
(***************************************************************************)

EI_MAG == <<0, 1, 2, 3>>
EI_CLASS == 4
EI_DATA == 5
EI_VERSION == 6

ELFMAG == <<127, 69, 76, 70>>
ELFCLASS32 == 1
ELFCLASS64 == 2
ELFDATA2LSB == 1
ET_EXEC == 2
EM_386 == 3
EM_X86_64 == 62
EV_CURRENT == 1
SHN_UNDEF == 0
SHT_SYMTAB == 2
SHT_STRTAB == 3
STT_FUNC == 2

Elf32_Ehdr ==
    <<<<"e_ident", 16>>, <<"e_type", 2>>, <<"e_machine", 2>>, <<"e_version", 4>>, <<"e_entry", 4>>,
      <<"e_phoff", 4>>, <<"e_shoff", 4>>, <<"e_flags", 4>>, <<"e_ehsize", 2>>, <<"e_phentsize", 2>>,
      <<"e_phnum", 2>>, <<"e_shentsize", 2>>, <<"e_shnum", 2>>, <<"e_shstrndx", 2>>>>

Elf32_Shdr ==
    <<<<"sh_name", 4>>, <<"sh_type", 4>>, <<"sh_flags", 4>>, <<"sh_addr", 4>>, <<"sh_offset", 4>>,
      <<"sh_size", 4>>, <<"sh_link", 4>>, <<"sh_info", 4>>, <<"sh_addralign", 4>>, <<"sh_entsize", 4>>>>

Elf32_Phdr ==
    <<<<"p_type", 4>>, <<"p_offset", 4>>, <<"p_vaddr", 4>>, <<"p_paddr", 4>>,
      <<"p_filesz", 4>>, <<"p_memsz", 4>>, <<"p_flags", 4>>, <<"p_align", 4>>>>

Elf32_Sym ==
    <<<<"st_name", 4>>, <<"st_value", 4>>, <<"st_size", 4>>,
      <<"st_info", 1>>, <<"st_other", 1>>, <<"st_shndx", 2>>>>

Elf64_Ehdr ==
    <<<<"e_ident", 16>>, <<"e_type", 2>>, <<"e_machine", 2>>, <<"e_version", 4>>, <<"e_entry", 8>>,
      <<"e_phoff", 8>>, <<"e_shoff", 8>>, <<"e_flags", 4>>, <<"e_ehsize", 2>>, <<"e_phentsize", 2>>,
      <<"e_phnum", 2>>, <<"e_shentsize", 2>>, <<"e_shnum", 2>>, <<"e_shstrndx", 2>>>>

Elf64_Shdr ==
    <<<<"sh_name", 4>>, <<"sh_type", 4>>, <<"sh_flags", 8>>, <<"sh_addr", 8>>, <<"sh_offset", 8>>,
      <<"sh_size", 8>>, <<"sh_link", 4>>, <<"sh_info", 4>>, <<"sh_addralign", 8>>, <<"sh_entsize", 8>>>>

Elf64_Phdr ==
    <<<<"p_type", 4>>, <<"p_flags", 4>>, <<"p_offset", 8>>, <<"p_vaddr", 8>>, <<"p_paddr", 8>>,
      <<"p_filesz", 8>>, <<"p_memsz", 8>>, <<"p_align", 8>>>>

\* The size of a symbol is 8 bytes wide in a file; the padding behind st_size
\* makes up for the 4 that are declared, where an 8 byte integer is 8-aligned.
Elf64_Sym ==
    <<<<"st_name", 4>>, <<"st_info", 1>>, <<"st_other", 1>>, <<"st_shndx", 2>>,
      <<"st_value", 8>>, <<"st_size", 4>>>>

Structures(class) ==
    IF class = 32 THEN [Ehdr |-> Elf32_Ehdr, Shdr |-> Elf32_Shdr, Phdr |-> Elf32_Phdr, Sym |-> Elf32_Sym]
    ELSE [Ehdr |-> Elf64_Ehdr, Shdr |-> Elf64_Shdr, Phdr |-> Elf64_Phdr, Sym |-> Elf64_Sym]

\* How the compiler aligns a field: the array e_ident is of bytes, and an 8 byte
\* integer is aligned to 4 on i386.
Alignment(width) ==
    CASE width = 16 -> 1
      [] width = 8 -> IF machine = "i386" THEN 4 ELSE 8
      [] OTHER -> width

RoundUp(n, alignment) == ((n + alignment - 1) \div alignment) * alignment

\* The end of the first n fields of a structure.
EndOf(struct, n) ==
    FoldLeft(LAMBDA at, field : RoundUp(at, Alignment(field[2])) + field[2], 0, SubSeq(struct, 1, n))

FieldIndex(struct, name) == CHOOSE i \in DOMAIN struct : struct[i][1] = name

offsetof(struct, name) ==
    LET i == FieldIndex(struct, name) IN RoundUp(EndOf(struct, i - 1), Alignment(struct[i][2]))

sizeof(struct) ==
    LET alignments == {Alignment(struct[i][2]) : i \in DOMAIN struct}
    IN  RoundUp(EndOf(struct, Len(struct)), CHOOSE a \in alignments : \A b \in alignments : b <= a)

-----------------------------------------------------------------------------
(***************************************************************************)
(* What a linker writes: the structures at the offsets of the ELF-32 and   *)
(* ELF-64 specifications, as <<offset, width>>.                            *)
(***************************************************************************)

FileFormat32 ==
    [Ehdr |-> "e_type" :> <<16, 2>> @@ "e_machine" :> <<18, 2>> @@ "e_version" :> <<20, 4>> @@
              "e_entry" :> <<24, 4>> @@ "e_phoff" :> <<28, 4>> @@ "e_shoff" :> <<32, 4>> @@
              "e_flags" :> <<36, 4>> @@ "e_ehsize" :> <<40, 2>> @@ "e_phentsize" :> <<42, 2>> @@
              "e_phnum" :> <<44, 2>> @@ "e_shentsize" :> <<46, 2>> @@ "e_shnum" :> <<48, 2>> @@
              "e_shstrndx" :> <<50, 2>>,
     Shdr |-> "sh_name" :> <<0, 4>> @@ "sh_type" :> <<4, 4>> @@ "sh_addr" :> <<12, 4>> @@
              "sh_offset" :> <<16, 4>> @@ "sh_size" :> <<20, 4>>,
     Phdr |-> "p_type" :> <<0, 4>> @@ "p_offset" :> <<4, 4>> @@ "p_vaddr" :> <<8, 4>> @@
              "p_filesz" :> <<16, 4>> @@ "p_memsz" :> <<20, 4>> @@ "p_flags" :> <<24, 4>>,
     Sym |-> "st_name" :> <<0, 4>> @@ "st_value" :> <<4, 4>> @@ "st_info" :> <<12, 1>>,
     size |-> [Ehdr |-> 52, Shdr |-> 40, Phdr |-> 32, Sym |-> 16]]

FileFormat64 ==
    [Ehdr |-> "e_type" :> <<16, 2>> @@ "e_machine" :> <<18, 2>> @@ "e_version" :> <<20, 4>> @@
              "e_entry" :> <<24, 8>> @@ "e_phoff" :> <<32, 8>> @@ "e_shoff" :> <<40, 8>> @@
              "e_flags" :> <<48, 4>> @@ "e_ehsize" :> <<52, 2>> @@ "e_phentsize" :> <<54, 2>> @@
              "e_phnum" :> <<56, 2>> @@ "e_shentsize" :> <<58, 2>> @@ "e_shnum" :> <<60, 2>> @@
              "e_shstrndx" :> <<62, 2>>,
     Shdr |-> "sh_name" :> <<0, 4>> @@ "sh_type" :> <<4, 4>> @@ "sh_addr" :> <<16, 8>> @@
              "sh_offset" :> <<24, 8>> @@ "sh_size" :> <<32, 8>>,
     Phdr |-> "p_type" :> <<0, 4>> @@ "p_offset" :> <<8, 8>> @@ "p_vaddr" :> <<16, 8>> @@
              "p_filesz" :> <<32, 8>> @@ "p_memsz" :> <<40, 8>> @@ "p_flags" :> <<4, 4>>,
     Sym |-> "st_name" :> <<0, 4>> @@ "st_value" :> <<8, 8>> @@ "st_info" :> <<4, 1>>,
     size |-> [Ehdr |-> 64, Shdr |-> 64, Phdr |-> 56, Sym |-> 24]]

FileFormat(class) == IF class = 32 THEN FileFormat32 ELSE FileFormat64

\* The fields of one structure at an offset, and of several behind each other.
Lay(at, format, values) ==
    [offset \in {at + format[name][1] : name \in DOMAIN format} |->
        LET name == CHOOSE n \in DOMAIN format : at + format[n][1] = offset
        IN  <<format[name][2], values[name]>>]

LayAll(at, format, size, table) ==
    FoldLeft(LAMBDA file, i : file @@ Lay(at + (i - 1) * size, format, table[i]), <<>>,
             [i \in 1 .. Len(table) |-> i])

PROGRAM_HEADERS == 100
SECTION_HEADERS == 300
SYMBOLS == 700
STRINGS == 800
SECTION_NAMES == 900

\* A file begins at base, to which its offsets are relative: 0 in an image of
\* its own, and where the boot loader puts the tables of the kernel.
FileOf(meant, base) ==
    LET format == FileFormat(meant.class)
        ident == [i \in base .. base + 6 |->
                    <<1, IF i < base + 4 THEN ELFMAG[i - base + 1]
                         ELSE (4 :> meant.class \div 32 @@ 5 :> meant.data @@ 6 :> meant.version)[i - base]>>]
        header ==
            [e_type |-> meant.type, e_machine |-> meant.machine, e_version |-> meant.version,
             e_entry |-> meant.entry, e_phoff |-> PROGRAM_HEADERS, e_shoff |-> SECTION_HEADERS,
             e_flags |-> meant.flags, e_ehsize |-> format.size.Ehdr, e_phentsize |-> format.size.Phdr,
             e_phnum |-> Len(meant.segments), e_shentsize |-> format.size.Shdr,
             e_shnum |-> Len(meant.sections), e_shstrndx |-> meant.shstrndx]
    IN  ident @@ Lay(base, format.Ehdr, header)
        @@ LayAll(base + PROGRAM_HEADERS, format.Phdr, format.size.Phdr, meant.segments)
        @@ LayAll(base + SECTION_HEADERS, format.Shdr, format.size.Shdr, meant.sections)
        @@ LayAll(base + SYMBOLS, format.Sym, format.size.Sym, meant.symbols)

-----------------------------------------------------------------------------
(***************************************************************************)
(* Elf::Parser32 and Elf::Parser64.  An assertion that fails is Garbage.   *)
(***************************************************************************)

Garbage == -1

ReadBytes(offset, width) ==
    IF offset \in DOMAIN image.file /\ image.file[offset][1] = width THEN image.file[offset][2] ELSE Garbage

ReadField(struct, at, name) ==
    ReadBytes(at + offsetof(struct, name), struct[FieldIndex(struct, name)][2])

header(class, name) == ReadField(Structures(class).Ehdr, 0, name)

e_ident(class, i) == ReadBytes(offsetof(Structures(class).Ehdr, "e_ident") + i, 1)

has_expected_magic(class) == \A i \in 1 .. 4 : e_ident(class, EI_MAG[i]) = ELFMAG[i]

is_header_size_valid(class) == header(class, "e_ehsize") = sizeof(Structures(class).Ehdr)

is_version_valid(class) ==
    header(class, "e_version") = EV_CURRENT /\ e_ident(class, EI_VERSION) = EV_CURRENT


IsFor(class, file_class, e_machine) ==
    /\ has_expected_magic(class) /\ is_header_size_valid(class) /\ is_version_valid(class)
    /\ e_ident(class, EI_CLASS) = file_class
    /\ e_ident(class, EI_DATA) = ELFDATA2LSB
    /\ header(class, "e_machine") = e_machine

is_ia32 == IsFor(32, ELFCLASS32, EM_386) /\ header(32, "e_flags") = 0

\* Of Parser64.
is_ia32e == IsFor(64, ELFCLASS64, EM_X86_64)

is_executable(class) == header(class, "e_type") = ET_EXEC

get_start_address(class) == header(class, "e_entry")

is_program_header_size_valid(class) == header(class, "e_phentsize") = sizeof(Structures(class).Phdr)

get_number_of_program_headers(class) == header(class, "e_phnum")

get_program_header(class, index) ==
    [name \in {"p_type", "p_offset", "p_vaddr", "p_filesz", "p_memsz", "p_flags"} |->
        IF is_program_header_size_valid(class) /\ index < get_number_of_program_headers(class)
        THEN ReadField(Structures(class).Phdr,
                       header(class, "e_phoff") + index * sizeof(Structures(class).Phdr), name)
        ELSE Garbage]

is_section_header_size_valid(class) == header(class, "e_shentsize") = sizeof(Structures(class).Shdr)

get_number_of_section_headers(class) == header(class, "e_shnum")

get_section_header(class, index, name) ==
    IF is_section_header_size_valid(class) /\ index < get_number_of_section_headers(class)
    THEN ReadField(Structures(class).Shdr,
                   header(class, "e_shoff") + index * sizeof(Structures(class).Shdr), name)
    ELSE Garbage

\* Where the names of the sections are.
get_section_name_string_table(class) ==
    LET index == header(class, "e_shstrndx")
    IN  IF /\ index # SHN_UNDEF
           /\ get_section_header(class, index, "sh_type") = SHT_STRTAB
           /\ get_section_header(class, index, "sh_size") > 0
        THEN get_section_header(class, index, "sh_offset") ELSE Garbage

get_section_name(class, index) == get_section_name_string_table(class) + index

-----------------------------------------------------------------------------
(***************************************************************************)
(* A module of the boot loader: which loader, and what it enumerates.      *)
(***************************************************************************)

can_exec(class) == is_executable(class) /\ (IF class = 32 THEN is_ia32 ELSE is_ia32e)

Reading(phase) == image.use = "module" /\ reading.phase = phase

create_loader ==
    /\ Reading("create")
    /\ reading' = [reading EXCEPT
                       !.phase = IF can_exec(32) \/ can_exec(64) THEN "enumerate" ELSE "thrown",
                       !.class = IF can_exec(32) THEN 32 ELSE IF can_exec(64) THEN 64 ELSE 0]
    /\ UNCHANGED <<machine, image>>

enumerate ==
    /\ Reading("enumerate")
    /\ IF Len(reading.found) < get_number_of_program_headers(reading.class)
       THEN reading' = [reading EXCEPT
                            !.found = Append(@, get_program_header(reading.class, Len(reading.found)))]
       ELSE reading' = [reading EXCEPT !.phase = "loaded", !.entry = get_start_address(reading.class),
                                       !.at = get_section_name(reading.class, 1)]
    /\ UNCHANGED <<machine, image>>

-----------------------------------------------------------------------------
(***************************************************************************)
(* GenericSymbolicatorFactory, of the class of the kernel, and the         *)
(* Symbolicator it makes.                                                  *)
(***************************************************************************)

KERNEL == 5000

KernelClass == IF machine = "i386" THEN 32 ELSE 64

Making(phase) == image.use = "kernel" /\ reading.phase = phase

\* The table of section headers, as the boot loader describes it.
shdr_table(index, name) ==
    LET Shdr == Structures(KernelClass).Shdr
    IN  ReadField(Shdr, KERNEL + SECTION_HEADERS + index * sizeof(Shdr), name)

\* The first one of the type; the first of all if there is none.
get_shdr_of_type(type) ==
    LET of == {i \in 0 .. Len(image.meant.sections) - 1 : shdr_table(i, "sh_type") = type}
    IN  IF of = {} THEN 0 ELSE CHOOSE i \in of : \A j \in of : i <= j

get_symbol(index, name) ==
    LET Sym == Structures(KernelClass).Sym
    IN  ReadField(Sym, shdr_table(get_shdr_of_type(SHT_SYMTAB), "sh_addr") + index * sizeof(Sym), name)

\* The string at an address; the tables of names are at theirs.
get_string(index) ==
    LET at == shdr_table(get_shdr_of_type(SHT_STRTAB), "sh_addr") + index
    IN  IF at \in DOMAIN image.strings THEN image.strings[at] ELSE ""

is_elf_symbol_a_function(index) == get_symbol(index, "st_info") % 16 = STT_FUNC

\* assert(sizeof(ElfSectionHeader) == elf_sec.size)
make_symbolicator ==
    /\ Making("create")
    /\ sizeof(Structures(KernelClass).Shdr) = FileFormat(KernelClass).size.Shdr
    /\ reading' = [reading EXCEPT !.phase = "register"]
    /\ UNCHANGED <<machine, image>>

register_elf_symbol(index) ==
    [address |-> get_symbol(index, "st_value"), name |-> get_string(get_symbol(index, "st_name"))]

register_all_symbols ==
    /\ Making("register")
    /\ LET size == shdr_table(get_shdr_of_type(SHT_SYMTAB), "sh_size")
           n == size \div sizeof(Structures(KernelClass).Sym)
       IN  IF reading.at = n THEN reading' = [reading EXCEPT !.phase = "symbolicate"]
           ELSE reading' = [reading EXCEPT
                    !.at = @ + 1,
                    !.found = IF is_elf_symbol_a_function(reading.at)
                              THEN Append(@, register_elf_symbol(reading.at)) ELSE @]
    /\ UNCHANGED <<machine, image>>

\* A faulty one: of the symbols before the address, the last one registered.
Best_Mutant(symbols, ip) ==
    FoldLeft(LAMBDA best, symbol : IF symbol.address <= ip THEN symbol ELSE best,
             [address |-> Garbage, name |-> ""], symbols)

\* The symbol with the greatest address that is not behind the instruction.
Best(symbols, ip) ==
    FoldLeft(LAMBDA best, symbol :
                 IF symbol.address <= ip /\ symbol.address > best.address THEN symbol ELSE best,
             [address |-> Garbage, name |-> ""], symbols)

demangle(name) == IF name \in DOMAIN DemangledName THEN DemangledName[name] ELSE name

\* A frame of a backtrace; what is NULL for an address before any symbol is "".
symbolicate(ip) ==
    /\ Making("symbolicate") /\ reading.found # <<>>
    /\ reading' = [reading EXCEPT !.entry = ip, !.name = demangle(Best(reading.found, ip).name)]
    /\ UNCHANGED <<machine, image>>

-----------------------------------------------------------------------------
Unread == [phase |-> "create", class |-> 0, found |-> <<>>, at |-> 0, entry |-> Garbage, name |-> ""]

ImagesInit ==
    /\ machine \in {"i386", "x86_64"}
    /\ image \in Files
    /\ image.use = "kernel" => image.meant.class = KernelClass
    /\ reading = Unread

ImagesNext ==
    \/ create_loader \/ enumerate
    \/ make_symbolicator \/ register_all_symbols
    \/ \E ip \in image.addresses : symbolicate(ip)

-----------------------------------------------------------------------------
\* An executable of a machine that the kernel knows, in the only encoding it
\* reads.
Runnable(meant) ==
    /\ meant.type = ET_EXEC /\ meant.data = ELFDATA2LSB /\ meant.version = EV_CURRENT
    /\ \/ meant.class = 32 /\ meant.machine = EM_386 /\ meant.flags = 0
       \/ meant.class = 64 /\ meant.machine = EM_X86_64

\* "Failed to find a loader to handle the specified image": an image gets the
\* loader of its class, and none if it is for another machine or no executable;
\* and what the loader reads through its structures is what the linker wrote.
ImageIsRead ==
    LET meant == image.meant
    IN  image.use = "module" =>
            /\ reading.phase = "thrown" => ~Runnable(meant)
            /\ reading.phase \in {"enumerate", "loaded"} => Runnable(meant) /\ reading.class = meant.class
            /\ reading.phase = "loaded" =>
                   /\ reading.found = meant.segments
                   /\ reading.entry = meant.entry
                   /\ reading.at = meant.sections[meant.shstrndx + 1].sh_offset + 1

\* "Look up addresses in the kernel's symbol table": an address in a function is
\* given the name of that function, whatever else is in the table and in
\* whichever order.
SymbolNamed ==
    image.use = "kernel" /\ reading.entry # Garbage =>
        \A i \in 1 .. Len(image.meant.symbols) :
            LET symbol == image.meant.symbols[i]
            IN  symbol.st_info % 16 = STT_FUNC
                /\ reading.entry \in symbol.st_value .. symbol.st_value + symbol.st_size - 1 =>
                    reading.name = demangle(image.strings[KERNEL + STRINGS + symbol.st_name])

=============================================================================
