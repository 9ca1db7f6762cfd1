------------------------------ MODULE Emission ------------------------------
(***************************************************************************)
(* ulc2class: the source files written for a specification.  What is asked *)
(* for is a record: the language (C++/CLI is one of its own), what names   *)
(* the specification (the path of a .ulc or a .uld file, or the name of a  *)
(* language), where the output goes (-f and -o, with a suffix that is the  *)
(* language's or another), the class name (-n), the enumeration (-e) and a *)
(* path to be encoded (-F).  A file is the sequence of its parts: the      *)
(* head, the constants (module Dump), the constructors, the specification  *)
(* the class is initialised with, a part for each line of the .uld, and    *)
(* the end of the class.                                                   *)
EXTENDS Naturals, Integers, Sequences, FiniteSets, SequencesExt, Functions

CONSTANTS
  Asked2Class,  \* what may be asked for
  UldLines,     \* the lines of the .uld that rename a token
  Before        \* what the directory may hold before: sets of files

VARIABLES ask, again, at, files, code
emitVars == <<ask, again, at, files, code>>

(* parse_options(): without -o a file of code goes with the header, for    *)
(* the languages that have headers: C, C++ and C++/CLI.                    *)
HasHeader(a) == a.lang \in {"c", "cpp", "cppcli"}
Wrapper_AnyLang(a) == a.out # "o"
Wrapper(a) == a.out # "o" /\ HasHeader(a)
Uld(a) == a.conf = "uld"

(* Writing an implementation changes the suffix where there is a header.   *)
ImplFile(a) == IF HasHeader(a) THEN "impl" ELSE "class"

(* The specification encoded: the path of -F or else an absolute one.      *)
Encoded(a) == IF a.conf # "ulc" THEN "" ELSE IF a.enc THEN "path of -F" ELSE "path"

(* print_uld_source() of a .uld read again: what it is by then.            *)
Reread == {"same", "gone", "bad"}
Renames(r) == IF r = "same" THEN UldLines ELSE Front(UldLines)

SourceHead == <<"head">>

(* The classes.  Each stops where the .uld cannot be opened again, and for *)
(* C also where a line of it is refused; nobody looks at their results.    *)
(* "Cls()" and "Cls(path)" are the constructors a file declares or has:    *)
(* in C, the functions that make the analyser.                             *)
CHeader(a) == SourceHead \o <<"constants">> \o (IF Wrapper(a) THEN <<"Cls()">> ELSE <<>>) \o <<"end">>

CSource(a, r) ==
  SourceHead \o (IF ~Uld(a) THEN <<"Cls()", IF a.conf = "ulc" THEN "path" ELSE "base", "end">>
           ELSE IF r = "gone" THEN <<>>
           ELSE Renames(r) \o (IF r = "bad" THEN <<>> ELSE <<"Cls()", "base", "end">>))

(* In C++ the path of a .ulc is the constructor's default argument, and    *)
(* stands in the header; C++/CLI has none, and a constructor of its own.   *)
Constructors(a) == IF a.lang = "cpp" THEN <<"Cls(path)">> ELSE <<"Cls()", "Cls(path)">>
CppHeader(a) ==
  SourceHead \o <<"constants">>
    \o (CASE Wrapper(a) /\ a.conf = "ulc" -> Constructors(a) \o (IF a.lang = "cpp" THEN <<Encoded(a)>> ELSE <<>>)
          [] Wrapper(a) /\ a.conf # "ulc" -> <<"Cls()">>
          [] ~Wrapper(a) /\ a.conf = "name" -> <<"Cls()", "base">>
          [] OTHER -> Constructors(a) \o <<Encoded(a)>>) \o <<"end">>

CppSource(a, r) ==
  SourceHead \o (IF a.conf = "ulc" THEN Constructors(a) \o (IF a.lang = "cpp" THEN <<>> ELSE <<Encoded(a)>>) \o <<"end">>
           ELSE <<"Cls()", "base">> \o (IF ~Uld(a) THEN <<"end">>
                                         ELSE IF r = "gone" THEN <<>> ELSE Renames(r) \o <<"end">>))

ManagedBody(a, r) ==
  IF a.conf = "ulc" THEN <<Encoded(a), "end">>
  ELSE <<"base">> \o (IF ~Uld(a) THEN <<"end">> ELSE IF r = "gone" THEN <<>> ELSE Renames(r) \o <<"end">>)
CsClass(a, r) == SourceHead \o <<"constants">> \o ManagedBody(a, r)
JavaClass(a, r) == SourceHead \o <<"constants">> \o ManagedBody(a, r)

ClassText(a, r) ==
  CASE a.lang = "c" -> CHeader(a) [] a.lang \in {"cpp", "cppcli"} -> CppHeader(a)
    [] a.lang = "cs" -> CsClass(a, r) [] OTHER -> JavaClass(a, r)
ImplText(a, r) ==
  CASE a.lang = "c" -> CSource(a, r) [] a.lang \in {"cpp", "cppcli"} -> CppSource(a, r) [] OTHER -> SourceHead

-----------------------------------------------------------------------------
EmissionInit ==
  /\ ask \in Asked2Class /\ again \in (IF Uld(ask) THEN Reread ELSE {"same"})
  /\ at = "create" /\ code = 0
  /\ \E b \in Before : files = [f \in b |-> <<"theirs">>]

Done(c) == at' = "done" /\ code' = c

(* main_ustr(): the analyser is made of what names the specification.      *)
CreateAnalyser ==
  /\ at = "create" /\ UNCHANGED <<ask, again, files>>
  /\ \/ at' = "parms" /\ UNCHANGED code
     \/ Done(-1)

(* uls_init_parms_emit(): names that are no words are refused.  For C, -n  *)
(* without -e copies the class name before it is set: undefined.           *)
ReadsUnset(a) == a.lang = "c" /\ a.cls /\ ~a.enum
InitParms ==
  /\ at = "parms" /\ UNCHANGED <<ask, again, files>>
  /\ \/ at' = "class" /\ UNCHANGED code
     \/ Done(-1)
     \/ ReadsUnset(ask) /\ at' = "crashed" /\ UNCHANGED code

Fill(f, text) == files' = (f :> text) @@ files

(* uls_generate_tokdef_file(), its first half: the file is emptied, also   *)
(* when the output is busy with another file.                              *)
WriteClass ==
  /\ at = "class" /\ UNCHANGED <<ask, again>>
  /\ \/ Done(-1) /\ UNCHANGED files                     \* cannot be created
     \/ Done(-1) /\ Fill("class", <<>>)                 \* the output is busy
     \/ /\ Fill("class", ClassText(ask, again))
        /\ at' = (IF Wrapper(ask) THEN "impl" ELSE "rename") /\ UNCHANGED code

(* ... its second half, with a result of its own.                          *)
WriteImpl ==
  /\ at = "impl" /\ UNCHANGED <<ask, again>>
  /\ \/ Done(-1) /\ UNCHANGED files
     \/ Done(-1) /\ Fill(ImplFile(ask), <<>>)
     \/ /\ Fill(ImplFile(ask), ImplText(ask, again))
        /\ at' = "rename" /\ UNCHANGED code

(* ulc_generate_files(): the file gets the suffix -o asked for.            *)
Rename2Asked ==
  /\ at = "rename" /\ UNCHANGED <<ask, again>>
  /\ IF ~ask.other THEN Done(0) /\ UNCHANGED files
     ELSE \/ /\ Done(0)
             /\ files' = ("asked" :> files["class"]) @@ [f \in DOMAIN files \ {"class"} |-> files[f]]
          \/ Done(-1) /\ UNCHANGED files

EmissionStep == CreateAnalyser \/ InitParms \/ WriteClass \/ WriteImpl \/ Rename2Asked

-----------------------------------------------------------------------------
AskedFiles(a) == IF a.other THEN {"asked"} ELSE IF Wrapper(a) THEN {"class", "impl"} ELSE {"class"}
Parts(f) == ToSet(files[f])
Loads(a) == IF Wrapper(a) /\ ~(a.lang = "cpp" /\ a.conf = "ulc") THEN "impl" ELSE "class"
OwnFiles(a) == AskedFiles(a) \cup (IF a.other THEN {"class"} ELSE {})
SpecMeant(a) == IF a.conf # "ulc" THEN "base" ELSE IF a.enc THEN "path of -F" ELSE "path"

(* Files written for a specification are whole, and are those asked for:   *)
(* ulc2class that ends well leaves each with its constants and its end;    *)
(* what a header declares, the file of code beside it has; and one of the  *)
(* files, the header for a C++ class of a .ulc and the file of code        *)
(* otherwise, names the specification the constants were taken from, with  *)
(* every renaming of the .uld.  Unless the .uld changed since the analyser *)
(* was made; and a class with a header but no file of code has no          *)
(* renamings, and no name of a specification, when it is made of a .uld; a *)
(* C one never has one then, and not the path -F gives.  Whatever the end, *)
(* no other file is touched but, on the way to another suffix, the one     *)
(* with the language's own.                                                *)
EmittedWhole ==
  /\ at = "done" /\ code = 0 /\ again = "same" =>
       LET loads == IF ask.other THEN "asked" ELSE Loads(ask)
           one == ~Wrapper(ask) /\ HasHeader(ask)
           made == {"Cls()", "Cls(path)"}
       IN /\ AskedFiles(ask) \subseteq DOMAIN files
          /\ \A f \in AskedFiles(ask) : files[f][1] = "head" /\ Last(files[f]) = "end"
          /\ \E f \in AskedFiles(ask) : "constants" \in Parts(f)
          /\ Wrapper(ask) => Parts("class") \cap made = Parts("impl") \cap made
          /\ ~(one /\ (ask.lang = "c" \/ Uld(ask))) /\ ~(ask.lang = "c" /\ ask.enc) =>
               /\ SpecMeant(ask) \in Parts(loads)
               /\ Uld(ask) => ToSet(UldLines) \subseteq Parts(loads)
  /\ at = "done" =>
       \A f \in DOMAIN files \ OwnFiles(ask) : files[f] = <<"theirs">>
=============================================================================
