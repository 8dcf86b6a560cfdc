------------------------------- MODULE Options -------------------------------
(***************************************************************************)
(* vcard_emul_options: the parser of the emulator's option string         *)
(* (vcard_emul_nss.c), with its helpers strip, find_blank, count_tokens    *)
(* and the NEXT_TOKEN macro.  The parser walks the string with one         *)
(* pointer, args, and scans ahead with strpbrk and count_tokens; every     *)
(* loop over characters is a step here, one character per step.            *)
(*                                                                         *)
(* The string is not fixed in advance: it is produced as the parser reads  *)
(* it.  A read at the first position not yet produced picks any symbol,   *)
(* or the terminating NUL, and appends it; a read of a position already    *)
(* produced sees what is there.  Every string of at most MaxLen symbols is *)
(* so one behaviour, and a prefix the parser rejects is never extended.    *)
(*                                                                         *)
(* A symbol is one character or one keyword the code matches with         *)
(* strncmp ("soft=" ...); "CAC" is the card type name, "n" a character     *)
(* among 0 N n F, "removable" that word, and any other character is a     *)
(* symbol of Syms that is none of these.  Names, paths and parameters are  *)
(* abstracted to whether they are set.                                     *)
(***************************************************************************)
EXTENDS Naturals, Sequences

CONSTANTS
    Syms,       \* the symbols a string is made of (NUL excluded)
    MaxLen,     \* longest string, in symbols before the NUL
    NUL         \* the terminating 0 byte

ASSUME NUL \notin Syms

Space == {" ", "\n"}            \* isspace
NoChars == {"n"}                \* '0', 'N', 'n', 'F' after use_hw=
READER_STEP == 4

UseHw == {"USE_HW_NO", "USE_HW_YES", "USE_HW_REMOVABLE"}
CardTypes == {"VCARD_EMUL_NONE", "VCARD_EMUL_CAC"}

VARIABLES
    inp,        \* the string produced so far
    pos,        \* args: where the parser stands
    cur,        \* the pointer strpbrk, count_tokens and the type scan advance
    pc,         \* the point of vcard_emul_options reached
    ret,        \* where strip returns to
    k,          \* which NEXT_TOKEN of soft=( ... ) is being read
    count,      \* count_tokens(args, ',', ')') + 1
    i,          \* the cert loop's counter
    options,    \* the static VCardEmulOptions being filled
    readerCount \* reader_count: the length g_renew gave opts->vreader

vars == <<inp, pos, cur, pc, ret, k, count, i, options, readerCount>>

(* default_options, copied into options on entry.                          *)
DefaultOptions ==
    [nssDb |-> FALSE, vreaderCount |-> 0, hwCardType |-> "VCARD_EMUL_CAC",
     hwTypeParams |-> FALSE, useHw |-> "USE_HW_YES"]

(* vcard_emul_type_from_string: the whole string compared with "CAC".     *)
TypeFromString(s) ==
    IF s = <<"CAC">> THEN "VCARD_EMUL_CAC" ELSE "VCARD_EMUL_NONE"

(* The symbols a read at position p may see.                               *)
Avail(p) ==
    IF p <= Len(inp) THEN {inp[p]}
    ELSE IF Len(inp) < MaxLen THEN Syms \cup {NUL}
    ELSE {NUL}

(* Reading c at position p produces it if it was not there yet.            *)
Read(p, c) ==
    /\ c \in Avail(p)
    /\ inp' = IF p <= Len(inp) THEN inp ELSE Append(inp, c)

(* args = strip(args), then on to the point r.                             *)
CallStrip(p, r) == pos' = p /\ pc' = "strip" /\ ret' = r

Fail == pc' = "fail"

Init ==
    /\ inp = <<>>
    /\ pos = 1 /\ cur = 1
    /\ pc = "strip" /\ ret = "dispatch"
    /\ k = 0 /\ count = 0 /\ i = 0
    /\ options = DefaultOptions
    /\ readerCount = 0
-----------------------------------------------------------------------------
(* The do { ... } while ( *args != 0) loop and its dispatch on the option.  *)

Keywords == {"soft=", "use_hw=", "hw_type=", "hw_params=", "db=", "nssemul"}

(* strip: skip isspace characters, then go on at ret.                      *)
Strip ==
    /\ pc = "strip"
    /\ \E c \in Avail(pos) :
        /\ Read(pos, c)
        /\ \/ c \in Space /\ pos' = pos + 1 /\ UNCHANGED <<pc, cur>>
           \/ c \notin Space /\ pc' = ret /\ cur' = pos /\ UNCHANGED pos
    /\ UNCHANGED <<ret, k, count, i, options, readerCount>>

(* find_blank: skip to the next isspace character or the end.              *)
FindBlank ==
    /\ pc = "blank"
    /\ \E c \in Avail(pos) :
        /\ Read(pos, c)
        /\ \/ c \notin Space \cup {NUL} /\ pos' = pos + 1 /\ UNCHANGED pc
           \/ c \in Space \cup {NUL} /\ pc' = "cond" /\ UNCHANGED pos
    /\ UNCHANGED <<cur, ret, k, count, i, options, readerCount>>

(* while ( *args != 0): return opts at the end of the string.              *)
LoopCond ==
    /\ pc = "cond"
    /\ \E c \in Avail(pos) :
        /\ Read(pos, c)
        /\ \/ c = NUL /\ pc' = "done" /\ UNCHANGED <<pos, ret>>
           \/ c # NUL /\ CallStrip(pos, "dispatch")
    /\ UNCHANGED <<cur, k, count, i, options, readerCount>>

(* A ',' between options: continue.                                       *)
Comma ==
    /\ pc = "dispatch" /\ inp[pos] = ","
    /\ pos' = pos + 1 /\ pc' = "cond"
    /\ UNCHANGED <<inp, cur, ret, k, count, i, options, readerCount>>

Soft ==
    /\ pc = "dispatch" /\ inp[pos] = "soft="
    /\ k' = 1
    /\ CallStrip(pos + 1, "lparen")
    /\ UNCHANGED <<inp, cur, count, i, options, readerCount>>

(* if ( *args != '(') fail; args = strip(args+1).                           *)
LParen ==
    /\ pc = "lparen"
    /\ \/ inp[pos] # "(" /\ Fail /\ UNCHANGED <<pos, ret>>
       \/ inp[pos] = "(" /\ CallStrip(pos + 1, "token")
    /\ UNCHANGED <<inp, cur, k, count, i, options, readerCount>>

(* NEXT_TOKEN: strpbrk(args, ",)") one character per step; a token ended  *)
(* by ')' or by the end of the string fails.  The third token is the card *)
(* type, checked with vcard_emul_type_from_string; after the fourth come  *)
(* the certificates.                                                       *)
(* The token just read is the card type and names no type.               *)
BadType ==
    k = 3 /\ TypeFromString(SubSeq(inp, pos, cur - 1)) = "VCARD_EMUL_NONE"

NextToken ==
    /\ pc = "token"
    /\ \E c \in Avail(cur) :
        /\ Read(cur, c)
        /\ \/ c \notin {",", ")", NUL} /\ cur' = cur + 1
              /\ UNCHANGED <<pos, pc, ret, k>>
           \/ c \in {")", NUL} /\ Fail /\ UNCHANGED <<pos, cur, ret, k>>
           \/ c = "," /\ BadType /\ Fail /\ UNCHANGED <<pos, cur, ret, k>>
           \/ c = "," /\ ~BadType
              /\ k' = k + 1
              /\ CallStrip(cur + 1, IF k = 4 THEN "certs" ELSE "token")
              /\ UNCHANGED cur
    /\ UNCHANGED <<count, i, options, readerCount>>
(* No cert after the four tokens fails; otherwise opts->vreader grows by  *)
(* READER_STEP when full, and count_tokens starts on the certificates.    *)
Certs ==
    /\ pc = "certs"
    /\ \/ inp[pos] = NUL /\ Fail /\ UNCHANGED <<count, readerCount>>
       \/ inp[pos] # NUL /\ pc' = "count" /\ count' = 0
          /\ readerCount' = IF options.vreaderCount >= readerCount
                            THEN readerCount + READER_STEP ELSE readerCount
    /\ UNCHANGED <<inp, pos, cur, ret, k, i, options>>

(* count_tokens(args, ',', ')'): the ',' up to the first ')' or the end;  *)
(* the loop then reads that many certificates, plus one.                  *)
CountTokens ==
    /\ pc = "count"
    /\ \E c \in Avail(cur) :
        /\ Read(cur, c)
        /\ \/ c \notin {")", NUL} /\ cur' = cur + 1
              /\ count' = (IF c = "," THEN count + 1 ELSE count)
              /\ UNCHANGED <<pc, i>>
           \/ c \in {")", NUL} /\ count' = count + 1 /\ i' = 0
              /\ cur' = pos /\ pc' = "cert"
    /\ UNCHANGED <<pos, ret, k, options, readerCount>>

(* One certificate: args = strpbrk(args, ",)"), g_strndup(cert, args -   *)
(* cert), args = strip(args+1).  Nothing checks the strpbrk result: at   *)
(* the end of the string it is NULL and both uses of it are invalid.      *)
Cert ==
    /\ pc = "cert" /\ i < count
    /\ \E c \in Avail(cur) :
        /\ Read(cur, c)
        /\ \/ c \notin {",", ")", NUL} /\ cur' = cur + 1
              /\ UNCHANGED <<pos, pc, ret, i>>
           \/ c \in {",", ")"} /\ i' = i + 1 /\ CallStrip(cur + 1, "cert")
              /\ UNCHANGED cur
           \/ c = NUL /\ pc' = "crash" /\ UNCHANGED <<pos, cur, ret, i>>
    /\ UNCHANGED <<k, count, options, readerCount>>

(* After the last cert: skip a ')' and count the reader.                  *)
CertsDone ==
    /\ pc = "cert" /\ i = count
    /\ pos' = IF inp[pos] = ")" THEN pos + 1 ELSE pos
    /\ options' = [options EXCEPT !.vreaderCount = @ + 1]
    /\ pc' = "cond"
    /\ UNCHANGED <<inp, cur, ret, k, count, i, readerCount>>

UseHwOpt ==
    /\ pc = "dispatch" /\ inp[pos] = "use_hw="
    /\ CallStrip(pos + 1, "use_hw")
    /\ UNCHANGED <<inp, cur, k, count, i, options, readerCount>>

(* The first character decides: one of 0 N n F is no, "removable" is     *)
(* removable, anything else (the end of the string too) is yes.           *)
UseHwValue ==
    /\ pc = "use_hw"
    /\ options' = [options EXCEPT !.useHw =
                     CASE inp[pos] \in NoChars    -> "USE_HW_NO"
                       [] inp[pos] = "removable" -> "USE_HW_REMOVABLE"
                       [] OTHER                  -> "USE_HW_YES"]
    /\ pc' = "blank"
    /\ UNCHANGED <<inp, pos, cur, ret, k, count, i, readerCount>>

HwTypeOpt ==
    /\ pc = "dispatch" /\ inp[pos] = "hw_type="
    /\ CallStrip(pos + 1, "hw_type")
    /\ UNCHANGED <<inp, cur, k, count, i, options, readerCount>>

(* vcard_emul_type_from_string(args) is given the whole rest of the       *)
(* string, read here to its end; a type it does not name fails.           *)
HwTypeValue ==
    /\ pc = "hw_type"
    /\ \E c \in Avail(cur) :
        /\ Read(cur, c)
        /\ \/ c # NUL /\ cur' = cur + 1 /\ UNCHANGED <<pc, options>>
           \/ c = NUL /\ UNCHANGED cur
              /\ LET t == TypeFromString(SubSeq(inp, pos, cur - 1)) IN
                   \/ t = "VCARD_EMUL_NONE" /\ Fail /\ UNCHANGED options
                   \/ t # "VCARD_EMUL_NONE" /\ pc' = "blank"
                      /\ options' = [options EXCEPT !.hwCardType = t]
    /\ UNCHANGED <<pos, ret, k, count, i, readerCount>>
(* hw_params= a second time fails; otherwise the word up to the next     *)
(* blank becomes hw_type_params.                                           *)
HwParamsOpt ==
    /\ pc = "dispatch" /\ inp[pos] = "hw_params="
    /\ \/ options.hwTypeParams /\ Fail /\ UNCHANGED <<pos, ret>>
       \/ ~options.hwTypeParams /\ CallStrip(pos + 1, "hw_params")
    /\ UNCHANGED <<inp, cur, k, count, i, options, readerCount>>

HwParamsValue ==
    /\ pc = "hw_params"
    /\ options' = [options EXCEPT !.hwTypeParams = TRUE]
    /\ pc' = "blank"
    /\ UNCHANGED <<inp, pos, cur, ret, k, count, i, readerCount>>

(* db= a second time fails; the path must be quoted.                      *)
DbOpt ==
    /\ pc = "dispatch" /\ inp[pos] = "db="
    /\ \/ options.nssDb /\ Fail /\ UNCHANGED <<pos, ret>>
       \/ ~options.nssDb /\ CallStrip(pos + 1, "db")
    /\ UNCHANGED <<inp, cur, k, count, i, options, readerCount>>

DbQuote ==
    /\ pc = "db"
    /\ \/ inp[pos] # "\"" /\ Fail /\ UNCHANGED <<pos, cur>>
       \/ inp[pos] = "\"" /\ pos' = pos + 1 /\ cur' = pos + 1 /\ pc' = "db_path"
    /\ UNCHANGED <<inp, ret, k, count, i, options, readerCount>>

(* strpbrk(args, "\"\n"): the path ends at a quote or a newline; the end  *)
(* of the string fails.  The closing character is skipped.                *)
DbPath ==
    /\ pc = "db_path"
    /\ \E c \in Avail(cur) :
        /\ Read(cur, c)
        /\ \/ c \notin {"\"", "\n", NUL} /\ cur' = cur + 1
              /\ UNCHANGED <<pos, pc, options>>
           \/ c \in {"\"", "\n"} /\ pos' = cur + 1 /\ pc' = "cond"
              /\ options' = [options EXCEPT !.nssDb = TRUE] /\ UNCHANGED cur
           \/ c = NUL /\ Fail /\ UNCHANGED <<pos, cur, options>>
    /\ UNCHANGED <<ret, k, count, i, readerCount>>

(* nssemul: hw_type CAC and use_hw yes.                                    *)
NssEmul ==
    /\ pc = "dispatch" /\ inp[pos] = "nssemul"
    /\ options' = [options EXCEPT !.hwCardType = "VCARD_EMUL_CAC",
                                  !.useHw = "USE_HW_YES"]
    /\ pos' = pos + 1 /\ pc' = "blank"
    /\ UNCHANGED <<inp, cur, ret, k, count, i, readerCount>>

(* "Unknown smartcard specification".                                      *)
Unknown ==
    /\ pc = "dispatch" /\ inp[pos] \notin Keywords \cup {","}
    /\ Fail
    /\ UNCHANGED <<inp, pos, cur, ret, k, count, i, options, readerCount>>

Next ==
    \/ Strip \/ FindBlank \/ LoopCond
    \/ Comma \/ Soft \/ LParen \/ NextToken \/ Certs \/ CountTokens
    \/ Cert \/ CertsDone
    \/ UseHwOpt \/ UseHwValue \/ HwTypeOpt \/ HwTypeValue
    \/ HwParamsOpt \/ HwParamsValue \/ DbOpt \/ DbQuote \/ DbPath
    \/ NssEmul \/ Unknown

Spec == Init /\ [][Next]_vars

-----------------------------------------------------------------------------
Pcs == {"strip", "blank", "cond", "dispatch", "lparen", "token", "certs",
        "count", "cert", "use_hw", "hw_type", "hw_params", "db", "db_path",
        "done", "fail", "crash"}

TypeOK ==
    /\ inp \in Seq(Syms \cup {NUL}) /\ Len(inp) <= MaxLen + 1
    /\ pos \in 1 .. MaxLen + 2 /\ cur \in 1 .. MaxLen + 2
    /\ pc \in Pcs /\ ret \in Pcs
    /\ k \in 0 .. 5 /\ count \in Nat /\ i \in Nat
    /\ options \in [nssDb : BOOLEAN, vreaderCount : Nat, hwCardType : CardTypes,
                    hwTypeParams : BOOLEAN, useHw : UseHw]
    /\ readerCount \in Nat

(* vcard_emul_options ends on every string: it returns opts, or NULL      *)
(* through goto fail after a diagnostic.  NEXT_TOKEN checks strpbrk's     *)
(* result for NULL; the certificate loop of soft= uses it unchecked.      *)
NeverCrashes == pc # "crash"
====
