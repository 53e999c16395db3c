---------------------------------- MODULE Types ----------------------------------
(***************************************************************************)
(* The CQL types a session knows (types.go) and the type names it parses   *)
(* (types.go, and the TypeInfoFromString of marshal.go and vector.go).     *)
(*                                                                         *)
(* A type name is a sequence of lexemes: names, the punctuation the code   *)
(* looks for, and Prefix for "org.apache.cassandra.db.marshal.".  A        *)
(* TypeInfo is a record with the same fields for every type.  The scalar   *)
(* types are those in Scalars: the code treats the others alike.           *)
(***************************************************************************)
EXTENDS Integers, Sequences, SequencesExt, FiniteSets

CONSTANTS NewTypes,      \* the ids a program may register types for
          NewNames,      \* the names it may register, or add as aliases
          MaxRegistrations \* bound on those calls

VARIABLES byType,        \* r.byType: the implementation of a type id
          byString,      \* r.byString: the type id of a name
          custom,        \* r.custom: the implementation of a custom type
          given,         \* the implementation the program asked for under each name
          registrations, \* how many such calls were made
          asked,         \* the type whose name the session parses, and the form of it
          info           \* what the session made of the name

typesVars == <<byType, byString, custom, given, registrations, asked, info>>

Prefix == "org.apache.cassandra.db.marshal."
Scalars == {"int", "varchar", "timestamp", "uuid"}
Composites == {"list", "set", "map", "tuple", "udt"}
TypeCustom == "custom"

Info(t, elems) == [t |-> t, elems |-> elems, names |-> <<>>, ks |-> "", name |-> "", dim |-> 0]
NoInfo == Info("error", <<>>)
NotAsked == [type |-> NoInfo, form |-> "none"]

\* The implementation of a type: of a default one its own name.
Impls == {"mine", "other"}
EmptyMap == [x \in {} |-> ""]
Put(f, k, v) == [x \in DOMAIN f \cup {k} |-> IF x = k THEN v ELSE f[x]]

--------------------------------------------------------------------------------
(* Registration *)

\* addDefaultTypes: the java class of each type is an alias of its name.
Aliases ==
  [Int32Type |-> "int", UTF8Type |-> "varchar", TimestampType |-> "timestamp",
   DateType |-> "timestamp", UUIDType |-> "uuid", LexicalUUIDType |-> "uuid",
   ListType |-> "list", SetType |-> "set", MapType |-> "map", TupleType |-> "tuple",
   UserType |-> "udt"]

DefaultByType == [t \in Scalars \cup Composites |-> t]
DefaultByString ==
  [n \in Scalars \cup Composites \cup DOMAIN Aliases \cup {"vector", "VectorType"} |->
     CASE n \in Scalars \cup Composites -> n
       [] n \in DOMAIN Aliases -> Aliases[n]
       [] OTHER -> TypeCustom]
DefaultCustom == [n \in {"vector", "VectorType"} |-> "vector"]

\* strings.TrimPrefix(name, apacheCassandraTypePrefix), for the names used here.
WithPrefix ==
  LET names == NewNames \cup DOMAIN DefaultByString
  IN [long \in {Prefix \o n : n \in names} |-> CHOOSE n \in names : long = Prefix \o n]
Trimmed(name) == IF name \in DOMAIN WithPrefix THEN WithPrefix[name] ELSE name

\* GlobalTypes, or a RegisteredTypes of the program's own, which starts empty.
TypesInit ==
  /\ \/ byType = DefaultByType /\ byString = DefaultByString /\ custom = DefaultCustom
     \/ byType = EmptyMap /\ byString = EmptyMap /\ custom = EmptyMap
  /\ given = EmptyMap /\ registrations = 0 /\ asked = NotAsked /\ info = NoInfo

\* Types may be registered until a session is created.
Called ==
  /\ asked = NotAsked
  /\ registrations < MaxRegistrations /\ registrations' = registrations + 1
  /\ UNCHANGED <<asked, info>>

\* RegisterType and RegisterCustom take the name as it is.
RegisterType ==
  /\ Called
  /\ \E typ \in NewTypes, name \in NewNames, t \in Impls :
       /\ IF typ = TypeCustom \/ typ \in DOMAIN byType \/ name \in DOMAIN byString
          THEN UNCHANGED <<byType, byString, given>>
          ELSE /\ byType' = Put(byType, typ, t)
               /\ byString' = Put(byString, name, typ)
               /\ given' = Put(given, name, t)
       /\ UNCHANGED custom

RegisterCustom ==
  /\ Called
  /\ \E name \in NewNames, t \in Impls :
       IF name \in DOMAIN custom \cup DOMAIN byString
       THEN UNCHANGED <<byString, custom, given>>
       ELSE /\ custom' = Put(custom, name, t)
            /\ byString' = Put(byString, name, TypeCustom)
            /\ given' = Put(given, name, t)
  /\ UNCHANGED byType

\* registerAlias trims both names.
AliasIn(cust, name, as) == IF as \in DOMAIN cust THEN Put(cust, name, cust[as]) ELSE cust
AddAlias ==
  /\ Called
  /\ \E name, as \in {Trimmed(n) : n \in NewNames} :
       IF name \in DOMAIN byString \/ as \notin DOMAIN byString
       THEN UNCHANGED <<byString, custom, given>>
       ELSE /\ custom' = AliasIn(custom, name, as)
            /\ byString' = Put(byString, name, byString[as])
            /\ given' = (IF as \in DOMAIN given THEN Put(given, name, given[as]) ELSE given)
  /\ UNCHANGED byType

--------------------------------------------------------------------------------
(* Lookup *)

\* fastTypeInfoLookup and fastRegisteredTypeLookup: the scalar types are not looked
\* up in the map.
fastRegisteredTypeLookup(typ) ==
  IF typ \in Scalars THEN typ
  ELSE IF typ \in DOMAIN byType THEN byType[typ] ELSE "none"

\* getType: a name that is not registered may still be that of a custom type.
getType(classOrName) ==
  LET name == Trimmed(classOrName)
      typ == IF name \in DOMAIN byString THEN byString[name] ELSE TypeCustom
  IN IF typ # TypeCustom THEN fastRegisteredTypeLookup(typ)
     ELSE IF name \in DOMAIN custom THEN custom[name] ELSE "none"

--------------------------------------------------------------------------------
(* Parsing a type name *)

Has(name, x) == \E i \in DOMAIN name : name[i] = x
Index(name, x) == SelectInSeq(name, LAMBDA y : y = x)
LastIndex(name, x) == SelectLastInSeq(name, LAMBDA y : y = x)
TrimPrefix(name) == IF name # <<>> /\ name[1] = Prefix THEN Tail(name) ELSE name
TrimSpace(name) ==
  IF \A i \in DOMAIN name : name[i] = " " THEN <<>>
  ELSE SubSeq(name, SelectInSeq(name, LAMBDA y : y # " "), SelectLastInSeq(name, LAMBDA y : y # " "))

\* splitCompositeTypes: at every comma of a name without brackets, and else at the
\* commas outside the brackets of the kind met first.
CommaStep(acc, ch) ==
  IF ch = "," THEN [acc EXCEPT !.parts = Append(@, TrimSpace(acc.segment)), !.segment = <<>>]
  ELSE [acc EXCEPT !.segment = Append(@, ch)]

MutBracketStep(acc, ch) == CommaStep(acc, ch)
BracketStep(acc, ch) ==
  IF ch = "," /\ acc.less = 0
  THEN IF acc.segment = <<>> THEN acc ELSE CommaStep(acc, ch)
  ELSE [acc EXCEPT
          !.segment = Append(@, ch),
          !.open = IF @ = "" /\ ch \in {"<", "("} THEN ch ELSE @,
          !.less = CASE ch \in {"<", "("} /\ acc.open \in {"", ch} -> @ + 1
                     [] \/ acc.open = "<" /\ ch = ">"
                        \/ acc.open = "(" /\ ch = ")" -> @ - 1
                     [] OTHER -> @]

splitCompositeTypes(name) ==
  LET start == [parts |-> <<>>, segment |-> <<>>, open |-> "", less |-> 0]
      last(acc) == Append(acc.parts, TrimSpace(acc.segment))
      rest(acc) == IF acc.segment = <<>> THEN acc.parts ELSE last(acc)
  IN IF ~Has(name, "(") /\ ~Has(name, "<") THEN last(FoldLeft(CommaStep, start, name))
     ELSE rest(FoldLeft(BracketStep, start, name))

\* hex.DecodeString and strconv.Atoi, of the names and numbers used here.  A string
\* they cannot decode gives "" and 0: the code drops their errors.
HexOf(n) == "0x" \o n
DecodeString(h, names) == IF \E n \in names : HexOf(n) = h THEN CHOOSE n \in names : HexOf(n) = h ELSE ""
Atoi(part) == CASE part = <<"2">> -> 2 [] part = <<"3">> -> 3 [] OTHER -> 0
FieldNames == {"a", "b", "u"}

Word(part) == IF Len(part) = 1 THEN part[1] ELSE ""

RECURSIVE typeInfoFromString(_)

\* Several parts, each a type name; an error of one is the error of all.
AllOf(t, elems) == IF \E i \in DOMAIN elems : elems[i] = NoInfo THEN NoInfo ELSE Info(t, elems)
Elems(t, parts) == AllOf(t, [i \in DOMAIN parts |-> typeInfoFromString(parts[i])])

\* udtCQLType.TypeInfoFromString: keyspace, hex(name), then hex(field):type.
FieldName(f) == DecodeString(Word(SubSeq(f, 1, Index(f, ":") - 1)), FieldNames)
FieldType(f) == SubSeq(f, Index(f, ":") + 1, Len(f))
UDTOf(typed, ks, name, fields) ==
  IF typed = NoInfo THEN NoInfo
  ELSE [typed EXCEPT !.ks = Word(ks), !.name = DecodeString(Word(name), FieldNames),
                     !.names = [i \in DOMAIN fields |-> FieldName(fields[i])]]
UDTFromString(params, parts) ==
  LET fields == SubSeq(parts, 3, Len(parts))
  IN CASE ~Has(params, ":") -> Elems("udt", parts)
       [] Len(parts) < 3 -> NoInfo
       [] OTHER -> UDTOf(Elems("udt", [i \in DOMAIN fields |-> FieldType(fields[i])]),
                         parts[1], parts[2], fields)

VectorFromString(parts) ==
  LET sized(sub) == IF sub = NoInfo THEN NoInfo ELSE [sub EXCEPT !.dim = Atoi(parts[2])]
  IN IF Len(parts) # 2 THEN NoInfo ELSE sized(Elems("vector", SubSeq(parts, 1, 1)))

\* CQLType.TypeInfoFromString, for params and the parts they split into; a scalar type
\* takes no notice of its parameters.
FromParams(impl, params, parts) ==
  CASE impl = "none" -> NoInfo
    [] impl \in {"list", "set"} -> Elems(impl, <<params>>)
    [] impl = "map" -> IF Len(parts) = 2 THEN Elems("map", parts) ELSE NoInfo
    [] impl = "tuple" -> Elems("tuple", parts)
    [] impl = "udt" -> UDTFromString(params, parts)
    [] impl = "vector" -> VectorFromString(parts)
    [] OTHER -> Info(impl, <<>>)

\* What precedes the first opening bracket and what lies between it and the last
\* closing one.
Before(name, open) == IF Has(name, open) THEN SubSeq(name, 1, Index(name, open) - 1) ELSE name
Params(name, open, close) ==
  IF Has(name, open) THEN SubSeq(name, Index(name, open) + 1, LastIndex(name, close) - 1) ELSE <<>>

Parsed(base, params) == FromParams(getType(Word(base)), params, splitCompositeTypes(params))

typeInfoFromJavaString(fullName) ==
  LET parsed(name) == IF Has(name, "(") /\ ~Has(name, ")") THEN NoInfo
                      ELSE Parsed(Before(name, "("), Params(name, "(", ")"))
  IN parsed(TrimPrefix(fullName))

typeInfoFromString(name) ==
  CASE (name # <<>> /\ name[1] = Prefix) \/ (~Has(name, "<") /\ Has(name, "(")) ->
         typeInfoFromJavaString(name)
    [] Has(name, "<") /\ ~Has(name, ">") -> NoInfo
    [] Has(name, "<") /\ Before(name, "<") = <<"frozen">> -> typeInfoFromString(Params(name, "<", ">"))
    [] OTHER -> Parsed(Before(name, "<"), Params(name, "<", ">"))

--------------------------------------------------------------------------------
(* The server's names of a type, and a session that asks for one *)

\* Parts with the separator between them.
Interpose(parts, sep) ==
  FoldLeft(LAMBDA acc, p : IF acc = <<>> THEN p ELSE acc \o sep \o p, <<>>, parts)

Digits(n) == IF n = 2 THEN "2" ELSE "3"

\* In CQL, where a nested type may be frozen and a user type has only its name.
RECURSIVE CqlName(_)
CqlName(t) ==
  LET parts == [i \in DOMAIN t.elems |-> CqlName(t.elems[i])]
      args == IF t.t = "vector" THEN Append(parts, <<Digits(t.dim)>>) ELSE parts
      name == <<t.t, "<">> \o Interpose(args, <<",", " ">>) \o <<">">>
  IN IF t.elems = <<>> THEN <<t.t>>
     ELSE IF t.t = "vector" THEN name ELSE <<"frozen", "<">> \o name \o <<">">>

JavaClass(t) == IF t = "vector" THEN "VectorType" ELSE CHOOSE c \in DOMAIN Aliases : Aliases[c] = t

RECURSIVE JavaName(_)
JavaName(t) ==
  LET part(i) == IF t.t = "udt" THEN <<HexOf(t.names[i]), ":">> \o JavaName(t.elems[i])
                 ELSE JavaName(t.elems[i])
      parts == [i \in DOMAIN t.elems |-> part(i)]
      args == CASE t.t = "vector" -> Append(parts, <<" ", Digits(t.dim)>>)
                [] t.t = "udt" -> << <<t.ks>>, <<HexOf(t.name)>> >> \o parts
                [] OTHER -> parts
  IN <<Prefix, JavaClass(t.t)>> \o
     IF t.elems = <<>> THEN <<>> ELSE <<"(">> \o Interpose(args, <<",">>) \o <<")">>

RECURSIVE HasUDT(_)
HasUDT(t) == t.t = "udt" \/ \E i \in DOMAIN t.elems : HasUDT(t.elems[i])

\* The types over some element types.
Over(S) ==
  {Info(t, <<e>>) : t \in {"list", "set", "tuple"}, e \in S}
    \cup {Info(t, <<e, f>>) : t \in {"map", "tuple"}, e \in S, f \in S}
    \cup {[Info("udt", <<e, f>>) EXCEPT !.ks = "ks", !.name = "u", !.names = <<"a", "b">>] :
            e \in S, f \in S}
    \cup {[Info("vector", <<e>>) EXCEPT !.dim = 3] : e \in S}

Simple == {Info(t, <<>>) : t \in {"int", "varchar"}}
Nested == {Info("map", <<Info("int", <<>>), Info("varchar", <<>>)>>),
           [Info("udt", <<Info("varchar", <<>>)>>) EXCEPT !.ks = "ks", !.name = "u", !.names = <<"b">>],
           [Info("vector", <<Info("int", <<>>)>>) EXCEPT !.dim = 2]}
AskableTypes == Simple \cup Over(Simple \cup Nested)

\* A column, field, argument or custom type whose name a session parses.
Ask ==
  /\ asked = NotAsked
  /\ \E t \in AskableTypes, form \in {"cql", "java"} :
       /\ form = "cql" => ~HasUDT(t)
       /\ asked' = [type |-> t, form |-> form]
       /\ info' = typeInfoFromString(IF form = "cql" THEN CqlName(t) ELSE JavaName(t))
  /\ UNCHANGED <<byType, byString, custom, given, registrations>>

TypesNext == RegisterType \/ RegisterCustom \/ AddAlias \/ Ask

--------------------------------------------------------------------------------
(* Properties *)

\* Whatever a program registers before the session, a name of a type built from the
\* default ones, in CQL or as Java classes and nested in any way, is parsed into that
\* type (typeInfoFromString, splitCompositeTypes, the TypeInfoFromString methods), and
\* every name that is registered leads to an implementation, the one it was registered
\* or aliased for (registerType, registerCustom, registerAlias, getType).  One exception:
\* a name that RegisterType or RegisterCustom was given with the prefix of the Java
\* classes is kept with it, and getType, which drops the prefix, looks for another name:
\* what it finds is what the name without the prefix leads to, if anything.
NamesResolve ==
  /\ asked # NotAsked /\ DOMAIN DefaultByString \subseteq DOMAIN byString => info = asked.type
  /\ \A n \in DOMAIN byString :
       \/ /\ getType(n) # "none"
          /\ n \in DOMAIN given /\ byString[n] \notin Scalars => getType(n) = given[n]
       \/ Trimmed(n) # n /\ getType(n) = getType(Trimmed(n))

==================================================================================
