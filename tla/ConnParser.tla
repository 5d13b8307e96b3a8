----------------------------- MODULE ConnParser -----------------------------
(***************************************************************************)
(* The connection-dump parser of nat.py (_parse_kv, _parse_conns) and the  *)
(* check built on it (_check_nat_result), run against the conntrack table  *)
(* of a switch.  Text is a sequence of tokens: the delimiters "=", "(",   *)
(* ")", "," and NL, and words (keys, values, protocol names), each one     *)
(* token.  Python indices are 0-based; s[i] is s[i + 1] here.  A parsed    *)
(* dict is a sequence of <<key, value>> pairs in insertion order; a value  *)
(* is a record holding either a scalar string or a nested dict.            *)
(***************************************************************************)
EXTENDS Naturals, Sequences, FiniteSets

LOCAL INSTANCE SequencesExt

CONSTANTS
    Keys,       \* the field names the switch writes
    Vals,       \* the scalar values it writes
    Protos,     \* the leading protocol tokens
    NL,         \* the line terminator readlines() keeps
    MaxDepth,   \* deepest nesting of (key=value,...) groups in a line
    MaxWidth,   \* most key=value pairs in one group
    MaxConns    \* bound on the size of the conntrack table

Scalar(str) == [nest |-> FALSE, s |-> str, d |-> << >>]
Nest(dict)  == [nest |-> TRUE, s |-> << >>, d |-> dict]

---------------------------------------------------------------------------
(* Python string primitives on token sequences. *)
\* s.find(ch, from), -1 when absent.
Find(s, ch, from) ==
    LET hits == {i \in from..Len(s) - 1 : s[i + 1] = ch}
    IN IF hits = {} THEN -1 ELSE Min(hits)

\* s[a:b] for 0 <= a and b <= Len(s).
Slice(s, a, b) == IF a >= b THEN << >> ELSE SubSeq(s, a + 1, b)

\* kvs[key] = value: an existing key keeps its place.
DictSet(kvs, key, value) ==
    IF \E i \in 1..Len(kvs) : kvs[i][1] = key
    THEN [i \in 1..Len(kvs) |-> IF kvs[i][1] = key THEN <<key, value>> ELSE kvs[i]]
    ELSE Append(kvs, <<key, value>>)

\* kvs[key] for a key the dict holds.
DictGet(kvs, key) == kvs[CHOOSE i \in 1..Len(kvs) : kvs[i][1] = key][2]

(* The scalar branch of _parse_kv: "for c in s[cursor:]" advancing        *)
(* cursor_next until a ')' or ','; returns <<cursor_next, c>>.  Without a *)
(* delimiter the loop runs off the end with c the last character.        *)
\* Slip: the loop stops at ',' only.
ScanValueCommaOnly(s, cursor) ==
    LET stop == {i \in cursor..Len(s) - 1 : s[i + 1] = ","}
    IN IF stop = {} THEN <<Len(s), s[Len(s)]>>
       ELSE <<Min(stop) + 1, s[Min(stop) + 1]>>

ScanValue(s, cursor) ==
    LET stop == {i \in cursor..Len(s) - 1 : s[i + 1] \in {")", ","}}
    IN IF stop = {} THEN <<Len(s), s[Len(s)]>>
       ELSE <<Min(stop) + 1, s[Min(stop) + 1]>>

Done(kvs, cursor) == [kvs |-> kvs, cursor |-> cursor, err |-> "none"]
IndexError == [kvs |-> << >>, cursor |-> 0, err |-> "IndexError"]

(* _parse_kv(s): the while loop over '=' positions.  A '(' right after    *)
(* '=' recurses on the rest and advances by what the callee consumed;     *)
(* a scalar ends at ')' or ',' and a ')' ends this level.  s[cursor] on   *)
(* an '=' that ends the string raises IndexError.                          *)
RECURSIVE ParseKv(_)
ParseKv(s) ==
    LET \* the end of the loop body: stop at the end, skip one ',', find '='
        After(cursor) ==
            IF cursor >= Len(s) THEN <<TRUE, cursor, -1>>
            ELSE LET c == IF s[cursor + 1] = "," THEN cursor + 1 ELSE cursor
                 IN <<FALSE, c, Find(s, "=", c)>>
        RECURSIVE Loop(_, _, _)
        Loop(kvs, cursor, cursorNext) ==
            IF cursorNext = -1 THEN Done(kvs, cursor)
            ELSE LET key == Slice(s, cursor, cursorNext)
                     c1  == cursorNext + 1
                 IN IF c1 >= Len(s) THEN IndexError
                    ELSE IF s[c1 + 1] = "("
                    THEN LET inner == ParseKv(SubSeq(s, c1 + 2, Len(s)))
                             c2    == c1 + 1 + inner.cursor
                             kvs2  == DictSet(kvs, key, Nest(inner.kvs))
                             a     == After(c2)
                         IN IF inner.err # "none" THEN inner
                            ELSE IF a[1] THEN Done(kvs2, c2)
                            ELSE Loop(kvs2, a[2], a[3])
                    ELSE LET sc   == ScanValue(s, c1)
                             kvs2 == DictSet(kvs, key, Scalar(Slice(s, c1, sc[1] - 1)))
                             a    == After(sc[1])
                         IN IF sc[2] = ")" THEN Done(kvs2, sc[1])
                            ELSE IF a[1] THEN Done(kvs2, sc[1])
                            ELSE Loop(kvs2, a[2], a[3])
    IN Loop(<< >>, 0, Find(s, "=", 0))

(* buf.readlines(): the lines of the text, each keeping its NL. *)
ReadLines(text) ==
    LET ends == {i \in 1..Len(text) : text[i] = NL} \cup
                (IF text # << >> /\ text[Len(text)] # NL THEN {Len(text)} ELSE {})
        cuts == SetToSortSeq(ends, LAMBDA x, y : x < y)
    IN [k \in 1..Len(cuts) |-> SubSeq(text, IF k = 1 THEN 1 ELSE cuts[k - 1] + 1, cuts[k])]

ProtoKey == <<"proto">>

(* _parse_conns: the protocol is the text before the first ',' (with no  *)
(* ',' at all, line[0:-1]); the rest is parsed by _parse_kv and the      *)
(* protocol stored under 'proto'.                                         *)
ProtoOf(line, cursor) ==
    IF cursor = -1 THEN SubSeq(line, 1, Len(line) - 1) ELSE Slice(line, 0, cursor)

ParseConn(line) ==
    LET cursor == Find(line, ",", 0)
        r      == ParseKv(SubSeq(line, cursor + 2, Len(line)))
    IN [err  |-> r.err,
        conn |-> DictSet(r.kvs, ProtoKey, Scalar(ProtoOf(line, cursor)))]

ParseConns(text) == [i \in 1..Len(ReadLines(text)) |-> ParseConn(ReadLines(text)[i])]

---------------------------------------------------------------------------
(* What `ovs-appctl dpctl/dump-conntrack -m` prints for a connection:    *)
(* the protocol, then its fields as key=value, a tuple as a (...) group. *)
RECURSIVE RenderKv(_)
RenderKv(kvs) ==
    LET Item(kv) == kv[1] \o <<"=">> \o
                    (IF kv[2].nest THEN <<"(">> \o RenderKv(kv[2].d) \o <<")">>
                     ELSE kv[2].s)
    IN FoldLeft(LAMBDA acc, i : acc \o (IF i = 1 THEN << >> ELSE <<",">>) \o Item(kvs[i]),
                << >>, [i \in 1..Len(kvs) |-> i])

Line(e) == <<e.proto, ",">> \o RenderKv(e.fields) \o <<NL>>

Dump(tbl) == FoldLeft(LAMBDA acc, e : acc \o Line(e), << >>, tbl)

\* The groups of at most MaxWidth distinct keys, nested at most d deep.
RECURSIVE Groups(_)
Groups(d) ==
    LET V == {Scalar(<<v>>) : v \in Vals} \cup
             (IF d = 0 THEN {} ELSE {Nest(g) : g \in Groups(d - 1)})
    IN UNION {{kvs \in [1..n -> {<<k>> : k \in Keys} \X V] :
                  \A i, j \in 1..n : i # j => kvs[i][1] # kvs[j][1]} : n \in 1..MaxWidth}

Conn == [proto : Protos, fields : Groups(MaxDepth)]

---------------------------------------------------------------------------
VARIABLES
    table,      \* the datapath conntrack table, in dump order
    checked     \* the last _check_nat_result: [exp, proto, outcome]

vars == <<table, checked>>

Init ==
    /\ table = << >>
    /\ checked = [exp |-> 0, proto |-> "none", outcome |-> "none"]

(* The datapath commits a connection (traffic, outside the library). *)
Commit(e) ==
    /\ Len(table) < MaxConns
    /\ table' = Append(table, e)
    /\ UNCHANGED checked

(* flush_conntrack_on_all_suts: dpctl/flush-conntrack. *)
FlushConntrack ==
    /\ table' = << >>
    /\ UNCHANGED checked

(* _check_nat_result(sut, exp_conn_num, proto): dump, parse, count the   *)
(* connections of proto (all of them for a false proto), raise           *)
(* RuntimeError on a mismatch; an exception of the parser propagates.    *)
CheckNatResult(exp, proto) ==
    LET conns == ParseConns(Dump(table))
        live  == Cardinality({i \in DOMAIN conns :
                     proto = "none" \/ DictGet(conns[i].conn, ProtoKey).s = <<proto>>})
    IN /\ checked' = [exp |-> exp, proto |-> proto,
                      outcome |-> IF \E i \in DOMAIN conns : conns[i].err # "none"
                                  THEN "IndexError"
                                  ELSE IF live # exp THEN "RuntimeError" ELSE "ok"]
       /\ UNCHANGED table

Next ==
    \/ \E e \in Conn : Commit(e)
    \/ FlushConntrack
    \/ \E exp \in 0..MaxConns, proto \in Protos \cup {"none"} : CheckNatResult(exp, proto)

Spec == Init /\ [][Next]_vars

---------------------------------------------------------------------------
(* Spec 4.5: _parse_conns gives back, line by line, the connection the   *)
(* switch dumped: its protocol under 'proto' and every key=value with   *)
(* its scalar or nested value.  Claimed for the tables dpctl/dump-       *)
(* conntrack prints: groups one deep (orig=(...), reply=(...),           *)
(* protoinfo=(...)), every line ended by the newline readlines() keeps,  *)
(* which the value scan's cursor_next - 1 strips from the last value.    *)
(* Deeper nesting is not claimed: see the README's observations.         *)
ParsesTable ==
    LET conns == ParseConns(Dump(table))
    IN /\ Len(conns) = Len(table)
       /\ \A i \in 1..Len(table) :
            /\ conns[i].err = "none"
            /\ conns[i].conn = Append(table[i].fields, <<ProtoKey, Scalar(<<table[i].proto>>)>>)

=============================================================================
