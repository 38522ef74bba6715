------------------------------ MODULE StringLib -----------------------------
(***************************************************************************)
(* The string functions of include/timix/string-impl.h, called one after   *)
(* the other on two buffers.  A pointer is an index of the memory, a       *)
(* character a small number, NUL is 0.  A delimiter string is the set of   *)
(* its characters.                                                         *)
(***************************************************************************)
EXTENDS Integers, Sequences, FiniteSets

CONSTANTS
  SIZE,   \* the size of a buffer
  Chars,  \* the characters; 0 is one of them
  Delims, \* the sets of delimiters that strtok is called with
  NULL

ASSUME StringAssumption ==
  /\ SIZE \in Nat \ {0}
  /\ Chars \subseteq Int /\ 0 \in Chars
  /\ \A d \in Delims : d \subseteq Chars \ {0}
  /\ NULL \notin Int

VARIABLES
  mem,  \* the two buffers
  tok,  \* the static variable of _strtok
  last, \* the last call
  ret,  \* and what it returned
  panicked

vars == <<mem, tok, last, ret, panicked>>

\* What the next calls depend on.
View == <<mem, tok, panicked>>

Buffers == {0, SIZE}
Addresses == 0..(2 * SIZE - 1)
Other(p) == SIZE - p

\* Each buffer holds a string, and anything after it.
HasString(m, p) == \E i \in p..(p + SIZE - 1) : m[i] = 0

Init ==
  /\ mem \in {m \in [Addresses -> Chars] : \A p \in Buffers : HasString(m, p)}
  /\ tok = NULL
  /\ last = [op |-> "none"]
  /\ ret = NULL
  /\ panicked = FALSE

-----------------------------------------------------------------------------
(* Faulty variants of the functions below: each breaks a property.         *)

\* Ends before the NUL is copied.
RECURSIVE CopiesNoNul(_, _, _)
CopiesNoNul(m, dest, src) ==
  IF m[src] = 0 THEN <<m, dest>>
                ELSE CopiesNoNul([m EXCEPT ![dest] = m[src]], dest + 1, src + 1)

\* Does not stop at the end of two equal strings.
RECURSIVE ComparesOn(_, _, _)
ComparesOn(m, s1, s2) ==
  IF m[s1] = m[s2] /\ s1 + 1 \in Addresses /\ s2 + 1 \in Addresses
  THEN ComparesOn(m, s1 + 1, s2 + 1) ELSE m[s1] - m[s2]

\* Takes the delimiter after a token for its last character.
RECURSIVE EndsTooLate(_, _, _)
EndsTooLate(m, p, delim) ==
  IF m[p] \in delim \/ m[p] = 0 \/ p + 2 \notin Addresses
  THEN p + 1 ELSE EndsTooLate(m, p + 1, delim)

-----------------------------------------------------------------------------
(* The functions, loop by loop.                                            *)

RECURSIVE _strlen(_, _)
_strlen(m, s) == IF m[s] # 0 THEN 1 + _strlen(m, s + 1) ELSE 0

\* The memory after the copy, and the pointer past what was written.
RECURSIVE _strcpy(_, _, _)
_strcpy(m, dest, src) ==
  LET w == [m EXCEPT ![dest] = m[src]] IN
  IF m[src] # 0 THEN _strcpy(w, dest + 1, src + 1) ELSE <<w, dest + 1>>

_strcat(m, str1, str2) == _strcpy(m, str1 + _strlen(m, str1), str2)

\* Compares i with n after a character is copied.
RECURSIVE CopyUpTo(_, _, _, _, _)
CopyUpTo(m, dest, src, i, n) ==
  LET w == [m EXCEPT ![dest] = m[src]] IN
  IF m[src] # 0 /\ i < n THEN CopyUpTo(w, dest + 1, src + 1, i + 1, n)
                         ELSE <<w, dest + 1>>

_strncpy(m, dest, src, n) == CopyUpTo(m, dest, src, 0, n)

RECURSIVE _strcmp(_, _, _)
_strcmp(m, s1, s2) ==
  IF m[s1] = m[s2] /\ m[s1] # 0 THEN _strcmp(m, s1 + 1, s2 + 1) ELSE m[s1] - m[s2]

\* Does not look for a NUL.
RECURSIVE _strncmp(_, _, _, _)
_strncmp(m, s1, s2, n) ==
  IF m[s1] = m[s2] /\ n > 0 THEN _strncmp(m, s1 + 1, s2 + 1, n - 1)
                            ELSE m[s1] - m[s2]

RECURSIVE _memset(_, _, _, _)
_memset(m, to, c, len) ==
  IF len > 0 THEN _memset([m EXCEPT ![to] = c], to + 1, c, len - 1) ELSE m

RECURSIVE _strchr(_, _, _)
_strchr(m, s, c) ==
  IF m[s] = 0 THEN NULL ELSE IF m[s] = c THEN s ELSE _strchr(m, s + 1, c)

\* The first character that is no delimiter.
RECURSIVE FindToken(_, _, _)
FindToken(m, p, delim) == IF m[p] \in delim THEN FindToken(m, p + 1, delim) ELSE p

\* The end of the token: the first delimiter, or else the NUL, after its first
\* character.
RECURSIVE FindEnd(_, _, _)
FindEnd(m, p, delim) ==
  IF m[p + 1] \in delim \/ m[p + 1] = 0 THEN p + 1 ELSE FindEnd(m, p + 1, delim)

\* The memory, the static variable and the result.
_strtok(m, p, delim) ==
  IF p = NULL THEN <<m, NULL, NULL>>
  ELSE LET start == FindToken(m, p, delim)
           end == FindEnd(m, start, delim)
       IN IF m[end] = 0 THEN <<m, NULL, start>>
                        ELSE <<[m EXCEPT ![end] = 0], end + 1, start>>

-----------------------------------------------------------------------------
(* The calls, with arguments for which the function stays in the buffers.  *)

Answers(op, args, val) ==
  /\ ~panicked
  /\ last' = [op |-> op, args |-> args]
  /\ ret' = val
  /\ UNCHANGED panicked

\* A function that only looks.
Looks(op, args, val) == Answers(op, args, val) /\ UNCHANGED <<mem, tok>>

\* A function that writes result[1] and returns result[2].
Writes(op, args, result) ==
  Answers(op, args, result[2]) /\ mem' = result[1] /\ UNCHANGED tok

strlen == \E s \in Buffers : Looks("strlen", <<s>>, _strlen(mem, s))

strcpy ==
  \E dest \in Buffers :
    Writes("strcpy", <<dest, Other(dest)>>, _strcpy(mem, dest, Other(dest)))

strcat ==
  \E dest \in Buffers :
    /\ _strlen(mem, dest) + _strlen(mem, Other(dest)) < SIZE
    /\ Writes("strcat", <<dest, Other(dest)>>, _strcat(mem, dest, Other(dest)))

\* The buffer keeps a NUL for the calls after this one.
strncpy ==
  \E dest \in Buffers, n \in 0..SIZE :
    LET result == _strncpy(mem, dest, Other(dest), n) IN
    /\ HasString(result[1], dest)
    /\ Writes("strncpy", <<dest, Other(dest), n>>, result)

strcmp == Looks("strcmp", <<0, SIZE>>, _strcmp(mem, 0, SIZE))

strncmp ==
  \E n \in 0..(SIZE - 1) : Looks("strncmp", <<0, SIZE, n>>, _strncmp(mem, 0, SIZE, n))

memset ==
  \E to \in Buffers, c \in Chars, len \in 0..(SIZE - 1) :
    LET m == _memset(mem, to, c, len) IN
    /\ HasString(m, to)
    /\ Writes("memset", <<to, c, len>>, <<m, to>>)

strchr ==
  \E s \in Buffers, c \in Chars : Looks("strchr", <<s, c>>, _strchr(mem, s, c))

\* A pair of addresses from p on where _strtok finds a start and an end.
Reaches(p, delim) ==
  \E i \in Addresses : i >= p /\ mem[i] \notin delim
                       /\ \E j \in Addresses : j > i /\ mem[j] \in delim \cup {0}

\* With nothing but delimiters before the NUL, the search goes on behind it.
strtok ==
  \E str \in Buffers \cup {NULL}, delim \in Delims :
    LET from == IF str = NULL THEN tok ELSE str
        result == _strtok(mem, from, delim)
    IN /\ (IF from = NULL THEN TRUE ELSE Reaches(from, delim))
       /\ Answers("strtok", <<from, delim>>, result[3])
       /\ mem' = result[1]
       /\ tok' = result[2]

\* Like the rest of the heap, malloc is not implemented: its assertion fails,
\* and panic spins for ever.
malloc == ~panicked /\ panicked' = TRUE /\ UNCHANGED <<mem, tok, last, ret>>
panic == panicked /\ UNCHANGED vars
strdup == malloc

Next ==
  \/ strlen \/ strcpy \/ strcat \/ strncpy \/ strcmp \/ strncmp
  \/ memset \/ strchr \/ strtok \/ strdup \/ panic

Spec == Init /\ [][Next]_vars

-----------------------------------------------------------------------------
(* What the functions are to compute, of whole strings.                    *)

\* The string at p, without its NUL.
StringAt(m, p) ==
  LET len == CHOOSE n \in 0..(2 * SIZE - 1 - p) :
               m[p + n] = 0 /\ \A i \in 0..(n - 1) : m[p + i] # 0
  IN [i \in 1..len |-> m[p + i - 1]]

\* m with the characters of s from p on.
Put(m, p, s) ==
  [a \in Addresses |-> IF a - p + 1 \in DOMAIN s THEN s[a - p + 1] ELSE m[a]]

Prefix(s, n) == SubSeq(s, 1, IF Len(s) < n THEN Len(s) ELSE n)

Precedes(s, t) ==
  \E n \in 0..Len(s) :
    /\ n < Len(t) /\ SubSeq(s, 1, n) = SubSeq(t, 1, n)
    /\ n < Len(s) => s[n + 1] < t[n + 1]

\* x is what a comparison of s and t returns.
Compares(x, s, t) == (x < 0) = Precedes(s, t) /\ (x = 0) = (s = t)

Called(op) == ~panicked' /\ last'.op = op
Arg(i) == last'.args[i]

-----------------------------------------------------------------------------
(* Properties.                                                             *)

\* strlen, strcmp and strchr find what they are to find, and strncmp what it is
\* to find where the strings differ before the n-th character: where they do
\* not, it looks at the n-th itself, and where they end before it, on behind
\* their ends.
SearchesAgree ==
  [][ LET s == StringAt(mem, 0)  t == StringAt(mem, SIZE) IN
      /\ Called("strlen") => ret' = Len(StringAt(mem, Arg(1)))
      /\ Called("strcmp") => Compares(ret', s, t)
      /\ Called("strncmp") /\ Prefix(s, Arg(3)) # Prefix(t, Arg(3)) =>
           Compares(ret', Prefix(s, Arg(3)), Prefix(t, Arg(3)))
      /\ Called("strchr") =>
           LET u == StringAt(mem, Arg(1))
               Places == {i \in DOMAIN u : u[i] = Arg(2)}
           IN IF Places = {} THEN ret' = NULL
              ELSE /\ ret' - Arg(1) + 1 \in Places
                   /\ \A i \in Places : ret' - Arg(1) + 1 <= i
    ]_vars

\* strcpy, strcat and memset write what they are to write and nothing else.
\* strncpy writes the string with its NUL if that has at most n + 1 characters,
\* and otherwise the first n + 1 characters and no NUL: one more than it was
\* given.
CopiesExactly ==
  [][ /\ Called("strcpy") =>
           mem' = Put(mem, Arg(1), Append(StringAt(mem, Arg(2)), 0))
      /\ Called("strcat") =>
           mem' = Put(mem, Arg(1), StringAt(mem, Arg(1))
                                   \o Append(StringAt(mem, Arg(2)), 0))
      /\ Called("strncpy") =>
           mem' = Put(mem, Arg(1), Prefix(Append(StringAt(mem, Arg(2)), 0), Arg(3) + 1))
      /\ Called("memset") =>
           mem' = Put(mem, Arg(1), [i \in 1..Arg(3) |-> Arg(2)])
    ]_vars

\* While the string still has a token, strtok returns the next one: its first
\* character is the first that is no delimiter, what it points to is the
\* longest string without a delimiter from there, only the delimiter after it
\* is overwritten, and the next call goes on right behind that one, so that no
\* token is lost or seen twice.
TokenizerAgrees ==
  [][ Called("strtok") /\ Arg(1) # NULL =>
        LET from == Arg(1)  delim == Arg(2) IN
        (\E i \in Addresses : /\ i >= from /\ mem[i] \notin delim
                              /\ \A j \in from..i : mem[j] # 0
                              /\ \E j \in Addresses : j > i /\ mem[j] = 0) =>
        LET token == StringAt(mem', ret')
            end == ret' + Len(token)
        IN /\ \A i \in from..(ret' - 1) : mem[i] \in delim
           /\ Len(token) > 0
           /\ \A i \in ret'..(end - 1) : mem[i] \notin delim
           /\ mem[end] \in delim \cup {0}
           /\ mem' = Put(mem, end, <<0>>)
           /\ tok' = IF mem[end] = 0 THEN NULL ELSE end + 1
    ]_vars

=============================================================================
