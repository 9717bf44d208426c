----------------------------- MODULE UserProofs -----------------------------
(***************************************************************************)
(* Theorems about the login prompt, the keyboard driver, the display, the  *)
(* heap, the settings of a terminal, the memory a program moves, the text  *)
(* console and the shell's line and history, for buffers of any size, any  *)
(* number of attempts, any of the keys that are modelled, a queue of any   *)
(* length, any modes, sizes and speeds, a screen of any width and height.  *)
(***************************************************************************)
EXTENDS Keyboard, Login, Hdmi, Heap, Calls, MinLemmas, SequenceTheorems

-----------------------------------------------------------------------------
(* Login: a buffer is the line that was typed into it, and Nul behind.     *)

Lines == Seq(Typed)
Holds(buf, size, line) ==
  buf = [i \in 0 .. size - 1 |-> IF i < Len(line) THEN line[i + 1] ELSE Nul]

\* What one prompt has taken so far.
LoginTypeOK ==
  /\ field \in {"login", "password", "in", "halted"}
  /\ login_pos \in Nat /\ attempts \in Nat
  /\ login_lines \in [{"login", "password"} -> Lines]

Attempted ==
  /\ Prompting => prompts = attempts + 1 /\ attempts < MAX_LOGIN_ATTEMPTS
  /\ field = "in" => prompts \in Nat /\ prompts <= MAX_LOGIN_ATTEMPTS
  /\ field = "halted" => prompts = MAX_LOGIN_ATTEMPTS

BuffersHold ==
  Prompting =>
    /\ Holds(username, USERNAME_MAX_LEN, login_lines.login)
    /\ Holds(password, PASSWORD_MAX_LEN, login_lines.password)
    /\ Len(login_lines.login) < USERNAME_MAX_LEN
    /\ Len(login_lines.password) < PASSWORD_MAX_LEN
    /\ field = "login" => login_lines.password = <<>>
    /\ login_pos = Len(login_lines[field])

Masked ==
  Prompting => /\ shown \in Seq(Typed \cup {"*"}) /\ Len(shown) = login_pos
               /\ field = "password" => \A i \in DOMAIN shown : shown[i] = "*"

Decided ==
  /\ field = "in" => login_lines.login = USERNAME /\ login_lines.password = PASSWORD
  /\ ~Prompting => /\ username = secure_clear_buffer(USERNAME_MAX_LEN)
                   /\ password = secure_clear_buffer(PASSWORD_MAX_LEN)

LoginInv == LoginTypeOK /\ Attempted /\ BuffersHold /\ Masked /\ Decided

\* The string in a buffer is the line.
LEMMA TextOfLine ==
  ASSUME NEW buf, NEW size \in Nat, NEW line \in Lines, Len(line) < size, Holds(buf, size, line)
  PROVE  Text(buf) = line
<1>1. Len(line) \in Nat /\ DOMAIN buf = 0 .. size - 1
  BY DEF Holds, Lines
<1>2. \A i \in 0 .. size - 1 : buf[i] = IF i < Len(line) THEN line[i + 1] ELSE Nul
  BY DEF Holds
<1>3. \A i \in 1 .. Len(line) : line[i] \in Typed
  BY DEF Lines
<1>4. \A i \in 0 .. Len(line) - 1 : buf[i] = line[i + 1] /\ buf[i] # Nul
  <2> TAKE i \in 0 .. Len(line) - 1
  <2>1. i \in 0 .. size - 1 /\ i < Len(line) /\ i + 1 \in 1 .. Len(line)
    BY <1>1
  <2> QED BY <2>1, <1>2, <1>3, LoginAssumption
<1>5. Len(line) \in DOMAIN buf /\ buf[Len(line)] = Nul
  BY <1>1, <1>2
<1> DEFINE Ends(n) == buf[n] = Nul /\ \A i \in 0 .. n - 1 : buf[i] # Nul
           end == CHOOSE n \in DOMAIN buf : Ends(n)
<1>6. Ends(Len(line))
  BY <1>4, <1>5
<1>7. \A n \in DOMAIN buf : Ends(n) => n = Len(line)
  <2> SUFFICES ASSUME NEW n \in DOMAIN buf, Ends(n) PROVE n = Len(line)
    OBVIOUS
  <2>1. n \in Int /\ n >= 0
    BY <1>1
  <2>2. ~(n < Len(line))
    BY <2>1, <1>1, <1>4
  <2>3. ~(Len(line) < n)
    BY <2>1, <1>1, <1>5
  <2> QED BY <2>1, <2>2, <2>3, <1>1
<1>8. end \in DOMAIN buf /\ Ends(end)
  <2> HIDE DEF Ends
  <2> QED BY <1>5, <1>6
<1>9. end = Len(line)
  BY <1>7, <1>8
<1>10. Text(buf) = [i \in 1 .. end |-> buf[i - 1]]
  BY DEF Text
<1>11. Text(buf) = [i \in 1 .. Len(line) |-> buf[i - 1]]
  BY <1>9, <1>10
<1>12. line = [i \in 1 .. Len(line) |-> line[i]]
  BY DEF Lines
<1>13. \A i \in 1 .. Len(line) : buf[i - 1] = line[i]
  <2> TAKE i \in 1 .. Len(line)
  <2>1. i - 1 \in 0 .. Len(line) - 1 /\ (i - 1) + 1 = i
    BY <1>1
  <2> QED BY <2>1, <1>4
<1> QED BY <1>11, <1>12, <1>13

LEMMA EmptyLine ==
  ASSUME NEW size \in Nat
  PROVE  <<>> \in Lines /\ Len(<<>>) = 0 /\ Holds(secure_clear_buffer(size), size, <<>>)
BY DEF Lines, Holds, secure_clear_buffer

\* A character that fits in goes behind the line; the last one is taken back.
LEMMA LineGrows ==
  ASSUME NEW size \in Nat, NEW line \in Lines, NEW buf, Holds(buf, size, line),
         Len(line) < size - 1, NEW c \in Typed
  PROVE  /\ Append(line, c) \in Lines /\ Len(Append(line, c)) = Len(line) + 1
         /\ Holds([buf EXCEPT ![Len(line)] = c], size, Append(line, c))
<1>1. /\ Append(line, c) \in Lines /\ Len(Append(line, c)) = Len(line) + 1 /\ Len(line) \in Nat
      /\ \A i \in 1 .. Len(line) + 1 :
           Append(line, c)[i] = IF i = Len(line) + 1 THEN c ELSE line[i]
  BY DEF Lines
<1> DEFINE new == [buf EXCEPT ![Len(line)] = c]
<1>2. DOMAIN buf = 0 .. size - 1 /\ DOMAIN new = 0 .. size - 1
      /\ new = [i \in 0 .. size - 1 |-> new[i]]
  BY DEF Holds
<1>3. \A i \in 0 .. size - 1 :
        new[i] = IF i < Len(line) + 1 THEN Append(line, c)[i + 1] ELSE Nul
  <2> TAKE i \in 0 .. size - 1
  <2>1. buf[i] = IF i < Len(line) THEN line[i + 1] ELSE Nul
    BY DEF Holds
  <2>2. new[i] = IF i = Len(line) THEN c ELSE buf[i]
    BY <1>2
  <2>3. i < Len(line) + 1 => i + 1 \in 1 .. Len(line) + 1
    BY <1>1
  <2> QED BY <2>1, <2>2, <2>3, <1>1
<1> HIDE DEF new
<1>4. new = [i \in 0 .. size - 1 |-> IF i < Len(line) + 1 THEN Append(line, c)[i + 1] ELSE Nul]
  BY <1>2, <1>3
<1> QED BY <1>1, <1>4 DEF Holds, new

\* The first n elements of a line.
LEMMA FirstOf ==
  ASSUME NEW line \in Lines, NEW n \in Nat, n <= Len(line)
  PROVE  /\ SubSeq(line, 1, n) \in Lines /\ Len(SubSeq(line, 1, n)) = n
         /\ \A i \in 1 .. n : SubSeq(line, 1, n)[i] = line[i]
<1>1. line \in Seq(Typed) /\ Len(line) \in Nat /\ 1 \in 1 .. Len(line) + 1 /\ n \in 0 .. Len(line)
  BY LenProperties DEF Lines
<1>2. \A i \in 1 .. n : line[i] \in Typed
  BY <1>1, ElementOfSeq
<1>3. SubSeq(line, 1, n) = [i \in 1 .. n |-> line[1 + i - 1]]
  BY <1>1
<1>4. \A i \in 1 .. n : 1 + i - 1 = i
  OBVIOUS
<1>5. SubSeq(line, 1, n) = [i \in 1 .. n |-> line[i]]
  BY <1>3, <1>4
<1>6. PICK first : first = SubSeq(line, 1, n)
  OBVIOUS
<1>7. first \in [1 .. n -> Typed] /\ DOMAIN first = 1 .. n /\ \A i \in 1 .. n : first[i] = line[i]
  BY <1>2, <1>5, <1>6
<1>8. first \in Seq(Typed) /\ Len(first) = n
  BY <1>7, LenProperties, SeqDef
<1> QED BY <1>6, <1>7, <1>8 DEF Lines

LEMMA LineShrinks ==
  ASSUME NEW size \in Nat, NEW line \in Lines, NEW buf, Holds(buf, size, line),
         Len(line) < size, Len(line) # 0
  PROVE  LET shorter == SubSeq(line, 1, Len(line) - 1)
         IN /\ shorter \in Lines /\ Len(shorter) = Len(line) - 1
            /\ Holds([buf EXCEPT ![Len(line) - 1] = Nul], size, shorter)
<1> DEFINE shorter == SubSeq(line, 1, Len(line) - 1)
           new == [buf EXCEPT ![Len(line) - 1] = Nul]
<1>1. /\ shorter \in Lines /\ Len(shorter) = Len(line) - 1 /\ Len(line) \in Nat
      /\ \A i \in 1 .. Len(line) - 1 : shorter[i] = line[i]
  <2>1. Len(line) \in Nat /\ Len(line) - 1 \in Nat /\ Len(line) - 1 <= Len(line)
    BY LenProperties DEF Lines
  <2> QED BY <2>1, FirstOf
<1>2. DOMAIN buf = 0 .. size - 1 /\ DOMAIN new = 0 .. size - 1
      /\ new = [i \in 0 .. size - 1 |-> new[i]]
  BY DEF Holds
<1>3. \A i \in 0 .. size - 1 :
        new[i] = IF i < Len(line) - 1 THEN shorter[i + 1] ELSE Nul
  <2> TAKE i \in 0 .. size - 1
  <2>1. buf[i] = IF i < Len(line) THEN line[i + 1] ELSE Nul
    BY DEF Holds
  <2>2. new[i] = IF i = Len(line) - 1 THEN Nul ELSE buf[i]
    BY <1>2
  <2>3. i < Len(line) - 1 => i + 1 \in 1 .. Len(line) - 1
    BY <1>1
  <2> QED BY <2>1, <2>2, <2>3, <1>1
<1> HIDE DEF new, shorter
<1>4. new = [i \in 0 .. size - 1 |-> IF i < Len(line) - 1 THEN shorter[i + 1] ELSE Nul]
  BY <1>2, <1>3
<1> QED BY <1>1, <1>4 DEF Holds, new, shorter

\* A sequence without its last element.
LEMMA AllButLast ==
  ASSUME NEW T, NEW s \in Seq(T), Len(s) # 0
  PROVE  /\ SubSeq(s, 1, Len(s) - 1) \in Seq(T)
         /\ Len(SubSeq(s, 1, Len(s) - 1)) = Len(s) - 1
         /\ DOMAIN SubSeq(s, 1, Len(s) - 1) = 1 .. Len(s) - 1
         /\ \A i \in 1 .. Len(s) - 1 : SubSeq(s, 1, Len(s) - 1)[i] = s[i]
         /\ DOMAIN s = 1 .. Len(s) /\ Len(s) \in Nat
<1>1. DOMAIN s = 1 .. Len(s) /\ Len(s) \in Nat
  OBVIOUS
<1>2. PICK n \in Nat : n = Len(s) - 1
  <2>1. Len(s) - 1 \in Nat
    BY <1>1
  <2> QED BY <2>1
<1>3. /\ SubSeq(s, 1, n) \in Seq(T) /\ Len(SubSeq(s, 1, n)) = n
      /\ \A i \in 1 .. n : SubSeq(s, 1, n)[i] = s[i]
  <2>1. SubSeq(s, 1, n) = [i \in 1 .. n |-> s[i]]
    BY <1>2
  <2>2. \A i \in 1 .. n : s[i] \in T
    BY <1>2
  <2> QED BY <2>1, <2>2
<1>4. DOMAIN SubSeq(s, 1, n) = 1 .. n
  BY <1>3
<1> QED BY <1>1, <1>2, <1>3, <1>4

\* One character into the line, or one taken back, or none.
LEMMA EditKeeps ==
  ASSUME LoginInv, Prompting, NEW line \in Lines, NEW buf, NEW echo,
         Len(line) < Size, Holds(buf, Size, line),
         echo \in Seq(Typed \cup {"*"}), Len(echo) = Len(line),
         field = "password" => \A i \in DOMAIN echo : echo[i] = "*",
         Edit(buf, Len(line), line, echo)
  PROVE  LoginInv'
<1>1. /\ field' = field /\ attempts' = attempts /\ prompts' = prompts
      /\ login_pos' = Len(line) /\ shown' = echo
      /\ login_lines' = [login_lines EXCEPT ![field] = line]
      /\ IF field = "login" THEN username' = buf /\ password' = password
                            ELSE password' = buf /\ username' = username
  BY DEF Edit
<1>2. field \in {"login", "password"} /\ Prompting'
  BY <1>1 DEF Prompting
<1>3. /\ login_lines \in [{"login", "password"} -> Lines]
      /\ login_lines' \in [{"login", "password"} -> Lines]
      /\ login_lines'[field] = line
      /\ \A f \in {"login", "password"} \ {field} : login_lines'[f] = login_lines[f]
  BY <1>1, <1>2 DEF LoginInv, LoginTypeOK
<1>4. LoginTypeOK'
  <2>1. Len(line) \in Nat
    BY DEF Lines
  <2> QED BY <1>1, <1>3, <2>1 DEF LoginInv, LoginTypeOK
<1>5. Attempted'
  BY <1>1, <1>2 DEF LoginInv, Attempted, Prompting
<1>6. BuffersHold'
  <2>1. CASE field = "login"
    <3>1. /\ login_lines'["login"] = line /\ login_lines'["password"] = login_lines["password"]
          /\ username' = buf /\ password' = password
          /\ Holds(buf, USERNAME_MAX_LEN, line) /\ Len(line) < USERNAME_MAX_LEN
      BY <1>1, <1>3, <2>1 DEF Size
    <3> QED BY <1>1, <2>1, <3>1 DEF LoginInv, BuffersHold, Holds
  <2>2. CASE field = "password"
    <3>1. /\ login_lines'["password"] = line /\ login_lines'["login"] = login_lines["login"]
          /\ username' = username /\ password' = buf
          /\ Holds(buf, PASSWORD_MAX_LEN, line) /\ Len(line) < PASSWORD_MAX_LEN
      BY <1>1, <1>3, <2>2 DEF Size
    <3> QED BY <1>1, <2>2, <3>1 DEF LoginInv, BuffersHold, Holds
  <2> QED BY <1>2, <2>1, <2>2
<1>7. Masked'
  BY <1>1 DEF Masked
<1>8. Decided'
  BY <1>2, <1>1 DEF Decided, Prompting
<1> QED BY <1>4, <1>5, <1>6, <1>7, <1>8 DEF LoginInv

\* What a prompt knows of the field it is at.
LEMMA AtPrompt ==
  ASSUME LoginInv, Prompting
  PROVE  /\ field \in {"login", "password"} /\ Size \in Nat \ {0}
         /\ login_lines[field] \in Lines /\ Len(login_lines[field]) < Size
         /\ login_pos = Len(login_lines[field]) /\ login_pos \in Nat
         /\ Holds(buffer, Size, login_lines[field])
         /\ shown \in Seq(Typed \cup {"*"}) /\ Len(shown) = login_pos
         /\ field = "password" => \A i \in DOMAIN shown : shown[i] = "*"
<1>1. field \in {"login", "password"} /\ Size \in Nat \ {0}
  BY LoginAssumption DEF Prompting, Size
<1>2. CASE field = "login"
  BY <1>1, <1>2 DEF LoginInv, LoginTypeOK, BuffersHold, Masked, Size, buffer
<1>3. CASE field = "password"
  BY <1>1, <1>3 DEF LoginInv, LoginTypeOK, BuffersHold, Masked, Size, buffer
<1> QED BY <1>1, <1>2, <1>3

LEMMA CharacterKeeps ==
  ASSUME LoginInv, Character
  PROVE  LoginInv'
<1>1. Prompting
  BY DEF Character
<1> DEFINE line == login_lines[field]
<1>2. /\ field \in {"login", "password"} /\ Size \in Nat \ {0} /\ line \in Lines
      /\ Len(line) < Size /\ login_pos = Len(line) /\ login_pos \in Nat
      /\ Holds(buffer, Size, line) /\ shown \in Seq(Typed \cup {"*"}) /\ Len(shown) = login_pos
      /\ field = "password" => \A i \in DOMAIN shown : shown[i] = "*"
  BY <1>1, AtPrompt
<1>3. PICK c \in Typed :
        IF Full THEN Edit(buffer, login_pos, login_lines[field], shown)
        ELSE Edit([buffer EXCEPT ![login_pos] = c], login_pos + 1, Append(login_lines[field], c),
                  Append(shown, IF field = "password" THEN "*" ELSE c))
  BY DEF Character
<1>4. CASE Full
  <2>1. Edit(buffer, Len(line), line, shown)
    BY <1>2, <1>3, <1>4
  <2> HIDE DEF line
  <2> QED BY <1>1, <1>2, <2>1, EditKeeps
<1>5. CASE ~Full
  <2>1. Len(line) < Size - 1
    BY <1>2, <1>5 DEF Full
  <2>2. PICK buf, longer, echo :
          /\ buf = [buffer EXCEPT ![Len(line)] = c] /\ longer = Append(line, c)
          /\ echo = Append(shown, IF field = "password" THEN "*" ELSE c)
    OBVIOUS
  <2>3. longer \in Lines /\ Len(longer) = Len(line) + 1 /\ Holds(buf, Size, longer)
    <3> HIDE DEF line
    <3> QED BY <1>2, <2>1, <2>2, LineGrows
  <2>4. /\ echo \in Seq(Typed \cup {"*"}) /\ Len(echo) = Len(shown) + 1
        /\ field = "password" => \A i \in DOMAIN echo : echo[i] = "*"
    <3>1. \A s \in Seq(Typed \cup {"*"}) : \A x \in Typed \cup {"*"} :
            /\ Append(s, x) \in Seq(Typed \cup {"*"}) /\ Len(Append(s, x)) = Len(s) + 1
            /\ DOMAIN Append(s, x) = 1 .. Len(s) + 1
            /\ \A i \in 1 .. Len(s) + 1 : Append(s, x)[i] = IF i = Len(s) + 1 THEN x ELSE s[i]
            /\ DOMAIN s = 1 .. Len(s) /\ Len(s) \in Nat
      OBVIOUS
    <3>2. (IF field = "password" THEN "*" ELSE c) \in Typed \cup {"*"}
      BY <1>3
    <3> QED BY <1>2, <2>2, <3>1, <3>2
  <2>5. Edit(buf, Len(longer), longer, echo)
    BY <1>2, <1>3, <1>5, <2>2, <2>3
  <2>6. Len(longer) < Size /\ Len(echo) = Len(longer)
    BY <1>2, <2>1, <2>3, <2>4
  <2> QED BY <1>1, <2>3, <2>4, <2>5, <2>6, EditKeeps
<1> QED BY <1>4, <1>5

LEMMA EraseKeeps ==
  ASSUME LoginInv, Erase
  PROVE  LoginInv'
<1>1. Prompting
  BY DEF Erase
<1> DEFINE line == login_lines[field]
<1>2. /\ field \in {"login", "password"} /\ Size \in Nat \ {0} /\ line \in Lines
      /\ Len(line) < Size /\ login_pos = Len(line) /\ login_pos \in Nat
      /\ Holds(buffer, Size, line) /\ shown \in Seq(Typed \cup {"*"}) /\ Len(shown) = login_pos
      /\ field = "password" => \A i \in DOMAIN shown : shown[i] = "*"
  BY <1>1, AtPrompt
<1>3. CASE login_pos = 0
  <2>1. Edit(buffer, Len(line), line, shown)
    BY <1>2, <1>3 DEF Erase
  <2> HIDE DEF line
  <2> QED BY <1>1, <1>2, <2>1, EditKeeps
<1>4. CASE login_pos # 0
  <2>2. PICK buf, shorter, echo :
          /\ buf = [buffer EXCEPT ![Len(line) - 1] = Nul]
          /\ shorter = SubSeq(line, 1, Len(line) - 1)
          /\ echo = SubSeq(shown, 1, Len(line) - 1)
    OBVIOUS
  <2>3. shorter \in Lines /\ Len(shorter) = Len(line) - 1 /\ Holds(buf, Size, shorter)
    <3> HIDE DEF line
    <3> QED BY <1>2, <1>4, <2>2, LineShrinks
  <2>4. /\ echo \in Seq(Typed \cup {"*"}) /\ Len(echo) = Len(shown) - 1
        /\ field = "password" => \A i \in DOMAIN echo : echo[i] = "*"
    <3>1. /\ SubSeq(shown, 1, Len(shown) - 1) \in Seq(Typed \cup {"*"})
          /\ Len(SubSeq(shown, 1, Len(shown) - 1)) = Len(shown) - 1
          /\ DOMAIN SubSeq(shown, 1, Len(shown) - 1) = 1 .. Len(shown) - 1
          /\ \A i \in 1 .. Len(shown) - 1 : SubSeq(shown, 1, Len(shown) - 1)[i] = shown[i]
          /\ DOMAIN shown = 1 .. Len(shown) /\ Len(shown) \in Nat
      BY <1>2, <1>4, AllButLast
    <3> QED BY <1>2, <1>4, <2>2, <3>1
  <2>5. Edit(buf, Len(shorter), shorter, echo)
    BY <1>2, <1>4, <2>2, <2>3 DEF Erase
  <2>6. Len(shorter) < Size /\ Len(echo) = Len(shorter)
    BY <1>2, <2>3, <2>4
  <2> QED BY <1>1, <2>3, <2>4, <2>5, <2>6, EditKeeps
<1> QED BY <1>3, <1>4

LEMMA FailKeeps ==
  ASSUME LoginInv, Prompting, Fail
  PROVE  LoginInv'
<1>1. /\ attempts' = attempts + 1 /\ login_pos' = 0 /\ shown' = <<>>
      /\ field' = IF attempts + 1 = MAX_LOGIN_ATTEMPTS THEN "halted" ELSE "login"
      /\ username' = secure_clear_buffer(USERNAME_MAX_LEN)
      /\ password' = secure_clear_buffer(PASSWORD_MAX_LEN)
      /\ login_lines' = [login |-> <<>>, password |-> <<>>]
      /\ prompts' = IF field' = "login" THEN prompts + 1 ELSE prompts
  BY DEF Fail, Cleared
<1>2. /\ attempts \in Nat /\ attempts < MAX_LOGIN_ATTEMPTS /\ prompts = attempts + 1
      /\ MAX_LOGIN_ATTEMPTS \in Nat
  BY LoginAssumption DEF LoginInv, LoginTypeOK, Attempted
<1>3. <<>> \in Lines /\ Len(<<>>) = 0
      /\ Holds(secure_clear_buffer(USERNAME_MAX_LEN), USERNAME_MAX_LEN, <<>>)
      /\ Holds(secure_clear_buffer(PASSWORD_MAX_LEN), PASSWORD_MAX_LEN, <<>>)
  BY EmptyLine, LoginAssumption
<1>4. LoginTypeOK'
  <2>1. login_lines' \in [{"login", "password"} -> Lines]
    BY <1>1, <1>3
  <2> QED BY <1>1, <1>2, <2>1 DEF LoginTypeOK
<1>5. Attempted'
  BY <1>1, <1>2 DEF Attempted, Prompting
<1>6. BuffersHold'
  <2>1. /\ login_lines'["login"] = <<>> /\ login_lines'["password"] = <<>>
        /\ USERNAME_MAX_LEN > 0 /\ PASSWORD_MAX_LEN > 0
    BY <1>1, LoginAssumption
  <2>2. Prompting' => field' = "login"
    BY <1>1 DEF Prompting
  <2> QED BY <1>1, <1>3, <2>1, <2>2 DEF BuffersHold, Holds
<1>7. Masked'
  BY <1>1 DEF Masked
<1>8. Decided'
  BY <1>1 DEF Decided, Prompting
<1> QED BY <1>4, <1>5, <1>6, <1>7, <1>8 DEF LoginInv

LEMMA ReturnKeeps ==
  ASSUME LoginInv, Return
  PROVE  LoginInv'
<1>1. Prompting
  BY DEF Return
<1>2. CASE Fail
  BY <1>1, <1>2, FailKeeps
<1>3. CASE /\ field = "login" /\ field' = "password" /\ login_pos' = 0 /\ shown' = <<>>
           /\ UNCHANGED <<username, password, attempts, login_lines, prompts>>
  <2>1. Prompting' /\ Len(<<>>) = 0
    BY <1>3 DEF Prompting
  <2>2. BuffersHold'
    BY <1>1, <1>3, <2>1 DEF LoginInv, BuffersHold, Holds
  <2>3. Masked'
    BY <1>3 DEF Masked
  <2>4. Attempted' /\ LoginTypeOK'
    BY <1>1, <1>3, <2>1 DEF LoginInv, Attempted, LoginTypeOK
  <2>5. Decided'
    BY <1>3, <2>1 DEF Decided
  <2> QED BY <2>2, <2>3, <2>4, <2>5 DEF LoginInv
<1>4. CASE /\ field = "password" /\ Text(username) = USERNAME /\ Text(password) = PASSWORD
           /\ Cleared("in") /\ UNCHANGED <<attempts, login_lines, prompts>>
  <2>1. login_lines.login \in Lines /\ login_lines.password \in Lines
    BY DEF LoginInv, LoginTypeOK
  <2>2. Text(username) = login_lines.login /\ Text(password) = login_lines.password
    BY <1>1, <2>1, TextOfLine, LoginAssumption DEF LoginInv, BuffersHold
  <2>3. /\ field' = "in" /\ login_pos' = 0
        /\ username' = secure_clear_buffer(USERNAME_MAX_LEN)
        /\ password' = secure_clear_buffer(PASSWORD_MAX_LEN)
    BY <1>4 DEF Cleared
  <2>4. ~Prompting'
    BY <2>3 DEF Prompting
  <2>5. /\ prompts = attempts + 1 /\ attempts < MAX_LOGIN_ATTEMPTS /\ attempts \in Nat
        /\ MAX_LOGIN_ATTEMPTS \in Nat
    BY <1>1, LoginAssumption DEF LoginInv, Attempted, LoginTypeOK
  <2>6. Attempted'
    BY <1>4, <2>3, <2>4, <2>5 DEF Attempted
  <2>7. LoginTypeOK'
    BY <1>4, <2>3 DEF LoginInv, LoginTypeOK
  <2>8. Decided'
    BY <1>4, <2>2, <2>3 DEF Decided
  <2> QED BY <2>4, <2>6, <2>7, <2>8 DEF LoginInv, BuffersHold, Masked
<1> QED BY <1>2, <1>3, <1>4 DEF Return

LEMMA LoginInvariant == LoginSpec => []LoginInv
<1>1. LoginInit => LoginInv
  <2> SUFFICES ASSUME LoginInit PROVE LoginInv
    OBVIOUS
  <2>1. /\ username = secure_clear_buffer(USERNAME_MAX_LEN)
        /\ password = secure_clear_buffer(PASSWORD_MAX_LEN)
        /\ field = "login" /\ login_pos = 0 /\ attempts = 0 /\ shown = <<>>
        /\ login_lines = [login |-> <<>>, password |-> <<>>] /\ prompts = 1
    BY DEF LoginInit
  <2>2. <<>> \in Lines /\ Len(<<>>) = 0
        /\ Holds(secure_clear_buffer(USERNAME_MAX_LEN), USERNAME_MAX_LEN, <<>>)
        /\ Holds(secure_clear_buffer(PASSWORD_MAX_LEN), PASSWORD_MAX_LEN, <<>>)
    BY EmptyLine, LoginAssumption
  <2>3. LoginTypeOK
    BY <2>1, <2>2 DEF LoginTypeOK
  <2>4. Attempted
    BY <2>1, LoginAssumption DEF Attempted
  <2>5. BuffersHold
    BY <2>1, <2>2, LoginAssumption DEF BuffersHold
  <2>6. Masked /\ Decided
    BY <2>1 DEF Masked, Decided, Prompting
  <2> QED BY <2>3, <2>4, <2>5, <2>6 DEF LoginInv
<1>2. LoginInv /\ [LoginNext]_login_vars => LoginInv'
  <2> SUFFICES ASSUME LoginInv, [LoginNext]_login_vars PROVE LoginInv'
    OBVIOUS
  <2>1. CASE LoginNext
    BY <2>1, CharacterKeeps, EraseKeeps, FailKeeps, ReturnKeeps DEF LoginNext, Cancel
  <2>2. CASE UNCHANGED login_vars
    BY <2>2 DEF login_vars, LoginInv, LoginTypeOK, Attempted, BuffersHold, Masked, Decided,
                Prompting, Holds
  <2> QED BY <2>1, <2>2
<1> QED BY <1>1, <1>2, PTL DEF LoginSpec

\* Whoever is let in has typed the right lines, nobody is asked more often than the limit says, no
\* decided attempt leaves anything in a buffer, and no password is shown (login.c:28-81, 129-174).
THEOREM LoginsAreDecided == LoginSpec => []LoginDecides
<1>1. LoginInv => LoginDecides
  <2> SUFFICES ASSUME LoginInv PROVE LoginDecides
    OBVIOUS
  <2>1. field = "in" => login_lines.login = USERNAME /\ login_lines.password = PASSWORD
    BY DEF LoginInv, Decided
  <2>2. /\ prompts <= MAX_LOGIN_ATTEMPTS
        /\ field = "halted" => prompts = MAX_LOGIN_ATTEMPTS
    <3>1. attempts \in Nat /\ MAX_LOGIN_ATTEMPTS \in Nat
          /\ field \in {"login", "password", "in", "halted"}
      BY LoginAssumption DEF LoginInv, LoginTypeOK
    <3>2. /\ Prompting => prompts = attempts + 1 /\ attempts < MAX_LOGIN_ATTEMPTS
          /\ field = "in" => prompts <= MAX_LOGIN_ATTEMPTS
          /\ field = "halted" => prompts = MAX_LOGIN_ATTEMPTS
      BY DEF LoginInv, Attempted
    <3> QED BY <3>1, <3>2 DEF Prompting
  <2>3. ~Prompting => /\ \A i \in DOMAIN username : username[i] = Nul
                      /\ \A i \in DOMAIN password : password[i] = Nul
    BY DEF LoginInv, Decided, secure_clear_buffer
  <2>4. field = "password" => \A i \in DOMAIN shown : shown[i] = "*"
    BY AtPrompt DEF Prompting
  <2>5. Prompting => Text(buffer) = login_lines[field] /\ Len(shown) = login_pos
    <3> SUFFICES ASSUME Prompting
                 PROVE  Text(buffer) = login_lines[field] /\ Len(shown) = login_pos
      OBVIOUS
    <3>1. PICK line, size : line = login_lines[field] /\ size = Size
      OBVIOUS
    <3>2. /\ size \in Nat /\ line \in Lines /\ Len(line) < size /\ Holds(buffer, size, line)
          /\ Len(shown) = login_pos
      BY <3>1, AtPrompt
    <3>3. Text(buffer) = line
      BY <3>2, TextOfLine
    <3> QED BY <3>1, <3>2, <3>3
  <2> QED BY <2>1, <2>2, <2>3, <2>4, <2>5 DEF LoginDecides
<1> QED BY <1>1, LoginInvariant, PTL

-----------------------------------------------------------------------------
(* Keyboard: what the driver will know when it has taken the bytes that    *)
(* wait is what the keys and the user know now.                            *)

KeyNames ==
  {"LShift", "RShift", "LCtrl", "RCtrl", "LAlt", "RAlt", "Caps", "Num", "Scroll", "A", "One", "Esc"}
KeyCodes == {"2A", "36", "1D", "38", "3A", "45", "46", "1E", "02", "01"}
KeyChars == {"A", "a", "!", "1", "esc", NoChar}
AllBytes == [code : KeyCodes \cup {"E0", "FA"}, up : BOOLEAN, want : KeyChars]
Bytes == {b \in AllBytes : b.code \in {"E0", "FA"} => ~b.up}

\* What the driver knows of the keys, and what a byte makes of it.
Known == [down : SUBSET Modifiers, caps : BOOLEAN, ext : BOOLEAN]
Learnt(s, b) ==
  IF b.code = "E0" THEN [down |-> s.down, caps |-> s.caps, ext |-> TRUE]
  ELSE [down |-> IF b.up \/ b.code = "FA" THEN s.down \ Meant(b.code, s.ext)
                                          ELSE s.down \cup Meant(b.code, s.ext),
        caps |-> s.caps # (b.code = "3A" /\ ~b.up),
        ext  |-> FALSE]

\* A byte that types a character wants the one that the driver will make of it.
Wanted(b, s) ==
  ~b.up /\ b.code \notin {"E0", "FA"} => b.want = Char(b.code, s.down \cap Shifts # {}, s.caps)

\* The bytes lead from one state of knowledge to another, by way of what is known after each.
Follows(knowledge, from, bytes, to) ==
  /\ knowledge \in [0 .. Len(bytes) -> Known]
  /\ knowledge[0] = from /\ knowledge[Len(bytes)] = to
  /\ \A k \in 1 .. Len(bytes) :
       knowledge[k] = Learnt(knowledge[k - 1], bytes[k]) /\ Wanted(bytes[k], knowledge[k])
Leads(from, bytes, to) == \E knowledge : Follows(knowledge, from, bytes, to)

KnownNow == [down |-> kb_down, caps |-> "3A" \in kb_locks, ext |-> extended_scancode]
KnownToUser == [down |-> held \cap Modifiers, caps |-> caps_typed, ext |-> FALSE]

KeyboardTypeOK ==
  /\ held \subseteq KeyNames /\ caps_typed \in BOOLEAN /\ wire \in Seq(Bytes)
  /\ kb_down \subseteq Modifiers /\ extended_scancode \in BOOLEAN
  /\ lost \subseteq Shifts
  /\ kb_mode \in {"poll", "command", "ack", "leds", "ack2"}
  /\ kb_mode # "poll" => ~extended_scancode

Undisturbed ==
  ~disturbed =>
    /\ Leads(KnownNow, wire, KnownToUser)
    /\ kb_mode \in {"poll", "ack2"} => device_leds = kb_locks
    /\ typed.got = typed.want

\* The last byte of the code in the queue tells whether its key is down.
LastTells(bytes, code, down) ==
  \A i \in 1 .. Len(bytes) :
    bytes[i].code = code /\ (\A j \in i + 1 .. Len(bytes) : bytes[j].code # code) => (bytes[i].up <=> ~down)
Absent(bytes, code) == \A i \in 1 .. Len(bytes) : bytes[i].code # code

ShiftsFollow ==
  \A key \in Shifts :
    /\ LastTells(wire, Code[key], key \in held)
    /\ Absent(wire, Code[key]) /\ key \notin lost => (key \in kb_down <=> key \in held)

KeyboardInv == KeyboardTypeOK /\ Undisturbed /\ ShiftsFollow

\* The codes: the two shift keys have their own, and the other modifiers share theirs in pairs.
LEMMA KeysHaveCodes ==
  ASSUME NEW key \in KeyNames
  PROVE  /\ Code[key] \in KeyCodes
         /\ Code[key] = "3A" <=> key = "Caps"
         /\ Code[key] = "2A" <=> key = "LShift"
         /\ Code[key] = "36" <=> key = "RShift"
         /\ Meant(Code[key], key \in ExtendedKeys) = {key} \cap Modifiers
<1>1. /\ Code["LShift"] = "2A" /\ Code["RShift"] = "36" /\ Code["LCtrl"] = "1D" /\ Code["RCtrl"] = "1D"
      /\ Code["LAlt"] = "38" /\ Code["RAlt"] = "38" /\ Code["Caps"] = "3A" /\ Code["Num"] = "45"
      /\ Code["Scroll"] = "46" /\ Code["A"] = "1E" /\ Code["One"] = "02" /\ Code["Esc"] = "01"
  BY DEF Code
<1>2. /\ Code[key] \in KeyCodes
      /\ Code[key] = "3A" <=> key = "Caps"
      /\ Code[key] = "2A" <=> key = "LShift"
      /\ Code[key] = "36" <=> key = "RShift"
  <2>1. PICK code : code = Code[key]
    OBVIOUS
  <2>2. \/ key = "LShift" /\ code = "2A"
        \/ key = "RShift" /\ code = "36"
        \/ key = "Caps" /\ code = "3A"
        \/ key = "Num" /\ code = "45"
        \/ key = "Scroll" /\ code = "46"
        \/ key = "A" /\ code = "1E"
        \/ key = "One" /\ code = "02"
        \/ key = "Esc" /\ code = "01"
        \/ key \in {"LCtrl", "RCtrl"} /\ code = "1D"
        \/ key \in {"LAlt", "RAlt"} /\ code = "38"
    BY <1>1, <2>1 DEF KeyNames
  <2>3. /\ code \in KeyCodes /\ (code = "3A" <=> key = "Caps")
        /\ (code = "2A" <=> key = "LShift") /\ (code = "36" <=> key = "RShift")
    BY <2>2 DEF KeyCodes
  <2> QED BY <2>1, <2>3
<1>3. CASE key \in Modifiers
  <2>1. key \in {"LShift", "RShift", "LCtrl", "RCtrl", "LAlt", "RAlt"}
    BY <1>3 DEF Modifiers, Shifts
  <2>2. Meant(Code[key], key \in ExtendedKeys) = {key}
    <3>1. \A code, extended :
            /\ code = "2A" => Meant(code, extended) = {"LShift"}
            /\ code = "36" => Meant(code, extended) = {"RShift"}
            /\ code = "1D" /\ extended => Meant(code, extended) = {"RCtrl"}
            /\ code = "1D" /\ ~extended => Meant(code, extended) = {"LCtrl"}
            /\ code = "38" /\ extended => Meant(code, extended) = {"RAlt"}
            /\ code = "38" /\ ~extended => Meant(code, extended) = {"LAlt"}
      BY DEF Meant
    <3>2. PICK extended : extended = (key \in ExtendedKeys)
      OBVIOUS
    <3>3. Meant(Code[key], extended) = {key}
      <4>1. extended <=> key \in {"RCtrl", "RAlt"}
        BY <3>2 DEF ExtendedKeys
      <4>2. PICK code : code = Code[key]
        OBVIOUS
      <4>3. \/ key = "LShift" /\ code = "2A"
            \/ key = "RShift" /\ code = "36"
            \/ key = "LCtrl" /\ code = "1D" /\ ~extended
            \/ key = "RCtrl" /\ code = "1D" /\ extended
            \/ key = "LAlt" /\ code = "38" /\ ~extended
            \/ key = "RAlt" /\ code = "38" /\ extended
        BY <1>1, <2>1, <4>1, <4>2
      <4> QED BY <3>1, <4>2, <4>3
    <3> QED BY <3>2, <3>3
  <2> QED BY <1>2, <1>3, <2>2
<1>4. CASE key \notin Modifiers
  <2>1. Code[key] \notin {"2A", "36", "1D", "38"}
    BY <1>1, <1>4 DEF KeyNames, Modifiers, Shifts
  <2> QED BY <1>2, <1>4, <2>1 DEF Meant
<1> QED
  <2>1. PICK meant : meant = Meant(Code[key], key \in ExtendedKeys)
    OBVIOUS
  <2>2. meant = {key} \cap Modifiers
    BY <1>3, <1>4, <2>1, Zenon
  <2>3. Meant(Code[key], key \in ExtendedKeys) = {key} \cap Modifiers
    BY <2>1, <2>2, Zenon
  <2> QED BY <1>2, <2>3, Zenon

LEMMA CodeDomain == DOMAIN Code = KeyNames
BY DEF Code, KeyNames

LEMMA CharIsChar ==
  ASSUME NEW code, NEW shift, NEW caps
  PROVE  Char(code, shift, caps) \in KeyChars
BY DEF Char, KeyChars

LEMMA LearntIsKnown ==
  ASSUME NEW s \in Known, NEW b
  PROVE  Learnt(s, b) \in Known
<1>1. Meant(b.code, s.ext) \subseteq Modifiers
  BY DEF Meant, Modifiers, Shifts
<1>2. s.down \subseteq Modifiers /\ s.caps \in BOOLEAN
  BY DEF Known
<1> QED BY <1>1, <1>2 DEF Learnt, Known

\* A byte behind the others.
LEMMA LeadsFurther ==
  ASSUME NEW from, NEW bytes \in Seq(Bytes), NEW to, Leads(from, bytes, to), NEW b \in Bytes,
         Wanted(b, Learnt(to, b))
  PROVE  Leads(from, Append(bytes, b), Learnt(to, b))
<1>1. PICK knowledge : Follows(knowledge, from, bytes, to)
  BY DEF Leads
<1>2. PICK n \in Nat : n = Len(bytes)
  OBVIOUS
<1>3. /\ Len(Append(bytes, b)) = n + 1 /\ Append(bytes, b)[n + 1] = b
      /\ \A k \in 1 .. n : Append(bytes, b)[k] = bytes[k]
  BY <1>2
<1>4. /\ knowledge \in [0 .. n -> Known] /\ knowledge[0] = from /\ knowledge[n] = to /\ to \in Known
      /\ \A k \in 1 .. n : knowledge[k] = Learnt(knowledge[k - 1], bytes[k]) /\ Wanted(bytes[k], knowledge[k])
  BY <1>1, <1>2 DEF Follows
<1>5. PICK last : last = Learnt(to, b)
  OBVIOUS
<1> DEFINE longer == [k \in 0 .. n + 1 |-> IF k = n + 1 THEN last ELSE knowledge[k]]
<1>6. /\ longer \in [0 .. n + 1 -> Known] /\ longer[0] = from /\ longer[n + 1] = last
      /\ \A k \in 0 .. n : longer[k] = knowledge[k]
  BY <1>2, <1>4, <1>5, LearntIsKnown
<1> HIDE DEF longer
<1>7. \A k \in 1 .. n + 1 : /\ longer[k] = Learnt(longer[k - 1], Append(bytes, b)[k])
                            /\ Wanted(Append(bytes, b)[k], longer[k])
  <2> TAKE k \in 1 .. n + 1
  <2>1. CASE k = n + 1
    <3>1. longer[k] = last /\ longer[k - 1] = to /\ Append(bytes, b)[k] = b
      BY <1>2, <1>3, <1>4, <1>6, <2>1
    <3> QED BY <1>5, <3>1
  <2>2. CASE k # n + 1
    <3>1. /\ k \in 1 .. n /\ longer[k] = knowledge[k] /\ longer[k - 1] = knowledge[k - 1]
          /\ Append(bytes, b)[k] = bytes[k]
      BY <1>2, <1>3, <1>6, <2>2
    <3> QED BY <1>4, <3>1
  <2> QED BY <2>1, <2>2
<1>8. Follows(longer, from, Append(bytes, b), last)
  BY <1>3, <1>6, <1>7 DEF Follows
<1> QED BY <1>5, <1>8 DEF Leads

\* The first byte taken.
LEMMA LeadsOn ==
  ASSUME NEW from, NEW bytes \in Seq(Bytes), bytes # <<>>, NEW to, Leads(from, bytes, to)
  PROVE  /\ Leads(Learnt(from, Head(bytes)), Tail(bytes), to)
         /\ Wanted(Head(bytes), Learnt(from, Head(bytes)))
<1>1. PICK knowledge : Follows(knowledge, from, bytes, to)
  BY DEF Leads
<1>2. PICK n \in Nat : n = Len(bytes)
  OBVIOUS
<1>3. n >= 1 /\ Head(bytes) = bytes[1] /\ Len(Tail(bytes)) = n - 1
      /\ \A k \in 1 .. n - 1 : Tail(bytes)[k] = bytes[k + 1]
  BY <1>2
<1>4. /\ knowledge \in [0 .. n -> Known] /\ knowledge[0] = from /\ knowledge[n] = to
      /\ \A k \in 1 .. n : knowledge[k] = Learnt(knowledge[k - 1], bytes[k]) /\ Wanted(bytes[k], knowledge[k])
  BY <1>1, <1>2 DEF Follows
<1>5. knowledge[1] = Learnt(from, Head(bytes)) /\ Wanted(Head(bytes), knowledge[1])
  <2>1. 1 \in 1 .. n /\ 1 - 1 = 0
    BY <1>3
  <2> QED BY <1>3, <1>4, <2>1
<1> DEFINE rest == [k \in 0 .. n - 1 |-> knowledge[k + 1]]
<1>6. rest \in [0 .. n - 1 -> Known] /\ rest[0] = knowledge[1] /\ rest[n - 1] = to
  BY <1>3, <1>4
<1>7. \A k \in 1 .. n - 1 : /\ rest[k] = Learnt(rest[k - 1], Tail(bytes)[k])
                            /\ Wanted(Tail(bytes)[k], rest[k])
  <2> TAKE k \in 1 .. n - 1
  <2>1. /\ k + 1 \in 1 .. n /\ rest[k] = knowledge[k + 1] /\ rest[k - 1] = knowledge[(k + 1) - 1]
        /\ Tail(bytes)[k] = bytes[k + 1]
    BY <1>2, <1>3
  <2> HIDE DEF rest
  <2> QED BY <1>4, <2>1
<1> HIDE DEF rest
<1>8. Follows(rest, knowledge[1], Tail(bytes), to)
  BY <1>3, <1>6, <1>7 DEF Follows
<1> QED BY <1>5, <1>8 DEF Leads

\* What a byte behind the others, or the first one taken, tells of a key.
LEMMA TellsBehind ==
  ASSUME NEW bytes \in Seq(Bytes), NEW b \in Bytes, NEW code, NEW down \in BOOLEAN
  PROVE  /\ b.code # code /\ LastTells(bytes, code, down) => LastTells(Append(bytes, b), code, down)
         /\ b.code # code /\ Absent(Append(bytes, b), code) => Absent(bytes, code)
         /\ b.code = code /\ (b.up <=> ~down) => LastTells(Append(bytes, b), code, down)
         /\ b.code = code => ~Absent(Append(bytes, b), code)
<1>1. PICK n \in Nat : n = Len(bytes)
  OBVIOUS
<1>2. PICK longer : longer = Append(bytes, b)
  OBVIOUS
<1>3. /\ Len(longer) = n + 1 /\ longer[n + 1] = b
      /\ \A k \in 1 .. n : longer[k] = bytes[k]
  BY <1>1, <1>2
<1>4. ASSUME b.code # code, LastTells(bytes, code, down) PROVE LastTells(longer, code, down)
  <2> SUFFICES ASSUME NEW i \in 1 .. n + 1, longer[i].code = code,
                      \A j \in i + 1 .. n + 1 : longer[j].code # code
               PROVE  longer[i].up <=> ~down
    BY <1>3 DEF LastTells
  <2>1. i \in 1 .. n
    BY <1>1, <1>3, <1>4
  <2>2. \A j \in i + 1 .. n : bytes[j].code # code
    <3> TAKE j \in i + 1 .. n
    <3>1. j \in i + 1 .. n + 1 /\ j \in 1 .. n
      BY <2>1
    <3> QED BY <1>3, <3>1
  <2> QED BY <1>1, <1>3, <1>4, <2>1, <2>2 DEF LastTells
<1>5. ASSUME Absent(longer, code) PROVE Absent(bytes, code)
  <2> SUFFICES ASSUME NEW i \in 1 .. n PROVE bytes[i].code # code
    BY <1>1 DEF Absent
  <2>1. i \in 1 .. n + 1
    BY <1>1
  <2> QED BY <1>3, <1>5, <2>1 DEF Absent
<1>6. ASSUME b.code = code, b.up <=> ~down PROVE LastTells(longer, code, down)
  <2> SUFFICES ASSUME NEW i \in 1 .. n + 1, longer[i].code = code,
                      \A j \in i + 1 .. n + 1 : longer[j].code # code
               PROVE  longer[i].up <=> ~down
    BY <1>3 DEF LastTells
  <2>1. i = n + 1
    <3>1. i # n + 1 => n + 1 \in i + 1 .. n + 1
      OBVIOUS
    <3> QED BY <1>3, <1>6, <3>1
  <2> QED BY <1>3, <1>6, <2>1
<1>7. ASSUME b.code = code PROVE ~Absent(longer, code)
  <2>1. n + 1 \in 1 .. n + 1
    OBVIOUS
  <2> QED BY <1>3, <1>7, <2>1 DEF Absent
<1> QED BY <1>2, <1>4, <1>5, <1>6, <1>7

LEMMA TellsOn ==
  ASSUME NEW bytes \in Seq(Bytes), bytes # <<>>, NEW code, NEW down \in BOOLEAN,
         LastTells(bytes, code, down)
  PROVE  /\ LastTells(Tail(bytes), code, down)
         /\ Absent(Tail(bytes), code) /\ Head(bytes).code = code => (Head(bytes).up <=> ~down)
         /\ Absent(Tail(bytes), code) /\ Head(bytes).code # code => Absent(bytes, code)
<1>1. PICK n \in Nat : n = Len(bytes)
  OBVIOUS
<1>2. PICK rest : rest = Tail(bytes)
  OBVIOUS
<1>3. /\ n >= 1 /\ Head(bytes) = bytes[1] /\ Len(rest) = n - 1
      /\ \A k \in 1 .. n - 1 : rest[k] = bytes[k + 1]
  BY <1>1, <1>2
<1>4. \A k \in 2 .. n : bytes[k] = rest[k - 1]
  <2> TAKE k \in 2 .. n
  <2>1. k - 1 \in 1 .. n - 1 /\ (k - 1) + 1 = k
    BY <1>1
  <2> QED BY <1>3, <2>1
<1>5. LastTells(rest, code, down)
  <2> SUFFICES ASSUME NEW i \in 1 .. n - 1, rest[i].code = code,
                      \A j \in i + 1 .. n - 1 : rest[j].code # code
               PROVE  rest[i].up <=> ~down
    BY <1>3 DEF LastTells
  <2>1. i + 1 \in 1 .. n /\ bytes[i + 1] = rest[i]
    BY <1>3
  <2>2. \A j \in (i + 1) + 1 .. n : bytes[j].code # code
    <3> TAKE j \in (i + 1) + 1 .. n
    <3>1. j \in 2 .. n /\ j - 1 \in i + 1 .. n - 1
      BY <1>1, <1>3
    <3> QED BY <1>4, <3>1
  <2> QED BY <1>1, <2>1, <2>2 DEF LastTells
<1>6. ASSUME Absent(rest, code) PROVE \A j \in 2 .. n : bytes[j].code # code
  <2> TAKE j \in 2 .. n
  <2>1. j - 1 \in 1 .. n - 1
    BY <1>1, <1>3
  <2> QED BY <1>3, <1>4, <1>6, <2>1 DEF Absent
<1>7. ASSUME Absent(rest, code), bytes[1].code = code PROVE bytes[1].up <=> ~down
  <2>1. 1 \in 1 .. n /\ \A j \in 1 + 1 .. n : bytes[j].code # code
    BY <1>3, <1>6, <1>7
  <2> QED BY <1>1, <1>7, <2>1 DEF LastTells
<1>8. ASSUME Absent(rest, code), bytes[1].code # code PROVE Absent(bytes, code)
  <2> SUFFICES ASSUME NEW j \in 1 .. n PROVE bytes[j].code # code
    BY <1>1 DEF Absent
  <2>1. j = 1 \/ j \in 2 .. n
    OBVIOUS
  <2> QED BY <1>6, <1>8, <2>1
<1> QED BY <1>2, <1>3, <1>5, <1>7, <1>8

\* A key sends its scancode, behind E0 for an extended one.
ExtendedByte == Byte("E0", FALSE, NoChar)
KeyByte(key, up) ==
  Byte(Code[key], up, IF disturbed THEN NoChar ELSE Char(Code[key], held \cap Shifts # {}, caps_typed))

LEMMA SentIs ==
  ASSUME NEW key \in KeyNames, NEW up \in BOOLEAN, NEW bytes \in Seq(Bytes)
  PROVE  /\ ExtendedByte \in Bytes /\ KeyByte(key, up) \in Bytes
         /\ bytes \o Sent(key, up) = IF key \in ExtendedKeys
                                     THEN Append(Append(bytes, ExtendedByte), KeyByte(key, up))
                                     ELSE Append(bytes, KeyByte(key, up))
<1>1. ExtendedByte \in Bytes
  BY DEF ExtendedByte, Byte, Bytes, AllBytes, KeyChars
<1>2. PICK b : b = KeyByte(key, up)
  OBVIOUS
<1>3. b \in Bytes
  <2>1. PICK code, want : /\ code = Code[key]
                          /\ want = IF disturbed THEN NoChar
                                    ELSE Char(Code[key], held \cap Shifts # {}, caps_typed)
    OBVIOUS
  <2>2. code \in KeyCodes /\ want \in KeyChars
    BY <2>1, KeysHaveCodes, CharIsChar DEF KeyChars
  <2>3. b = [code |-> code, up |-> up, want |-> want]
    BY <1>2, <2>1 DEF KeyByte, Byte
  <2>4. code \notin {"E0", "FA"}
    BY <2>2 DEF KeyCodes
  <2> QED BY <2>2, <2>3, <2>4 DEF Bytes, AllBytes
<1>4. Sent(key, up) = (IF key \in ExtendedKeys THEN <<ExtendedByte>> ELSE <<>>) \o <<b>>
  BY <1>2 DEF Sent, ExtendedByte, KeyByte
<1>5. PICK e : e = ExtendedByte
  OBVIOUS
<1>6. CASE key \in ExtendedKeys
  <2>1. bytes \o (<<e>> \o <<b>>) = Append(Append(bytes, e), b)
    BY <1>1, <1>3, <1>5
  <2> QED BY <1>1, <1>2, <1>3, <1>4, <1>5, <1>6, <2>1
<1>7. CASE key \notin ExtendedKeys
  <2>1. bytes \o (<<>> \o <<b>>) = Append(bytes, b)
    BY <1>3
  <2> QED BY <1>1, <1>2, <1>3, <1>4, <1>7, <2>1
<1> QED BY <1>6, <1>7

\* What a driver that has taken everything so far learns of it: the byte in front of a key
\* that has one, and the key's own.
AfterExtended(key, s) == IF key \in ExtendedKeys THEN Learnt(s, ExtendedByte) ELSE s
AfterKey(key, up, s) ==
  [down |-> IF up THEN s.down \ {key} ELSE s.down \cup ({key} \cap Modifiers),
   caps |-> s.caps # (key = "Caps" /\ ~up), ext |-> FALSE]
LEMMA LearntOfKey ==
  ASSUME NEW key \in KeyNames, NEW up \in BOOLEAN, NEW s \in Known, ~s.ext
  PROVE  Learnt(AfterExtended(key, s), KeyByte(key, up)) = AfterKey(key, up, s)
<1> DEFINE before == AfterExtended(key, s)
<1>1. before = IF key \in ExtendedKeys THEN Learnt(s, ExtendedByte) ELSE s
  BY DEF AfterExtended
<1> HIDE DEF before
<1>2. /\ s.down \subseteq Modifiers /\ s.caps \in BOOLEAN /\ s.ext = FALSE
  BY DEF Known
<1>3. before.down = s.down /\ before.caps = s.caps /\ before.ext = (key \in ExtendedKeys)
  <2>1. CASE key \in ExtendedKeys
    <3>1. before = [down |-> s.down, caps |-> s.caps, ext |-> TRUE]
      BY <1>1, <2>1 DEF Learnt, ExtendedByte, Byte
    <3>2. (key \in ExtendedKeys) = TRUE
      BY <2>1
    <3>3. before.down = s.down /\ before.caps = s.caps /\ before.ext = TRUE
      BY <3>1
    <3> QED BY <3>2, <3>3, Zenon
  <2>2. CASE key \notin ExtendedKeys
    <3>1. before = s
      BY <1>1, <2>2
    <3>2. (key \in ExtendedKeys) = FALSE
      BY <2>2
    <3> QED BY <1>2, <3>1, <3>2, Zenon
  <2> QED BY <2>1, <2>2, Zenon
<1>4. PICK b : b = KeyByte(key, up)
  OBVIOUS
<1>5. b.code = Code[key] /\ b.up = up
  BY <1>4 DEF KeyByte, Byte
<1>6. Code[key] \in KeyCodes /\ (Code[key] = "3A" <=> key = "Caps")
  BY KeysHaveCodes
<1>7. b.code \notin {"E0", "FA"}
  BY <1>5, <1>6 DEF KeyCodes
<1>8. Meant(b.code, before.ext) = {key} \cap Modifiers
  BY <1>3, <1>5, KeysHaveCodes, Zenon
<1>9. Learnt(before, b) = [down |-> IF up THEN s.down \ ({key} \cap Modifiers)
                                          ELSE s.down \cup ({key} \cap Modifiers),
                           caps |-> s.caps # (key = "Caps" /\ ~up), ext |-> FALSE]
  BY <1>3, <1>5, <1>6, <1>7, <1>8 DEF Learnt
<1>10. s.down \ ({key} \cap Modifiers) = s.down \ {key}
  BY <1>2
<1>11. Learnt(before, b) = AfterKey(key, up, s)
  BY <1>9, <1>10 DEF AfterKey
<1> QED BY <1>4, <1>11 DEF before

\* A key is pressed or released.
LEMMA KeyKeeps ==
  ASSUME KeyboardInv, NEW key \in Keys, NEW up \in BOOLEAN,
         held' = IF up THEN held \ {key} ELSE held \cup {key},
         wire' = wire \o Sent(key, up),
         ~disturbed => caps_typed' = (caps_typed # (key = "Caps" /\ ~up)),
         caps_typed' \in BOOLEAN, UNCHANGED DriverVars
  PROVE  KeyboardInv'
<1>1. /\ key \in KeyNames /\ wire \in Seq(Bytes) /\ held \subseteq KeyNames
      /\ caps_typed \in BOOLEAN
  BY KeyboardAssumption, CodeDomain DEF KeyboardInv, KeyboardTypeOK
<1>2. PICK b, e : b = KeyByte(key, up) /\ e = ExtendedByte
  OBVIOUS
<1>3. /\ e \in Bytes /\ b \in Bytes
      /\ wire' = IF key \in ExtendedKeys THEN Append(Append(wire, e), b) ELSE Append(wire, b)
  BY <1>1, <1>2, SentIs
<1>4. /\ kb_down' = kb_down /\ kb_locks' = kb_locks /\ extended_scancode' = extended_scancode
      /\ kb_mode' = kb_mode /\ typed' = typed /\ disturbed' = disturbed /\ lost' = lost
      /\ device_leds' = device_leds
  BY DEF DriverVars
<1>5. PICK before : before = IF key \in ExtendedKeys THEN Append(wire, e) ELSE wire
  OBVIOUS
<1>6. before \in Seq(Bytes) /\ wire' = Append(before, b) /\ wire' \in Seq(Bytes)
  BY <1>1, <1>3, <1>5
<1>7. KeyboardTypeOK'
  <2>1. held' \subseteq KeyNames
    BY <1>1
  <2> QED BY <1>4, <1>6, <2>1 DEF KeyboardInv, KeyboardTypeOK
<1>8. Undisturbed'
  <2> SUFFICES ASSUME ~disturbed PROVE Leads(KnownNow, wire, KnownToUser)'
    BY <1>4 DEF KeyboardInv, Undisturbed
  <2>1. PICK now, user : now = KnownNow /\ user = KnownToUser
    OBVIOUS
  <2>2. Leads(now, wire, user)
    BY <2>1 DEF KeyboardInv, Undisturbed
  <2>3. user \in Known /\ ~user.ext /\ user.down = held \cap Modifiers /\ user.caps = caps_typed
    BY <1>1, <2>1 DEF KnownToUser, Known
  <2>4. PICK there : there = IF key \in ExtendedKeys THEN Learnt(user, e) ELSE user
    OBVIOUS
  <2>5. Leads(now, before, there)
    <3>1. CASE key \in ExtendedKeys
      <4>1. Wanted(e, Learnt(user, e))
        BY <1>2 DEF ExtendedByte, Byte, Wanted
      <4> QED BY <1>1, <1>3, <1>5, <2>2, <2>4, <3>1, <4>1, LeadsFurther
    <3>2. CASE key \notin ExtendedKeys
      BY <1>5, <2>2, <2>4, <3>2
    <3> QED BY <3>1, <3>2
  <2>6. PICK after : after = Learnt(there, b)
    OBVIOUS
  <2>7. after = [down |-> IF up THEN user.down \ {key} ELSE user.down \cup ({key} \cap Modifiers),
                 caps |-> user.caps # (key = "Caps" /\ ~up), ext |-> FALSE]
    <3>1. there = AfterExtended(key, user)
      BY <1>2, <2>4 DEF AfterExtended
    <3>2. user \in Known /\ ~user.ext /\ key \in KeyNames /\ up \in BOOLEAN
      BY <1>1, <2>3
    <3>3. Learnt(AfterExtended(key, user), KeyByte(key, up)) = AfterKey(key, up, user)
      BY <3>2, LearntOfKey
    <3>4. after = AfterKey(key, up, user)
      BY <1>2, <2>6, <3>1, <3>3
    <3> QED BY <3>4 DEF AfterKey
  <2>8. Wanted(b, after)
    <3> SUFFICES ASSUME ~up PROVE b.want = Char(b.code, after.down \cap Shifts # {}, after.caps)
      BY <1>2 DEF Wanted, KeyByte, Byte
    <3>1. /\ b.code = Code[key] /\ b.want = Char(b.code, held \cap Shifts # {}, caps_typed)
      BY <1>2 DEF KeyByte, Byte
    <3>2. CASE Code[key] \in {"1E", "02", "01"}
      <4>1. key \notin Modifiers /\ key # "Caps"
        <5>1. Code["LShift"] = "2A" /\ Code["RShift"] = "36" /\ Code["LCtrl"] = "1D"
              /\ Code["RCtrl"] = "1D" /\ Code["LAlt"] = "38" /\ Code["RAlt"] = "38"
              /\ Code["Caps"] = "3A"
          BY DEF Code
        <5> QED BY <3>2, <5>1 DEF Modifiers, Shifts
      <4>2. after.down \cap Shifts = held \cap Shifts
        BY <2>3, <2>7, <4>1 DEF Modifiers
      <4>3. (key = "Caps" /\ ~up) = FALSE
        BY <4>1
      <4>4. after.caps = (caps_typed # (key = "Caps" /\ ~up))
        BY <2>3, <2>7, Zenon
      <4>5. after.caps = caps_typed
        BY <1>1, <4>3, <4>4
      <4> QED BY <3>1, <4>2, <4>5
    <3>3. CASE Code[key] \notin {"1E", "02", "01"}
      <4>1. \A shift, caps : Char(Code[key], shift, caps) = NoChar
        BY <3>3 DEF Char
      <4> QED BY <3>1, <4>1
    <3> QED BY <3>2, <3>3
  <2>9. Leads(now, Append(before, b), after)
    BY <1>3, <1>6, <2>5, <2>6, <2>8, LeadsFurther
  <2>10. after = KnownToUser'
    <3>1. after.down = held' \cap Modifiers
      BY <2>3, <2>7
    <3>2. caps_typed' = (user.caps # (key = "Caps" /\ ~up))
      BY <2>3
    <3> QED BY <2>7, <3>1, <3>2 DEF KnownToUser
  <2>11. now = KnownNow'
    BY <1>4, <2>1 DEF KnownNow
  <2> QED BY <1>6, <2>9, <2>10, <2>11
<1>9. ShiftsFollow'
  <2> SUFFICES ASSUME NEW shift \in Shifts
               PROVE  /\ LastTells(wire', Code[shift], shift \in held')
                      /\ Absent(wire', Code[shift]) /\ shift \notin lost
                         => (shift \in kb_down <=> shift \in held')
    BY <1>4 DEF ShiftsFollow
  <2>1. PICK code, down : code = Code[shift] /\ down = (shift \in held)
    OBVIOUS
  <2>2. PICK now_down : now_down = (shift \in held')
    OBVIOUS
  <2>3. /\ down \in BOOLEAN /\ (down <=> shift \in held)
        /\ now_down \in BOOLEAN /\ (now_down <=> shift \in held')
    <3>1. down \in BOOLEAN /\ (down <=> shift \in held)
      <4>1. shift \in held => (shift \in held) = TRUE
        OBVIOUS
      <4>2. shift \notin held => (shift \in held) = FALSE
        OBVIOUS
      <4> QED BY <2>1, <4>1, <4>2
    <3>2. now_down \in BOOLEAN /\ (now_down <=> shift \in held')
      <4>1. PICK now : now = held'
        OBVIOUS
      <4>2. now_down \in BOOLEAN /\ (now_down <=> shift \in now)
        <5>1. shift \in now => (shift \in now) = TRUE
          OBVIOUS
        <5>2. shift \notin now => (shift \in now) = FALSE
          OBVIOUS
        <5> QED BY <2>2, <4>1, <5>1, <5>2
      <4> QED BY <4>1, <4>2
    <3> QED BY <3>1, <3>2
  <2>4. /\ LastTells(wire, code, down)
        /\ Absent(wire, code) /\ shift \notin lost => (shift \in kb_down <=> shift \in held)
    BY <2>1 DEF KeyboardInv, ShiftsFollow
  <2>5. b.code = Code[key] /\ b.up = up /\ e.code = "E0"
    BY <1>2 DEF KeyByte, ExtendedByte, Byte
  <2>6. code \in {"2A", "36"} /\ (b.code = code <=> key = shift)
    <3>1. shift \in KeyNames /\ (shift = "LShift" \/ shift = "RShift")
      BY DEF Shifts, KeyNames
    <3>2. Code["LShift"] = "2A" /\ Code["RShift"] = "36"
      BY DEF Code
    <3> QED BY <1>1, <2>1, <2>5, <3>1, <3>2, KeysHaveCodes
  <2>7. /\ LastTells(before, code, down)
        /\ Absent(before, code) => Absent(wire, code)
    BY <1>1, <1>3, <1>5, <2>3, <2>4, <2>5, <2>6, TellsBehind
  <2>8. CASE key = shift
    <3>1. b.up <=> ~now_down
      BY <2>3, <2>5, <2>8
    <3>2. b \in Bytes /\ before \in Seq(Bytes) /\ now_down \in BOOLEAN /\ b.code = code
      BY <1>3, <1>6, <2>3, <2>6, <2>8
    <3>3. LastTells(Append(before, b), code, now_down) /\ ~Absent(Append(before, b), code)
      BY <3>1, <3>2, TellsBehind
    <3> QED BY <1>6, <2>1, <2>2, <3>3
  <2>9. CASE key # shift
    <3>1. down = now_down /\ (shift \in held' <=> shift \in held)
      BY <2>1, <2>2, <2>9
    <3>2. b \in Bytes /\ before \in Seq(Bytes) /\ down \in BOOLEAN /\ b.code # code
      BY <1>3, <1>6, <2>3, <2>6, <2>9
    <3>3. /\ LastTells(Append(before, b), code, down)
          /\ Absent(Append(before, b), code) => Absent(before, code)
      BY <2>7, <3>2, TellsBehind
    <3> QED BY <1>6, <2>1, <2>2, <2>4, <2>7, <3>1, <3>3
  <2> QED BY <2>8, <2>9
<1> QED BY <1>7, <1>8, <1>9 DEF KeyboardInv

LEMMA AcknowledgeKeeps ==
  ASSUME KeyboardInv, Acknowledge
  PROVE  KeyboardInv'
<1>1. PICK b : b = Byte("FA", FALSE, NoChar)
  OBVIOUS
<1>2. b \in Bytes /\ b.code = "FA" /\ ~b.up
  BY <1>1 DEF Byte, Bytes, AllBytes, KeyChars
<1>3. /\ kb_down' = kb_down /\ kb_locks' = kb_locks /\ extended_scancode' = extended_scancode
      /\ kb_mode' = kb_mode /\ typed' = typed /\ disturbed' = disturbed /\ lost' = lost
      /\ device_leds' = device_leds /\ held' = held /\ caps_typed' = caps_typed
      /\ wire' = Append(wire, b)
  BY <1>1 DEF Acknowledge, DriverVars
<1>4. wire \in Seq(Bytes) /\ wire' \in Seq(Bytes) /\ caps_typed \in BOOLEAN
  BY <1>2, <1>3 DEF KeyboardInv, KeyboardTypeOK
<1>5. KeyboardTypeOK'
  BY <1>3, <1>4 DEF KeyboardInv, KeyboardTypeOK
<1>6. Undisturbed'
  <2>1. PICK now, user : now = KnownNow /\ user = KnownToUser
    OBVIOUS
  <2>2. now = KnownNow' /\ user = KnownToUser'
    BY <1>3, <2>1 DEF KnownNow, KnownToUser
  <2>3. Learnt(user, b) = user
    <3>1. user.down = held \cap Modifiers /\ user.caps = caps_typed /\ user.ext = FALSE
      BY <2>1 DEF KnownToUser
    <3>2. Meant("FA", FALSE) = {}
      BY DEF Meant
    <3> QED BY <1>2, <1>4, <2>1, <3>1, <3>2 DEF Learnt, KnownToUser
  <2>4. Wanted(b, user)
    BY <1>2 DEF Wanted
  <2>5. ~disturbed => Leads(now, Append(wire, b), user)
    <3> SUFFICES ASSUME ~disturbed PROVE Leads(now, Append(wire, b), user)
      OBVIOUS
    <3>1. Leads(now, wire, user)
      BY <2>1 DEF KeyboardInv, Undisturbed
    <3> QED BY <1>2, <1>4, <2>3, <2>4, <3>1, LeadsFurther
  <2> QED BY <1>3, <2>2, <2>5 DEF KeyboardInv, Undisturbed
<1>7. ShiftsFollow'
  <2> SUFFICES ASSUME NEW shift \in Shifts
               PROVE  /\ LastTells(wire', Code[shift], shift \in held)
                      /\ Absent(wire', Code[shift]) /\ shift \notin lost
                         => (shift \in kb_down <=> shift \in held)
    BY <1>3 DEF ShiftsFollow
  <2>1. PICK code, down : code = Code[shift] /\ down = (shift \in held)
    OBVIOUS
  <2>2. /\ LastTells(wire, code, down) /\ down \in BOOLEAN
        /\ Absent(wire, code) /\ shift \notin lost => (shift \in kb_down <=> shift \in held)
    BY <2>1 DEF KeyboardInv, ShiftsFollow
  <2>3. b.code # code
    BY <1>2, <2>1 DEF Shifts, Code
  <2>4. LastTells(wire', code, down) /\ (Absent(wire', code) => Absent(wire, code))
    BY <1>2, <1>3, <1>4, <2>2, <2>3, TellsBehind
  <2> QED BY <2>1, <2>2, <2>4
<1> QED BY <1>5, <1>6, <1>7 DEF KeyboardInv

\* A byte is taken: the shift keys are right if it is learnt of or lost.
LEMMA TakenKeepsShifts ==
  ASSUME KeyboardInv, wire # <<>>, wire' = Tail(wire), held' = held,
         \A shift \in Shifts :
           IF Head(wire).code = Code[shift]
           THEN shift \in lost' \/ (shift \in kb_down' <=> ~Head(wire).up)
           ELSE (shift \in kb_down' <=> shift \in kb_down) /\ (shift \notin lost' => shift \notin lost)
  PROVE  ShiftsFollow'
<1> SUFFICES ASSUME NEW shift \in Shifts
             PROVE  /\ LastTells(wire', Code[shift], shift \in held)
                    /\ Absent(wire', Code[shift]) /\ shift \notin lost'
                       => (shift \in kb_down' <=> shift \in held)
  BY DEF ShiftsFollow
<1>1. PICK code, down : code = Code[shift] /\ down = (shift \in held)
  OBVIOUS
<1>2. /\ LastTells(wire, code, down) /\ down \in BOOLEAN
      /\ Absent(wire, code) /\ shift \notin lost => (shift \in kb_down <=> shift \in held)
  BY <1>1 DEF KeyboardInv, ShiftsFollow
<1>3. wire \in Seq(Bytes)
  BY DEF KeyboardInv, KeyboardTypeOK
<1>4. /\ LastTells(Tail(wire), code, down)
      /\ Absent(Tail(wire), code) /\ Head(wire).code = code => (Head(wire).up <=> ~down)
      /\ Absent(Tail(wire), code) /\ Head(wire).code # code => Absent(wire, code)
  BY <1>2, <1>3, TellsOn
<1>5. IF Head(wire).code = code
      THEN shift \in lost' \/ (shift \in kb_down' <=> ~Head(wire).up)
      ELSE (shift \in kb_down' <=> shift \in kb_down) /\ (shift \notin lost' => shift \notin lost)
  BY <1>1
<1>6. down <=> shift \in held
  BY <1>1
<1>7. Absent(Tail(wire), code) /\ shift \notin lost' => (shift \in kb_down' <=> shift \in held)
  BY <1>2, <1>4, <1>5, <1>6
<1> QED BY <1>1, <1>4, <1>7

\* The first byte, and what it means if it is that of a shift key.
LEMMA FirstByte ==
  ASSUME KeyboardInv, wire # <<>>
  PROVE  /\ Head(wire) \in Bytes /\ Tail(wire) \in Seq(Bytes)
         /\ \A shift \in Shifts : \A extended :
              /\ Head(wire).code = Code[shift] => Meant(Head(wire).code, extended) = {shift}
              /\ Head(wire).code # Code[shift] => shift \notin Meant(Head(wire).code, extended)
<1>1. wire \in Seq(Bytes)
  BY DEF KeyboardInv, KeyboardTypeOK
<1>2. Code["LShift"] = "2A" /\ Code["RShift"] = "36"
  BY DEF Code
<1>3. ASSUME NEW shift \in Shifts, NEW extended, NEW code
      PROVE  /\ code = Code[shift] => Meant(code, extended) = {shift}
             /\ code # Code[shift] => shift \notin Meant(code, extended)
  BY <1>2 DEF Shifts, Meant
<1> QED BY <1>1, <1>3

LEMMA GetCharKeeps ==
  ASSUME KeyboardInv, kb_getchar
  PROVE  KeyboardInv'
<1>1. PICK b : b = Head(wire)
  OBVIOUS
<1>2. /\ kb_mode = "poll" /\ wire # <<>> /\ wire' = Tail(wire) /\ held' = held
      /\ caps_typed' = caps_typed /\ device_leds' = device_leds /\ disturbed' = disturbed
      /\ PrefixByte(b) \/ handle_key_release(b) \/ handle_key_press(b)
      /\ lost' = lost \ Meant(b.code, FALSE)
  BY <1>1 DEF kb_getchar, Taken
<1>3. /\ b \in Bytes /\ wire' \in Seq(Bytes)
      /\ \A shift \in Shifts : \A extended :
           /\ b.code = Code[shift] => Meant(b.code, extended) = {shift}
           /\ b.code # Code[shift] => shift \notin Meant(b.code, extended)
  BY <1>1, <1>2, FirstByte
<1>4. /\ wire \in Seq(Bytes) /\ kb_down \subseteq Modifiers /\ extended_scancode \in BOOLEAN
      /\ lost \subseteq Shifts /\ caps_typed \in BOOLEAN
  BY DEF KeyboardInv, KeyboardTypeOK
<1>5. b.up \in BOOLEAN /\ (b.code \in {"E0", "FA"} => ~b.up)
  BY <1>3 DEF Bytes, AllBytes
<1>6. PICK meant : meant = Meant(b.code, extended_scancode)
  OBVIOUS
<1>7. meant \subseteq Modifiers
  BY <1>6 DEF Meant, Modifiers, Shifts
<1>8. PICK caps, caps_now : caps = ("3A" \in kb_locks) /\ caps_now = ("3A" \in kb_locks')
  OBVIOUS
<1>9. /\ kb_down' = IF b.code = "E0" THEN kb_down ELSE
                    IF b.up \/ b.code = "FA" THEN kb_down \ meant ELSE kb_down \cup meant
      /\ extended_scancode' = (b.code = "E0")
      /\ kb_mode' \in {"poll", "command"} /\ (b.code = "E0" => kb_mode' = "poll")
      /\ kb_mode' = "poll" => kb_locks' = kb_locks
      /\ kb_locks' = IF ~b.up /\ b.code \in Locks THEN Toggled(kb_locks, b.code) ELSE kb_locks
  <2>1. CASE PrefixByte(b)
    BY <1>2, <1>5, <2>1 DEF PrefixByte, Locks
  <2>2. CASE handle_key_release(b)
    BY <1>2, <1>5, <1>6, <2>2 DEF handle_key_release, Released, Locks
  <2>3. CASE handle_key_press(b)
    BY <1>2, <1>5, <1>6, <2>3 DEF handle_key_press, Locks
  <2> QED BY <1>2, <2>1, <2>2, <2>3
<1>10. KeyboardTypeOK'
  <2>1. kb_down' \subseteq Modifiers /\ lost' \subseteq Shifts
    BY <1>2, <1>4, <1>7, <1>9
  <2>2. extended_scancode' \in BOOLEAN /\ (kb_mode' # "poll" => ~extended_scancode')
    BY <1>9
  <2> QED BY <1>2, <1>3, <1>9, <2>1, <2>2 DEF KeyboardInv, KeyboardTypeOK
<1>11. ShiftsFollow'
  <2> SUFFICES ASSUME NEW shift \in Shifts
               PROVE  IF b.code = Code[shift]
                      THEN shift \in lost' \/ (shift \in kb_down' <=> ~b.up)
                      ELSE /\ shift \in kb_down' <=> shift \in kb_down
                           /\ shift \notin lost' => shift \notin lost
    BY <1>1, <1>2, TakenKeepsShifts
  <2>1. CASE b.code = Code[shift]
    <3>1. b.code \notin {"E0", "FA"}
      BY <2>1 DEF Code, Shifts
    <3>2. meant = {shift}
      BY <1>3, <1>6, <2>1
    <3> QED BY <1>9, <2>1, <3>1, <3>2
  <2>2. CASE b.code # Code[shift]
    <3>1. shift \notin meant /\ shift \notin Meant(b.code, FALSE)
      BY <1>3, <1>6, <2>2
    <3> QED BY <1>2, <1>9, <2>2, <3>1
  <2> QED BY <2>1, <2>2
<1>12. Undisturbed'
  <2> SUFFICES ASSUME ~disturbed
               PROVE  /\ Leads(KnownNow, wire, KnownToUser)'
                      /\ kb_mode' \in {"poll", "ack2"} => device_leds' = kb_locks'
                      /\ typed'.got = typed'.want
    BY <1>2 DEF Undisturbed
  <2>1. PICK now, user, next : now = KnownNow /\ user = KnownToUser /\ next = KnownNow'
    OBVIOUS
  <2>2. Leads(now, wire, user) /\ device_leds = kb_locks /\ typed.got = typed.want
    BY <1>2, <2>1 DEF KeyboardInv, Undisturbed
  <2>3. Leads(Learnt(now, b), Tail(wire), user) /\ Wanted(b, Learnt(now, b))
    BY <1>1, <1>2, <1>4, <2>2, LeadsOn
  <2>4. caps \in BOOLEAN /\ caps_now = (caps # (b.code = "3A" /\ ~b.up))
    <3>0. \A S : /\ "3A" \in S => ("3A" \in S) = TRUE
                 /\ "3A" \notin S => ("3A" \in S) = FALSE
      OBVIOUS
    <3>1. caps \in BOOLEAN /\ (caps <=> "3A" \in kb_locks)
      BY <1>8, <3>0
    <3>2. caps_now \in BOOLEAN /\ (caps_now <=> "3A" \in kb_locks')
      BY <1>8, <3>0
    <3>3. "3A" \in kb_locks' <=> ("3A" \in kb_locks <=> ~(b.code = "3A" /\ ~b.up))
      BY <1>9 DEF Toggled, Locks
    <3> QED BY <3>1, <3>2, <3>3
  <2>5. next = Learnt(now, b)
    <3>1. now.down = kb_down /\ now.caps = caps /\ now.ext = extended_scancode
      BY <1>8, <2>1 DEF KnownNow
    <3>2. next = [down |-> kb_down', caps |-> caps_now, ext |-> extended_scancode']
      BY <1>8, <2>1 DEF KnownNow
    <3>3. CASE b.code = "E0"
      <4>1. /\ kb_down' = kb_down /\ extended_scancode' = TRUE /\ caps_now = caps
        BY <1>9, <2>4, <3>3
      <4> QED BY <3>1, <3>2, <3>3, <4>1 DEF Learnt
    <3>4. CASE b.code # "E0"
      <4>1. extended_scancode' = FALSE
        BY <1>9, <3>4
      <4>2. kb_down' = IF b.up \/ b.code = "FA" THEN now.down \ Meant(b.code, now.ext)
                                               ELSE now.down \cup Meant(b.code, now.ext)
        BY <1>6, <1>9, <3>1, <3>4
      <4>3. caps_now = (now.caps # (b.code = "3A" /\ ~b.up))
        BY <2>4, <3>1
      <4> QED BY <3>2, <3>4, <4>1, <4>2, <4>3 DEF Learnt
    <3> QED BY <3>3, <3>4
  <2>6. typed'.got = typed'.want
    <3>1. CASE PrefixByte(b)
      BY <2>2, <3>1 DEF PrefixByte
    <3>2. CASE handle_key_release(b)
      BY <2>2, <3>2 DEF handle_key_release
    <3>3. CASE handle_key_press(b)
      <4>1. PICK c : c = Char(b.code, kb_down' \cap Shifts # {}, "3A" \in kb_locks')
        OBVIOUS
      <4>2. typed' = IF c = NoChar THEN typed ELSE [got |-> c, want |-> b.want]
        BY <3>3, <4>1 DEF handle_key_press
      <4>3. ~b.up /\ b.code \notin {"E0", "FA"}
        BY <3>3 DEF handle_key_press
      <4>4. next.down = kb_down' /\ next.caps = ("3A" \in kb_locks')
        BY <2>1 DEF KnownNow
      <4>5. b.want = c
        BY <2>3, <2>5, <4>1, <4>3, <4>4 DEF Wanted
      <4> QED BY <2>2, <4>2, <4>5
    <3> QED BY <1>2, <3>1, <3>2, <3>3
  <2>7. user = KnownToUser'
    BY <1>2, <2>1 DEF KnownToUser
  <2>8. kb_mode' \in {"poll", "ack2"} => device_leds' = kb_locks'
    BY <1>2, <1>9, <2>2
  <2> QED BY <1>2, <2>1, <2>3, <2>5, <2>6, <2>7, <2>8
<1> QED BY <1>10, <1>11, <1>12 DEF KeyboardInv

\* Take, throw away, wait: the other steps of the driver.
LEMMA ThrownAwayKeeps ==
  ASSUME KeyboardInv, wire # <<>>, wire' = Tail(wire), ThrownAway(Head(wire)),
         UNCHANGED <<held, caps_typed, kb_down, kb_locks, extended_scancode, kb_mode>>
  PROVE  KeyboardInv'
<1>1. /\ Tail(wire) \in Seq(Bytes)
      /\ \A shift \in Shifts : \A extended :
           /\ Head(wire).code = Code[shift] => Meant(Head(wire).code, extended) = {shift}
           /\ Head(wire).code # Code[shift] => shift \notin Meant(Head(wire).code, extended)
  BY FirstByte
<1>2. disturbed' = TRUE /\ lost' = lost \cup (Meant(Head(wire).code, FALSE) \cap Shifts)
  BY DEF ThrownAway
<1>3. KeyboardTypeOK'
  BY <1>1, <1>2 DEF KeyboardInv, KeyboardTypeOK
<1>4. ShiftsFollow'
  BY <1>1, <1>2, TakenKeepsShifts
<1> QED BY <1>2, <1>3, <1>4 DEF KeyboardInv, Undisturbed

LEMMA WaitKeeps ==
  ASSUME KeyboardInv, NEW mode \in {"ack", "ack2"}, NEW next \in {"leds", "poll"},
         mode = "ack2" <=> next = "poll", wait_for_ack(mode, next)
  PROVE  KeyboardInv'
<1>1. /\ kb_mode = mode /\ wire # <<>> /\ wire' = Tail(wire) /\ held' = held
      /\ caps_typed' = caps_typed /\ kb_down' = kb_down /\ typed' = typed
      /\ extended_scancode' = extended_scancode /\ device_leds' = device_leds
      /\ kb_locks' = kb_locks
  BY DEF wait_for_ack, Waiting
<1>2. CASE Head(wire).code # "FA"
  BY <1>1, <1>2, ThrownAwayKeeps DEF wait_for_ack
<1>3. CASE Head(wire).code = "FA"
  <2>1. kb_mode' = next /\ disturbed' = disturbed /\ lost' = lost
    BY <1>3 DEF wait_for_ack
  <2>2. wire \in Seq(Bytes) /\ Tail(wire) \in Seq(Bytes) /\ Head(wire) \in Bytes
        /\ kb_down \subseteq Modifiers
    BY <1>1, FirstByte DEF KeyboardInv, KeyboardTypeOK
  <2>3. ~extended_scancode /\ extended_scancode \in BOOLEAN
    BY <1>1 DEF KeyboardInv, KeyboardTypeOK
  <2>4. KeyboardTypeOK'
    BY <1>1, <2>1, <2>2, <2>3 DEF KeyboardInv, KeyboardTypeOK
  <2>5. ShiftsFollow'
    <3> SUFFICES ASSUME NEW shift \in Shifts PROVE Head(wire).code # Code[shift]
      BY <1>1, <2>1, TakenKeepsShifts
    <3> QED BY <1>3 DEF Shifts, Code
  <2>6. Undisturbed'
    <3> SUFFICES ASSUME ~disturbed
                 PROVE  /\ Leads(KnownNow, wire, KnownToUser)'
                        /\ kb_mode' \in {"poll", "ack2"} => device_leds' = kb_locks'
                        /\ typed'.got = typed'.want
      BY <2>1 DEF Undisturbed
    <3>1. PICK now, user : now = KnownNow /\ user = KnownToUser
      OBVIOUS
    <3>2. /\ Leads(now, wire, user) /\ typed.got = typed.want
          /\ mode = "ack2" => device_leds = kb_locks
      BY <1>1, <3>1 DEF KeyboardInv, Undisturbed
    <3>3. Leads(Learnt(now, Head(wire)), Tail(wire), user)
      BY <1>1, <2>2, <3>2, LeadsOn
    <3>4. Learnt(now, Head(wire)) = now
      <4>1. PICK caps : caps = ("3A" \in kb_locks)
        OBVIOUS
      <4>2. caps \in BOOLEAN
        <5>1. "3A" \in kb_locks => ("3A" \in kb_locks) = TRUE
          OBVIOUS
        <5>2. "3A" \notin kb_locks => ("3A" \in kb_locks) = FALSE
          OBVIOUS
        <5> QED BY <4>1, <5>1, <5>2
      <4>3. now = [down |-> kb_down, caps |-> caps, ext |-> FALSE]
        BY <2>3, <3>1, <4>1 DEF KnownNow
      <4>4. Meant("FA", FALSE) = {}
        BY DEF Meant
      <4> QED BY <1>3, <4>2, <4>3, <4>4 DEF Learnt
    <3>5. now = KnownNow' /\ user = KnownToUser'
      BY <1>1, <3>1 DEF KnownNow, KnownToUser
    <3> QED BY <1>1, <2>1, <3>2, <3>3, <3>4, <3>5
  <2> QED BY <2>4, <2>5, <2>6 DEF KeyboardInv
<1> QED BY <1>2, <1>3

\* The commands, and giving up, take nothing.
LEMMA CommandKeeps ==
  ASSUME KeyboardInv, SendCommand \/ SendLeds \/ GiveUpWaiting
  PROVE  KeyboardInv'
<1>1. /\ held' = held /\ caps_typed' = caps_typed /\ wire' = wire /\ kb_down' = kb_down
      /\ extended_scancode' = extended_scancode /\ typed' = typed /\ lost' = lost
      /\ kb_locks' = kb_locks /\ kb_mode # "poll"
      /\ kb_mode' \in {"poll", "ack", "ack2"}
      /\ kb_mode' = "ack2" => device_leds' = kb_locks
      /\ (disturbed' = disturbed /\ kb_mode' # "poll") \/ disturbed' = TRUE
  BY DEF SendCommand, SendLeds, GiveUpWaiting, Waiting
<1>2. KeyboardTypeOK'
  BY <1>1 DEF KeyboardInv, KeyboardTypeOK
<1>3. ShiftsFollow'
  BY <1>1 DEF KeyboardInv, ShiftsFollow
<1>4. PICK now, user : now = KnownNow /\ user = KnownToUser
  OBVIOUS
<1>5. now = KnownNow' /\ user = KnownToUser'
  BY <1>1, <1>4 DEF KnownNow, KnownToUser
<1>6. ~disturbed => Leads(now, wire, user) /\ typed.got = typed.want
  BY <1>4 DEF KeyboardInv, Undisturbed
<1>7. Undisturbed'
  BY <1>1, <1>5, <1>6 DEF Undisturbed
<1> QED BY <1>2, <1>3, <1>7 DEF KeyboardInv

LEMMA KeyboardInvariant == KeyboardSpec => []KeyboardInv
<1>1. KeyboardInit => KeyboardInv
  <2> SUFFICES ASSUME KeyboardInit PROVE KeyboardInv
    OBVIOUS
  <2>1. /\ held = {} /\ caps_typed = FALSE /\ wire = <<>> /\ kb_down = {} /\ kb_locks = {"45"}
        /\ extended_scancode = FALSE /\ kb_mode = "command" /\ disturbed = FALSE /\ lost = {}
        /\ typed = [got |-> NoChar, want |-> NoChar]
    BY DEF KeyboardInit
  <2>2. KeyboardTypeOK
    <3>1. <<>> \in Seq(Bytes)
      OBVIOUS
    <3>2. extended_scancode \in BOOLEAN /\ caps_typed \in BOOLEAN
      BY <2>1
    <3> QED BY <2>1, <3>1, <3>2 DEF KeyboardTypeOK
  <2>3. ShiftsFollow
    BY <2>1 DEF ShiftsFollow, LastTells
  <2>4. PICK s : s = [down |-> {}, caps |-> FALSE, ext |-> FALSE]
    OBVIOUS
  <2>5. s \in Known
    BY <2>4 DEF Known
  <2>6. KnownNow = s /\ KnownToUser = s
    <3>1. ("3A" \in kb_locks) = FALSE
      BY <2>1
    <3>2. held \cap Modifiers = {}
      BY <2>1
    <3> QED BY <2>1, <2>4, <3>1, <3>2 DEF KnownNow, KnownToUser
  <2>7. Leads(s, <<>>, s)
    <3> DEFINE knowledge == [k \in 0 .. 0 |-> s]
    <3>1. Len(<<>>) = 0
      OBVIOUS
    <3>2. knowledge \in [0 .. 0 -> Known] /\ knowledge[0] = s
      BY <2>5
    <3> HIDE DEF knowledge
    <3>3. Follows(knowledge, s, <<>>, s)
      BY <3>1, <3>2 DEF Follows
    <3> QED BY <3>3 DEF Leads
  <2>8. Undisturbed
    BY <2>1, <2>6, <2>7 DEF Undisturbed
  <2> QED BY <2>2, <2>3, <2>8 DEF KeyboardInv
<1>2. KeyboardInv /\ [KeyboardNext]_keyboard_vars => KeyboardInv'
  <2> SUFFICES ASSUME KeyboardInv, [KeyboardNext]_keyboard_vars PROVE KeyboardInv'
    OBVIOUS
  <2>1. ASSUME NEW key \in Keys, Press(key) PROVE KeyboardInv'
    <3>1. /\ held' = IF FALSE THEN held \ {key} ELSE held \cup {key}
          /\ wire' = wire \o Sent(key, FALSE)
          /\ caps_typed' = (~disturbed /\ caps_typed # (key = "Caps")) /\ UNCHANGED DriverVars
      BY <2>1 DEF Press
    <3>2. caps_typed' \in BOOLEAN
      BY <3>1
    <3>3. ~disturbed => caps_typed' = (caps_typed # (key = "Caps" /\ ~FALSE))
      BY <3>1
    <3> QED BY <3>1, <3>2, <3>3, KeyKeeps
  <2>2. ASSUME NEW key \in Keys, Release(key) PROVE KeyboardInv'
    <3>1. /\ held' = IF TRUE THEN held \ {key} ELSE held \cup {key}
          /\ wire' = wire \o Sent(key, TRUE)
          /\ caps_typed' = caps_typed /\ UNCHANGED DriverVars
      BY <2>2 DEF Release
    <3>2. caps_typed \in BOOLEAN
      BY DEF KeyboardInv, KeyboardTypeOK
    <3>3. ~disturbed => caps_typed' = (caps_typed # (key = "Caps" /\ ~TRUE))
      BY <3>1, <3>2
    <3> QED BY <3>1, <3>2, <3>3, KeyKeeps
  <2>3. CASE kb_check_escape
    BY <2>3, ThrownAwayKeeps DEF kb_check_escape, Taken
  <2>4. CASE wait_for_ack("ack", "leds") \/ wait_for_ack("ack2", "poll")
    BY <2>4, WaitKeeps
  <2>5. CASE UNCHANGED keyboard_vars
    <3>1. /\ held' = held /\ caps_typed' = caps_typed /\ wire' = wire /\ kb_down' = kb_down
          /\ extended_scancode' = extended_scancode /\ typed' = typed /\ lost' = lost
          /\ kb_locks' = kb_locks /\ kb_mode' = kb_mode /\ device_leds' = device_leds
          /\ disturbed' = disturbed
      BY <2>5 DEF keyboard_vars
    <3>2. PICK now, user : now = KnownNow /\ user = KnownToUser
      OBVIOUS
    <3>3. now = KnownNow' /\ user = KnownToUser'
      BY <3>1, <3>2 DEF KnownNow, KnownToUser
    <3>4. ~disturbed => Leads(now, wire, user)
      BY <3>2 DEF KeyboardInv, Undisturbed
    <3>5. Undisturbed'
      BY <3>1, <3>3, <3>4 DEF KeyboardInv, Undisturbed
    <3> QED BY <3>1, <3>5 DEF KeyboardInv, KeyboardTypeOK, ShiftsFollow
  <2> QED BY <2>1, <2>2, <2>3, <2>4, <2>5, AcknowledgeKeeps, GetCharKeeps, CommandKeeps
          DEF KeyboardNext
<1> QED BY <1>1, <1>2, PTL DEF KeyboardSpec

\* No shift key sticks but by a scancode that was thrown away, and until one was, the driver that has
\* caught up knows the modifiers and the lock, and what it typed is what the keys stood for, however
\* many bytes it was behind (keyboard.c:87-212).
THEOREM KeysStayTracked == KeyboardSpec => []KeysAreTracked
<1>1. KeyboardInv => KeysAreTracked
  <2> SUFFICES ASSUME KeyboardInv PROVE KeysAreTracked
    OBVIOUS
  <2>1. ASSUME wire = <<>>, NEW key \in Shifts \ lost PROVE key \in kb_down <=> key \in held
    <3>1. Absent(wire, Code[key])
      BY <2>1 DEF Absent
    <3> QED BY <3>1 DEF KeyboardInv, ShiftsFollow
  <2>2. ASSUME ~disturbed PROVE typed.got = typed.want
    BY <2>2 DEF KeyboardInv, Undisturbed
  <2>3. ASSUME ~disturbed, wire = <<>>, kb_mode = "poll"
        PROVE  /\ kb_down = held \cap Modifiers
               /\ device_leds = kb_locks /\ caps_typed = ("3A" \in kb_locks)
    <3>1. PICK now, user : now = KnownNow /\ user = KnownToUser
      OBVIOUS
    <3>2. Leads(now, wire, user) /\ device_leds = kb_locks
      BY <2>3, <3>1 DEF KeyboardInv, Undisturbed
    <3>3. PICK knowledge : Follows(knowledge, now, <<>>, user)
      BY <2>3, <3>2 DEF Leads
    <3>4. now = user
      BY <3>3 DEF Follows
    <3>5. now.down = kb_down /\ now.caps = ("3A" \in kb_locks)
      BY <3>1 DEF KnownNow
    <3>6. user.down = held \cap Modifiers /\ user.caps = caps_typed
      BY <3>1 DEF KnownToUser
    <3> QED BY <3>2, <3>4, <3>5, <3>6
  <2> QED BY <2>1, <2>2, <2>3 DEF KeysAreTracked
<1> QED BY <1>1, KeyboardInvariant, PTL

-----------------------------------------------------------------------------
(* The display driver: what it keeps of a line of the display is the line, *)
(* or an event is pending that the handler has still to serve.             *)

Timings == {standard_timings[r] : r \in 0 .. 5} \cup {DefaultTiming} \cup CustomTimings
Audios == {DefaultAudio} \cup AudioConfigs

Device ==
  [initialized : BOOLEAN, lines : [Kinds -> BOOLEAN], mask : SUBSET Kinds, resolution : 0 .. 5,
   timing : Timings, depth : {8, 10, 12, 16}, audio : Audios, audio_enabled : BOOLEAN,
   hdcp_enabled : BOOLEAN]
Registers ==
  [ctrl : SUBSET {"audio", "hdcp", "video", "enable"}, mask : SUBSET Kinds, pending : SUBSET Kinds,
   timing : Timings, depth : {8, 10, 12, 16}, audio : Audios]

Settings == {"timing", "depth", "audio", "mask"}

HdmiTypeOK ==
  /\ hdmi \in Device
  /\ hdmi_reg \in Registers
  /\ display \in [Kinds -> BOOLEAN]
  /\ handler \in [at : {"idle", "hotplug", "stability", "clear"}, status : SUBSET Kinds]
  /\ known \subseteq Kinds /\ missed \subseteq Kinds
  /\ chosen \subseteq Settings

SettingsKept == RegistersAgree

\* The event of k is one the handler has served and is about to clear.
Served(k) == k \in handler.status /\ (handler.at = "clear" \/ (handler.at = "stability" /\ k = "hotplug"))

EventsKept ==
  /\ handler.at = "idle" => handler.status = {}
  /\ \A k \in known \ missed :
       hdmi.lines[k] = display[k] \/ (k \in hdmi_reg.pending /\ ~Served(k))

HdmiInv == HdmiTypeOK /\ SettingsKept /\ EventsKept

\* A call between interrupts that leaves the lines alone.
LEMMA CalmEvents ==
  ASSUME HdmiInv, Calm, UNCHANGED <<display, handler, known, missed>>,
         hdmi'.lines = hdmi.lines, hdmi_reg'.pending = hdmi_reg.pending
  PROVE  EventsKept'
BY DEF HdmiInv, EventsKept, Served

\* Where the enabled parts and the control register stay, the settings agree as long as the chosen
\* ones do.
LEMMA SettingsStay ==
  ASSUME HdmiInv, hdmi.initialized,
         hdmi'.initialized = hdmi.initialized,
         hdmi'.audio_enabled = hdmi.audio_enabled, hdmi'.hdcp_enabled = hdmi.hdcp_enabled,
         hdmi_reg'.ctrl = hdmi_reg.ctrl,
         \A s \in chosen' : hdmi'[s] = hdmi_reg'[s]
  PROVE  SettingsKept'
<1>1. /\ hdmi.audio_enabled = ("audio" \in hdmi_reg.ctrl)
      /\ hdmi.hdcp_enabled = ("hdcp" \in hdmi_reg.ctrl)
  BY DEF HdmiInv, SettingsKept, RegistersAgree
<1>2. /\ hdmi'.audio_enabled = ("audio" \in hdmi_reg'.ctrl)
      /\ hdmi'.hdcp_enabled = ("hdcp" \in hdmi_reg'.ctrl)
  BY <1>1, Zenon
<1> QED BY <1>2 DEF SettingsKept, RegistersAgree

\* What the invariant says of the settings while the driver runs.
LEMMA SettingsHold ==
  ASSUME HdmiInv, hdmi.initialized
  PROVE  \A s \in chosen : hdmi[s] = hdmi_reg[s]
BY DEF HdmiInv, SettingsKept, RegistersAgree

\* A step that changes neither the device structure nor what the registers hold of it.
LEMMA SettingsUntouched ==
  ASSUME HdmiInv, UNCHANGED <<hdmi, chosen>>,
         hdmi_reg'.ctrl = hdmi_reg.ctrl, hdmi_reg'.mask = hdmi_reg.mask,
         hdmi_reg'.timing = hdmi_reg.timing, hdmi_reg'.depth = hdmi_reg.depth,
         hdmi_reg'.audio = hdmi_reg.audio
  PROVE  SettingsKept'
<1>1. SettingsKept /\ chosen \subseteq Settings
  BY DEF HdmiInv, HdmiTypeOK
<1>2. ASSUME NEW s \in chosen PROVE hdmi_reg'[s] = hdmi_reg[s]
  <2>1. s \in Settings
    BY <1>1
  <2> QED BY <2>1 DEF Settings
<1>3. hdmi.initialized => \A s \in chosen : hdmi[s] = hdmi_reg'[s]
  BY <1>1, <1>2 DEF SettingsKept, RegistersAgree
<1> QED BY <1>1, <1>3 DEF SettingsKept, RegistersAgree

LEMMA PresetsAreValid ==
  \A r \in 0 .. 5 : hdmi_validate_timing(standard_timings[r]) /\ standard_timings[r] \in Timings
<1> SUFFICES ASSUME NEW r \in 0 .. 5 PROVE hdmi_validate_timing(standard_timings[r])
  BY DEF Timings
<1>1. r \in {0, 1, 2, 3, 4, 5}
  OBVIOUS
<1> QED BY <1>1 DEF hdmi_validate_timing, standard_timings

\* A setting is written to the register and to the device, or, if it is refused, to neither.
LEMMA SetTimingInv ==
  ASSUME HdmiInv, SetTiming
  PROVE  HdmiInv'
<1>1. /\ hdmi \in Device /\ hdmi_reg \in Registers
      /\ UNCHANGED <<display, handler, known, missed>> /\ Calm /\ hdmi.initialized
  BY DEF HdmiInv, HdmiTypeOK, SetTiming, Initialized
<1>2. CASE hdmi' = hdmi /\ UNCHANGED <<hdmi_reg, chosen>>
  BY <1>1, <1>2 DEF HdmiInv, HdmiTypeOK, SettingsKept, RegistersAgree, EventsKept, Served
<1>3. CASE ~(hdmi' = hdmi /\ UNCHANGED <<hdmi_reg, chosen>>)
  <2>1. PICK t \in Timings, r \in 0 .. 5 :
          /\ hdmi' = [hdmi EXCEPT !.resolution = r, !.timing = t]
          /\ hdmi_reg' = [hdmi_reg EXCEPT !.timing = t]
          /\ chosen' = chosen \cup {"timing"}
    <3>1. CASE \E r \in Resolutions :
                 hdmi_set_custom_timing(standard_timings[r],
                   [hdmi EXCEPT !.resolution = r, !.timing = standard_timings[r]])
      <4>1. PICK r \in Resolutions :
              hdmi_set_custom_timing(standard_timings[r],
                [hdmi EXCEPT !.resolution = r, !.timing = standard_timings[r]])
        BY <3>1
      <4>2. r \in 0 .. 5
        BY HdmiAssumption
      <4>3. PICK t : t = standard_timings[r]
        OBVIOUS
      <4>4. hdmi_validate_timing(t) /\ t \in Timings
        BY <4>2, <4>3, PresetsAreValid
      <4>5. /\ hdmi' = [[hdmi EXCEPT !.resolution = r, !.timing = t] EXCEPT !.timing = t]
            /\ hdmi_reg' = [hdmi_reg EXCEPT !.timing = t]
            /\ chosen' = chosen \cup {"timing"}
        BY <4>1, <4>3, <4>4 DEF hdmi_set_custom_timing
      <4>6. hdmi' = [hdmi EXCEPT !.resolution = r, !.timing = t]
        BY <1>1, <4>5 DEF Device
      <4> QED BY <4>2, <4>4, <4>5, <4>6
    <3>2. CASE \E t \in CustomTimings : hdmi_set_custom_timing(t, hdmi)
      <4>1. PICK t \in CustomTimings : hdmi_set_custom_timing(t, hdmi)
        BY <3>2
      <4>2. /\ hdmi' = [hdmi EXCEPT !.timing = t]
            /\ hdmi_reg' = [hdmi_reg EXCEPT !.timing = t]
            /\ chosen' = chosen \cup {"timing"}
        BY <1>3, <4>1 DEF hdmi_set_custom_timing
      <4>3. PICK r : r = hdmi.resolution
        OBVIOUS
      <4>4. r \in 0 .. 5 /\ hdmi' = [hdmi EXCEPT !.resolution = r, !.timing = t]
        BY <1>1, <4>2, <4>3 DEF Device
      <4> QED BY <4>2, <4>4 DEF Timings
    <3> QED BY <3>1, <3>2 DEF SetTiming
  <2>2. /\ hdmi' \in Device /\ hdmi_reg' \in Registers
        /\ hdmi'.timing = t /\ hdmi_reg'.timing = t
        /\ hdmi'.lines = hdmi.lines /\ hdmi'.mask = hdmi.mask
        /\ hdmi'.initialized = hdmi.initialized /\ hdmi'.audio_enabled = hdmi.audio_enabled
        /\ hdmi'.hdcp_enabled = hdmi.hdcp_enabled /\ hdmi'.depth = hdmi.depth
        /\ hdmi'.audio = hdmi.audio
        /\ hdmi_reg'.ctrl = hdmi_reg.ctrl /\ hdmi_reg'.mask = hdmi_reg.mask
        /\ hdmi_reg'.pending = hdmi_reg.pending /\ hdmi_reg'.depth = hdmi_reg.depth
        /\ hdmi_reg'.audio = hdmi_reg.audio
    BY <1>1, <2>1 DEF Device, Registers
  <2>3. chosen \subseteq Settings
    BY DEF HdmiInv, HdmiTypeOK
  <2>4. HdmiTypeOK'
    BY <1>1, <2>1, <2>2, <2>3 DEF HdmiInv, HdmiTypeOK, Settings
  <2>5. SettingsKept'
    <3>1. \A s \in chosen : hdmi[s] = hdmi_reg[s]
      BY <1>1, SettingsHold
    <3>2. ASSUME NEW s \in chosen' PROVE hdmi'[s] = hdmi_reg'[s]
      BY <2>1, <2>2, <2>3, <3>1 DEF Settings
    <3> QED BY <1>1, <2>2, <3>1, <3>2, SettingsStay
  <2>6. EventsKept'
    BY <1>1, <2>2, CalmEvents
  <2> QED BY <2>4, <2>5, <2>6 DEF HdmiInv
<1> QED BY <1>2, <1>3

LEMMA SetDepthInv ==
  ASSUME HdmiInv, NEW d, hdmi_set_color_depth(d)
  PROVE  HdmiInv'
<1>1. /\ hdmi \in Device /\ hdmi_reg \in Registers
      /\ UNCHANGED <<display, handler, known, missed>> /\ Calm /\ hdmi.initialized
      /\ chosen \subseteq Settings
  BY DEF HdmiInv, HdmiTypeOK, hdmi_set_color_depth, Initialized
<1>2. /\ hdmi' = [hdmi EXCEPT !.depth = d] /\ hdmi_reg' = [hdmi_reg EXCEPT !.depth = d]
      /\ chosen' = chosen \cup {"depth"} /\ d \in {8, 10, 12, 16}
  BY DEF hdmi_set_color_depth
<1>3. /\ hdmi' \in Device /\ hdmi_reg' \in Registers
      /\ hdmi'.depth = d /\ hdmi_reg'.depth = d
      /\ hdmi'.lines = hdmi.lines /\ hdmi'.mask = hdmi.mask
      /\ hdmi'.initialized = hdmi.initialized /\ hdmi'.audio_enabled = hdmi.audio_enabled
      /\ hdmi'.hdcp_enabled = hdmi.hdcp_enabled /\ hdmi'.timing = hdmi.timing
      /\ hdmi'.audio = hdmi.audio
      /\ hdmi_reg'.ctrl = hdmi_reg.ctrl /\ hdmi_reg'.mask = hdmi_reg.mask
      /\ hdmi_reg'.pending = hdmi_reg.pending /\ hdmi_reg'.timing = hdmi_reg.timing
      /\ hdmi_reg'.audio = hdmi_reg.audio
  BY <1>1, <1>2 DEF Device, Registers
<1>4. HdmiTypeOK'
  BY <1>1, <1>2, <1>3 DEF HdmiInv, HdmiTypeOK, Settings
<1>5. SettingsKept'
  <2>1. \A s \in chosen : hdmi[s] = hdmi_reg[s]
    BY <1>1, SettingsHold
  <2>2. ASSUME NEW s \in chosen' PROVE hdmi'[s] = hdmi_reg'[s]
    <3>1. CASE s = "depth"
      BY <1>3, <3>1
    <3>2. CASE s # "depth"
      <4>1. s \in chosen /\ s \in {"timing", "audio", "mask"}
        BY <1>1, <1>2, <2>2, <3>2 DEF Settings
      <4>2. hdmi[s] = hdmi_reg[s]
        BY <2>1, <4>1
      <4> QED BY <1>3, <4>1, <4>2
    <3> QED BY <3>1, <3>2
  <2> QED BY <1>1, <1>3, <2>1, <2>2, SettingsStay
<1>6. EventsKept'
  BY <1>1, <1>3, CalmEvents
<1> QED BY <1>4, <1>5, <1>6 DEF HdmiInv

LEMMA SetAudioInv ==
  ASSUME HdmiInv, NEW a \in AudioConfigs, hdmi_set_audio_config(a)
  PROVE  HdmiInv'
<1>1. /\ hdmi \in Device /\ hdmi_reg \in Registers
      /\ UNCHANGED <<display, handler, known, missed>> /\ Calm /\ hdmi.initialized
      /\ chosen \subseteq Settings
  BY DEF HdmiInv, HdmiTypeOK, hdmi_set_audio_config, Initialized
<1>2. /\ hdmi' = [hdmi EXCEPT !.audio = a] /\ hdmi_reg' = [hdmi_reg EXCEPT !.audio = a]
      /\ chosen' = chosen \cup {"audio"} /\ a \in Audios
  BY DEF hdmi_set_audio_config, Audios
<1>3. /\ hdmi' \in Device /\ hdmi_reg' \in Registers
      /\ hdmi'.audio = a /\ hdmi_reg'.audio = a
      /\ hdmi'.lines = hdmi.lines /\ hdmi'.mask = hdmi.mask
      /\ hdmi'.initialized = hdmi.initialized /\ hdmi'.audio_enabled = hdmi.audio_enabled
      /\ hdmi'.hdcp_enabled = hdmi.hdcp_enabled /\ hdmi'.timing = hdmi.timing
      /\ hdmi'.depth = hdmi.depth
      /\ hdmi_reg'.ctrl = hdmi_reg.ctrl /\ hdmi_reg'.mask = hdmi_reg.mask
      /\ hdmi_reg'.pending = hdmi_reg.pending /\ hdmi_reg'.timing = hdmi_reg.timing
      /\ hdmi_reg'.depth = hdmi_reg.depth
  BY <1>1, <1>2 DEF Device, Registers
<1>4. HdmiTypeOK'
  BY <1>1, <1>2, <1>3 DEF HdmiInv, HdmiTypeOK, Settings
<1>5. SettingsKept'
  <2>1. \A s \in chosen : hdmi[s] = hdmi_reg[s]
    BY <1>1, SettingsHold
  <2>2. ASSUME NEW s \in chosen' PROVE hdmi'[s] = hdmi_reg'[s]
    <3>1. CASE s = "audio"
      BY <1>3, <3>1
    <3>2. CASE s # "audio"
      <4>1. s \in chosen /\ s \in {"timing", "depth", "mask"}
        BY <1>1, <1>2, <2>2, <3>2 DEF Settings
      <4>2. hdmi[s] = hdmi_reg[s]
        BY <2>1, <4>1
      <4> QED BY <1>3, <4>1, <4>2
    <3> QED BY <3>1, <3>2
  <2> QED BY <1>1, <1>3, <2>1, <2>2, SettingsStay
<1>6. EventsKept'
  BY <1>1, <1>3, CalmEvents
<1> QED BY <1>4, <1>5, <1>6 DEF HdmiInv

LEMMA EnableInv ==
  ASSUME HdmiInv, NEW enable \in BOOLEAN, Enable(enable)
  PROVE  HdmiInv'
<1>1. /\ hdmi \in Device /\ hdmi_reg \in Registers
      /\ UNCHANGED <<display, handler, known, missed, chosen>> /\ Calm /\ hdmi.initialized
  BY DEF HdmiInv, HdmiTypeOK, Enable, Initialized
<1>2. PICK bit \in {"audio", "hdcp", "video", "enable"} :
        /\ hdmi_reg' = [hdmi_reg EXCEPT !.ctrl = IF enable THEN @ \cup {bit} ELSE @ \ {bit}]
        /\ hdmi' = IF bit = "audio" THEN [hdmi EXCEPT !.audio_enabled = enable]
                   ELSE IF bit = "hdcp" THEN [hdmi EXCEPT !.hdcp_enabled = enable] ELSE hdmi
  BY DEF Enable, Control, hdmi_enable_audio, hdmi_enable_hdcp, hdmi_enable_video, hdmi_enable
<1>3. PICK ctrl : ctrl = IF enable THEN hdmi_reg.ctrl \cup {bit} ELSE hdmi_reg.ctrl \ {bit}
  OBVIOUS
<1>4. /\ hdmi_reg' \in Registers /\ hdmi_reg'.ctrl = ctrl
      /\ hdmi_reg'.mask = hdmi_reg.mask /\ hdmi_reg'.pending = hdmi_reg.pending
      /\ hdmi_reg'.timing = hdmi_reg.timing /\ hdmi_reg'.depth = hdmi_reg.depth
      /\ hdmi_reg'.audio = hdmi_reg.audio
  BY <1>1, <1>2, <1>3 DEF Registers
<1>5. /\ hdmi' \in Device
      /\ hdmi'.audio_enabled = IF bit = "audio" THEN enable ELSE hdmi.audio_enabled
      /\ hdmi'.hdcp_enabled = IF bit = "hdcp" THEN enable ELSE hdmi.hdcp_enabled
      /\ hdmi'.lines = hdmi.lines /\ hdmi'.mask = hdmi.mask
      /\ hdmi'.initialized = hdmi.initialized /\ hdmi'.timing = hdmi.timing
      /\ hdmi'.depth = hdmi.depth /\ hdmi'.audio = hdmi.audio
  <2>1. CASE bit = "audio"
    BY <1>1, <1>2, <2>1 DEF Device
  <2>2. CASE bit = "hdcp"
    BY <1>1, <1>2, <2>2 DEF Device
  <2>3. CASE bit \notin {"audio", "hdcp"}
    BY <1>1, <1>2, <2>3
  <2> QED BY <2>1, <2>2, <2>3
<1>6. HdmiTypeOK'
  BY <1>1, <1>4, <1>5 DEF HdmiInv, HdmiTypeOK
<1>7. SettingsKept'
  <2>1. /\ hdmi.audio_enabled = ("audio" \in hdmi_reg.ctrl)
        /\ hdmi.hdcp_enabled = ("hdcp" \in hdmi_reg.ctrl)
        /\ \A s \in chosen : hdmi[s] = hdmi_reg[s]
        /\ chosen \subseteq Settings
    BY <1>1 DEF HdmiInv, HdmiTypeOK, SettingsKept, RegistersAgree
  <2>2. \A s \in chosen' : hdmi'[s] = hdmi_reg'[s]
    BY <1>1, <1>4, <1>5, <2>1 DEF Settings
  <2>3. ("audio" \in ctrl) = IF bit = "audio" THEN enable ELSE ("audio" \in hdmi_reg.ctrl)
    BY <1>3
  <2>4. ("hdcp" \in ctrl) = IF bit = "hdcp" THEN enable ELSE ("hdcp" \in hdmi_reg.ctrl)
    BY <1>3
  <2> QED BY <1>1, <1>4, <1>5, <2>1, <2>2, <2>3, <2>4 DEF SettingsKept, RegistersAgree
<1>8. EventsKept'
  BY <1>1, <1>4, <1>5, CalmEvents
<1> QED BY <1>6, <1>7, <1>8 DEF HdmiInv

LEMMA SetMaskInv ==
  ASSUME HdmiInv, NEW mask \in SUBSET Kinds, hdmi_set_interrupt_mask(mask)
  PROVE  HdmiInv'
<1>1. /\ hdmi \in Device /\ hdmi_reg \in Registers
      /\ UNCHANGED <<display, handler, known, missed>> /\ Calm /\ hdmi.initialized
      /\ chosen \subseteq Settings /\ chosen' = chosen \cup {"mask"}
      /\ hdmi' = [hdmi EXCEPT !.mask = mask] /\ hdmi_reg' = [hdmi_reg EXCEPT !.mask = mask]
  BY DEF HdmiInv, HdmiTypeOK, hdmi_set_interrupt_mask, Initialized
<1>2. /\ hdmi' \in Device /\ hdmi_reg' \in Registers
      /\ hdmi'.mask = mask /\ hdmi_reg'.mask = mask
      /\ hdmi'.lines = hdmi.lines /\ hdmi'.audio = hdmi.audio
      /\ hdmi'.initialized = hdmi.initialized /\ hdmi'.audio_enabled = hdmi.audio_enabled
      /\ hdmi'.hdcp_enabled = hdmi.hdcp_enabled /\ hdmi'.timing = hdmi.timing
      /\ hdmi'.depth = hdmi.depth
      /\ hdmi_reg'.ctrl = hdmi_reg.ctrl /\ hdmi_reg'.audio = hdmi_reg.audio
      /\ hdmi_reg'.pending = hdmi_reg.pending /\ hdmi_reg'.timing = hdmi_reg.timing
      /\ hdmi_reg'.depth = hdmi_reg.depth
  BY <1>1 DEF Device, Registers
<1>3. HdmiTypeOK'
  BY <1>1, <1>2 DEF HdmiInv, HdmiTypeOK, Settings
<1>4. SettingsKept'
  <2>1. \A s \in chosen : hdmi[s] = hdmi_reg[s]
    BY <1>1, SettingsHold
  <2>2. ASSUME NEW s \in chosen' PROVE hdmi'[s] = hdmi_reg'[s]
    <3>1. CASE s = "mask"
      BY <1>2, <3>1
    <3>2. CASE s # "mask"
      <4>1. s \in chosen /\ s \in {"timing", "depth", "audio"}
        BY <1>1, <2>2, <3>2 DEF Settings
      <4>2. hdmi[s] = hdmi_reg[s]
        BY <2>1, <4>1
      <4> QED BY <1>2, <4>1, <4>2
    <3> QED BY <3>1, <3>2
  <2> QED BY <1>1, <1>2, <2>2, SettingsStay
<1>5. EventsKept'
  BY <1>1, <1>2, CalmEvents
<1> QED BY <1>3, <1>4, <1>5 DEF HdmiInv

\* Nothing is known and nothing chosen after initialisation.
LEMMA HdmiInitInv ==
  ASSUME HdmiInv, hdmi_init
  PROVE  HdmiInv'
<1>1. /\ hdmi_reg \in Registers
      /\ known' = {} /\ missed' = {} /\ chosen' = {} /\ UNCHANGED <<display, handler>> /\ Calm
  BY DEF HdmiInv, HdmiTypeOK, SettingsKept, hdmi_init
<1>2. hdmi_reg' = [hdmi_reg EXCEPT !.ctrl = {}]
  BY DEF hdmi_init, hdmi_reset
<1>3. hdmi_reg' \in Registers /\ hdmi_reg'.ctrl = {}
  BY <1>1, <1>2 DEF Registers
<1>4. /\ hdmi' \in Device /\ hdmi'.audio_enabled = FALSE
      /\ hdmi'.hdcp_enabled = FALSE /\ hdmi'.initialized = TRUE
  <2>1. DefaultTiming \in Timings /\ DefaultAudio \in Audios
    BY DEF Timings, Audios
  <2>2. HDMI_RES_1920x1080_60Hz \in 0 .. 5
    BY DEF HDMI_RES_1920x1080_60Hz
  <2>3. [k \in Kinds |-> FALSE] \in [Kinds -> BOOLEAN]
    OBVIOUS
  <2> QED BY <2>1, <2>2, <2>3 DEF hdmi_init, Device
<1>5. HdmiTypeOK'
  BY <1>1, <1>3, <1>4 DEF HdmiInv, HdmiTypeOK
<1>6. SettingsKept'
  <2>1. ("audio" \in hdmi_reg'.ctrl) = FALSE /\ ("hdcp" \in hdmi_reg'.ctrl) = FALSE
    BY <1>3
  <2>2. /\ hdmi'.audio_enabled = ("audio" \in hdmi_reg'.ctrl)
        /\ hdmi'.hdcp_enabled = ("hdcp" \in hdmi_reg'.ctrl)
    BY <1>4, <2>1, Zenon
  <2> QED BY <1>1, <1>3, <1>4, <2>2 DEF SettingsKept, RegistersAgree
<1>7. EventsKept'
  BY <1>1 DEF HdmiInv, EventsKept, Calm
<1> QED BY <1>5, <1>6, <1>7 DEF HdmiInv

LEMMA HdmiDeinitInv ==
  ASSUME HdmiInv, hdmi_deinit
  PROVE  HdmiInv'
<1>1. /\ hdmi \in Device /\ hdmi_reg \in Registers
      /\ UNCHANGED <<display, handler, known, missed, chosen>> /\ Calm
      /\ hdmi' = [hdmi EXCEPT !.initialized = FALSE, !.mask = {}]
      /\ hdmi_reg' = [[hdmi_reg EXCEPT !.ctrl = {}] EXCEPT !.mask = {}]
  BY DEF HdmiInv, HdmiTypeOK, hdmi_deinit, Initialized, hdmi_reset
<1>2. /\ hdmi' \in Device /\ hdmi_reg' \in Registers
      /\ hdmi'.initialized = FALSE
      /\ hdmi'.lines = hdmi.lines /\ hdmi_reg'.pending = hdmi_reg.pending
  BY <1>1 DEF Device, Registers
<1>3. HdmiTypeOK'
  BY <1>1, <1>2 DEF HdmiInv, HdmiTypeOK
<1>4. SettingsKept'
  BY <1>2 DEF SettingsKept, RegistersAgree
<1>5. EventsKept'
  BY <1>1, <1>2, CalmEvents
<1> QED BY <1>3, <1>4, <1>5 DEF HdmiInv

\* The status of a line is read, by a caller or by the handler when it serves the event.
LEMMA StatusRead ==
  ASSUME HdmiInv, NEW k \in Kinds,
         hdmi' = [hdmi EXCEPT !.lines[k] = display[k]],
         known' = known \cup {k}, missed' = missed \ {k},
         UNCHANGED <<hdmi_reg, display, chosen>>,
         handler' \in [at : {"idle", "hotplug", "stability", "clear"}, status : SUBSET Kinds],
         handler'.status = handler.status, handler'.at = "idle" => handler.at = "idle",
         \A l \in Kinds \ {k} : Served(l)' => Served(l)
  PROVE  HdmiInv'
<1>1. hdmi \in Device /\ display \in [Kinds -> BOOLEAN] /\ hdmi.lines \in [Kinds -> BOOLEAN]
      /\ known \subseteq Kinds /\ missed \subseteq Kinds /\ hdmi_reg \in Registers
  BY DEF HdmiInv, HdmiTypeOK, Device
<1>2. /\ hdmi' \in Device
      /\ hdmi'.lines = [hdmi.lines EXCEPT ![k] = display[k]]
      /\ hdmi'.initialized = hdmi.initialized /\ hdmi'.mask = hdmi.mask
      /\ hdmi'.audio_enabled = hdmi.audio_enabled /\ hdmi'.hdcp_enabled = hdmi.hdcp_enabled
      /\ hdmi'.timing = hdmi.timing /\ hdmi'.depth = hdmi.depth /\ hdmi'.audio = hdmi.audio
  <2>1. PICK lines : lines = [hdmi.lines EXCEPT ![k] = display[k]]
    OBVIOUS
  <2>2. lines \in [Kinds -> BOOLEAN] /\ hdmi' = [hdmi EXCEPT !.lines = lines]
    BY <1>1, <2>1
  <2> QED BY <1>1, <2>1, <2>2 DEF Device
<1>3. HdmiTypeOK'
  BY <1>1, <1>2 DEF HdmiInv, HdmiTypeOK
<1>4. SettingsKept'
  <2>1. CASE ~hdmi.initialized
    BY <1>2, <2>1 DEF HdmiInv, SettingsKept, RegistersAgree
  <2>2. CASE hdmi.initialized
    <3>1. \A s \in chosen : hdmi[s] = hdmi_reg[s]
      BY <2>2, SettingsHold
    <3>2. chosen \subseteq Settings
      BY DEF HdmiInv, HdmiTypeOK
    <3>3. ASSUME NEW s \in chosen' PROVE hdmi'[s] = hdmi_reg'[s]
      <4>1. hdmi[s] = hdmi_reg[s] /\ s \in Settings
        BY <1>1, <3>1, <3>2
      <4>2. hdmi'[s] = hdmi[s] /\ hdmi_reg'[s] = hdmi_reg[s]
        BY <1>1, <1>2, <4>1 DEF Settings
      <4> QED BY <4>1, <4>2
    <3> QED BY <1>2, <2>2, <3>1, <3>3, SettingsStay
  <2> QED BY <2>1, <2>2
<1>5. EventsKept'
  <2>1. handler'.at = "idle" => handler'.status = {}
    BY DEF HdmiInv, EventsKept
  <2>2. ASSUME NEW l \in known' \ missed'
        PROVE  hdmi'.lines[l] = display'[l] \/ (l \in hdmi_reg'.pending /\ ~Served(l)')
    <3>1. CASE l = k
      BY <1>1, <1>2, <3>1
    <3>2. CASE l # k
      <4>1. l \in known \ missed /\ l \in Kinds
        BY <1>1, <3>2
      <4>2. hdmi'.lines[l] = hdmi.lines[l]
        BY <1>1, <1>2, <3>2, <4>1
      <4> QED BY <3>2, <4>1, <4>2 DEF HdmiInv, EventsKept
    <3> QED BY <3>1, <3>2
  <2> QED BY <2>1, <2>2 DEF EventsKept
<1> QED BY <1>3, <1>4, <1>5 DEF HdmiInv

LEMMA ReadStatusInv ==
  ASSUME HdmiInv, NEW k \in Kinds, ReadStatus(k)
  PROVE  HdmiInv'
<1>1. UNCHANGED handler /\ handler \in [at : {"idle", "hotplug", "stability", "clear"}, status : SUBSET Kinds]
  BY DEF HdmiInv, HdmiTypeOK, ReadStatus
<1>2. \A l \in Kinds : Served(l)' => Served(l)
  BY <1>1 DEF Served
<1> QED BY <1>1, <1>2, StatusRead DEF ReadStatus

LEMMA HandleInv ==
  ASSUME HdmiInv, NEW k, NEW next, <<k, next>> \in {<<"hotplug", "stability">>, <<"stability", "clear">>},
         HandleEvent(k, next)
  PROVE  HdmiInv'
<1>1. /\ k \in Kinds /\ k # "clear" /\ k # "idle" /\ next \in {"stability", "clear"}
      /\ (k = "hotplug" /\ next = "stability") \/ (k = "stability" /\ next = "clear")
  BY DEF Kinds
<1>2. /\ handler \in [at : {"idle", "hotplug", "stability", "clear"}, status : SUBSET Kinds]
      /\ handler.at = k /\ handler' = [handler EXCEPT !.at = next]
  BY DEF HdmiInv, HdmiTypeOK, HandleEvent
<1>3. /\ handler' \in [at : {"idle", "hotplug", "stability", "clear"}, status : SUBSET Kinds]
      /\ handler'.status = handler.status /\ handler'.at = next /\ next # "idle"
  BY <1>1, <1>2
<1>4. \A l \in Kinds \ {k} : Served(l)' => Served(l)
  BY <1>1, <1>2, <1>3 DEF Served, Kinds
<1>5. CASE k \in handler.status
  BY <1>1, <1>3, <1>4, <1>5, StatusRead DEF HandleEvent
<1>6. CASE k \notin handler.status
  <2>1. UNCHANGED <<hdmi, known, missed, hdmi_reg, display, chosen>>
    BY <1>6 DEF HandleEvent
  <2>2. \A l \in Kinds : Served(l)' => Served(l)
    BY <1>3, <1>4, <1>6 DEF Served
  <2>3. EventsKept'
    BY <1>3, <2>1, <2>2 DEF HdmiInv, HdmiTypeOK, EventsKept
  <2> QED BY <1>3, <2>1, <2>3 DEF HdmiInv, HdmiTypeOK, SettingsKept, RegistersAgree
<1> QED BY <1>5, <1>6

LEMMA DisplayChangesInv ==
  ASSUME HdmiInv, NEW k \in Kinds, DisplayChanges(k)
  PROVE  HdmiInv'
<1>1. /\ hdmi_reg \in Registers /\ display \in [Kinds -> BOOLEAN] /\ UNCHANGED <<hdmi, handler, known, chosen>>
      /\ handler \in [at : {"idle", "hotplug", "stability", "clear"}, status : SUBSET Kinds]
      /\ known \subseteq Kinds /\ missed \subseteq Kinds
      /\ display' = [display EXCEPT ![k] = ~@]
      /\ hdmi_reg' = [hdmi_reg EXCEPT !.pending = @ \cup {k}]
  BY DEF HdmiInv, HdmiTypeOK, DisplayChanges
<1>2. /\ hdmi_reg' \in Registers /\ hdmi_reg'.pending = hdmi_reg.pending \cup {k}
      /\ hdmi_reg'.ctrl = hdmi_reg.ctrl /\ hdmi_reg'.mask = hdmi_reg.mask
      /\ hdmi_reg'.timing = hdmi_reg.timing /\ hdmi_reg'.depth = hdmi_reg.depth
      /\ hdmi_reg'.audio = hdmi_reg.audio
  BY <1>1 DEF Registers
<1>3. display' \in [Kinds -> BOOLEAN] /\ \A l \in Kinds \ {k} : display'[l] = display[l]
  BY <1>1
<1>4. missed' \subseteq Kinds /\ missed \subseteq missed' /\ (Served(k) => k \in missed')
  <2>1. missed' = missed \cup {k} \/ missed' = missed
    BY DEF DisplayChanges
  <2>2. Served(k) => <<handler.at, k>> \notin {<<"hotplug", "hotplug">>, <<"hotplug", "stability">>,
                                               <<"stability", "stability">>}
    BY DEF Served
  <2>3. Served(k) => missed' = missed \cup {k}
    BY <2>2 DEF Served, DisplayChanges
  <2> QED BY <1>1, <2>1, <2>3
<1>5. EventsKept'
  <2>1. handler'.at = "idle" => handler'.status = {}
    BY <1>1 DEF HdmiInv, EventsKept
  <2>2. ASSUME NEW l \in known' \ missed'
        PROVE  hdmi'.lines[l] = display'[l] \/ (l \in hdmi_reg'.pending /\ ~Served(l)')
    <3>1. l \in known \ missed /\ l \in Kinds /\ (Served(l)' <=> Served(l))
      BY <1>1, <1>4 DEF Served
    <3>2. CASE l = k
      BY <1>2, <1>4, <3>1, <3>2
    <3>3. CASE l # k
      BY <1>1, <1>2, <1>3, <3>1, <3>3 DEF HdmiInv, EventsKept
    <3> QED BY <3>2, <3>3
  <2> QED BY <2>1, <2>2 DEF EventsKept
<1>6. SettingsKept'
  BY <1>1, <1>2, SettingsUntouched
<1>7. HdmiTypeOK'
  BY <1>1, <1>2, <1>3, <1>4 DEF HdmiInv, HdmiTypeOK
<1> QED BY <1>5, <1>6, <1>7 DEF HdmiInv

LEMMA HandlerStartsInv ==
  ASSUME HdmiInv, hdmi_interrupt_handler
  PROVE  HdmiInv'
<1>1. UNCHANGED <<hdmi, hdmi_reg, display, known, missed, chosen>> /\ hdmi_reg.pending \subseteq Kinds
      /\ handler' = [at |-> "hotplug", status |-> hdmi_reg.pending] /\ handler.at = "idle"
  BY DEF HdmiInv, HdmiTypeOK, Registers, hdmi_interrupt_handler, Initialized, Calm
<1>2. /\ handler' \in [at : {"idle", "hotplug", "stability", "clear"}, status : SUBSET Kinds]
      /\ handler'.at = "hotplug"
  BY <1>1
<1>3. \A k : ~Served(k)'
  BY <1>2 DEF Served
<1>4. EventsKept'
  BY <1>1, <1>2, <1>3 DEF HdmiInv, EventsKept
<1> QED BY <1>1, <1>2, <1>4 DEF HdmiInv, HdmiTypeOK, SettingsKept, RegistersAgree

\* What is cleared was served: the line that was kept is the display's, or its change was missed.
LEMMA ClearInv ==
  ASSUME HdmiInv, hdmi_clear_interrupts
  PROVE  HdmiInv'
<1>1. /\ UNCHANGED <<hdmi, display, known, missed, chosen>> /\ hdmi_reg \in Registers
      /\ handler.at = "clear" /\ handler' = [at |-> "idle", status |-> {}]
      /\ hdmi_reg' = [hdmi_reg EXCEPT !.pending = @ \ handler.status]
  BY DEF HdmiInv, HdmiTypeOK, hdmi_clear_interrupts
<1>2. /\ hdmi_reg' \in Registers /\ hdmi_reg'.pending = hdmi_reg.pending \ handler.status
      /\ hdmi_reg'.ctrl = hdmi_reg.ctrl /\ hdmi_reg'.mask = hdmi_reg.mask
      /\ hdmi_reg'.timing = hdmi_reg.timing /\ hdmi_reg'.depth = hdmi_reg.depth
      /\ hdmi_reg'.audio = hdmi_reg.audio
  BY <1>1 DEF Registers
<1>3. handler' \in [at : {"idle", "hotplug", "stability", "clear"}, status : SUBSET Kinds]
      /\ handler'.status = {} /\ (\A k : ~Served(k)')
  BY <1>1 DEF Served
<1>4. \A k : Served(k) <=> k \in handler.status
  BY <1>1 DEF Served
<1>5. EventsKept'
  BY <1>1, <1>2, <1>3, <1>4 DEF HdmiInv, EventsKept
<1>6. SettingsKept'
  BY <1>1, <1>2, SettingsUntouched
<1> QED BY <1>1, <1>2, <1>3, <1>5, <1>6 DEF HdmiInv, HdmiTypeOK

\* However calls, changes of the display and the handler interleave, the registers hold the
\* configuration, and an event is lost only between the reading of its status and the clearing.
THEOREM DisplayStaysKnown == HdmiSpec => []DisplayAgrees
<1>1. HdmiInit => HdmiInv
  <2> SUFFICES ASSUME HdmiInit PROVE HdmiInv
    OBVIOUS
  <2>1. standard_timings[0] \in Timings /\ DefaultAudio \in Audios
    BY DEF Timings, Audios
  <2>2. [k \in Kinds |-> FALSE] \in [Kinds -> BOOLEAN]
    OBVIOUS
  <2>3. hdmi \in Device /\ hdmi.initialized = FALSE
    BY <2>1, <2>2 DEF HdmiInit, Device
  <2>4. hdmi_reg \in Registers
    BY <2>1 DEF HdmiInit, Registers
  <2>5. handler \in [at : {"idle", "hotplug", "stability", "clear"}, status : SUBSET Kinds]
        /\ handler.status = {}
    BY DEF HdmiInit
  <2> QED BY <2>3, <2>4, <2>5
          DEF HdmiInit, HdmiInv, HdmiTypeOK, SettingsKept, RegistersAgree, EventsKept
<1>2. HdmiInv /\ [HdmiNext]_hdmi_vars => HdmiInv'
  <2> SUFFICES ASSUME HdmiInv, [HdmiNext]_hdmi_vars PROVE HdmiInv'
    OBVIOUS
  <2>1. ASSUME NEW k \in Kinds, ReadStatus(k) \/ DisplayChanges(k) PROVE HdmiInv'
    BY <2>1, ReadStatusInv, DisplayChangesInv
  <2>2. CASE HandleEvent("hotplug", "stability") \/ HandleEvent("stability", "clear")
    BY <2>2, HandleInv
  <2>3. ASSUME NEW mask \in {{}, Kinds}, hdmi_set_interrupt_mask(mask) PROVE HdmiInv'
    BY <2>3, SetMaskInv
  <2>4. CASE UNCHANGED hdmi_vars
    BY <2>4 DEF hdmi_vars, HdmiInv, HdmiTypeOK, SettingsKept, RegistersAgree, EventsKept, Served
  <2> QED BY <2>1, <2>2, <2>3, <2>4, HdmiInitInv, HdmiDeinitInv, SetTimingInv, SetDepthInv,
             SetAudioInv, EnableInv, HandlerStartsInv, ClearInv DEF HdmiNext
<1>3. HdmiInv => DisplayAgrees
  BY DEF HdmiInv, SettingsKept, EventsKept, DisplayAgrees, InterruptsServed
<1> QED BY <1>1, <1>2, <1>3, PTL DEF HdmiSpec

-----------------------------------------------------------------------------
(* The heap.  A block lies below heap_end, where nothing is written any    *)
(* more; so all there is to show is that a new block is large enough.  It  *)
(* is where there is memory for it: neither the rounding nor the addition  *)
(* of the header wraps then.                                               *)

HeapTypeOK == heap_end \in Nat /\ DOMAIN heap = 0 .. HeapSize - 1

\* A block behind its header, with the room the header says.
BlockKept(b) ==
  /\ b.ptr \in Nat /\ PtrSize <= b.ptr /\ b.asked \in Nat
  /\ heap[b.ptr - PtrSize] \in Nat /\ b.asked <= heap[b.ptr - PtrSize]
  /\ b.ptr + heap[b.ptr - PtrSize] <= heap_end
  /\ \A k \in 0 .. b.asked - 1 : heap[b.ptr + k] = -b.id

BlocksApart(b, c) == b.ptr + b.asked <= c.ptr - PtrSize \/ c.ptr + c.asked <= b.ptr - PtrSize

BlocksHeld ==
  /\ HeapTypeOK /\ \A b \in blocks : BlockKept(b)
  /\ \A b, c \in blocks : b # c => BlocksApart(b, c)

HeapInv == ~exhausted => BlocksHeld

LEMMA HeapFacts ==
  /\ Modulus \in Nat \ {0} /\ PtrSize \in Nat \ {0} /\ PtrSize < Modulus
  /\ HeapSize \in Nat /\ HeapSize < Modulus /\ Sizes \subseteq Nat
<1>1. Modulus \in Int
  BY HeapAssumption DEF Modulus
<1> QED BY <1>1, HeapAssumption

\* Where there is memory for a block, its size is rounded up, and heap_end moves behind it.
LEMMA RoundedUp ==
  ASSUME HeapTypeOK, NEW size \in Nat, size # 0, HasMemory(size)
  PROVE  /\ AlignedSize(size) \in Nat /\ size <= AlignedSize(size)
         /\ sbrk(size) = heap_end + AlignedSize(size) + PtrSize /\ sbrk(size) <= HeapSize
<1>1. /\ Modulus \in Nat \ {0} /\ PtrSize \in Nat \ {0} /\ HeapSize \in Nat /\ HeapSize < Modulus
      /\ heap_end \in Nat
  BY HeapFacts DEF HeapTypeOK
<1> DEFINE x == size + PtrSize - 1
           rest == x % PtrSize
<1>2. RoundUp(size) = x - rest /\ AlignedSize(size) = (x % Modulus) - rest
  BY DEF RoundUp, AlignedSize
<1>3. x \in Nat
  BY <1>1
<1>4. rest \in 0 .. PtrSize - 1 /\ rest <= x
  <2>1. x % PtrSize \in 0 .. PtrSize - 1
    BY <1>1, <1>3
  <2>2. x % PtrSize <= x
    BY <1>1, <1>3
  <2> QED BY <2>1, <2>2
<1>5. x = size + PtrSize - 1
  OBVIOUS
<1> HIDE DEF x, rest
<1>6. heap_end + (x - rest) + PtrSize <= HeapSize
  <2>1. heap_end + RoundUp(size) + PtrSize <= HeapSize
    BY DEF HasMemory
  <2>2. RoundUp(size) = x - rest
    BY <1>2
  <2> QED BY <2>1, <2>2
<1>7. x < Modulus
  BY <1>1, <1>3, <1>4, <1>6
<1>8. x % Modulus = x
  BY <1>1, <1>3, <1>7
<1>9. AlignedSize(size) = x - rest
  BY <1>2, <1>8
<1>10. AlignedSize(size) \in Nat /\ size <= AlignedSize(size)
  BY <1>1, <1>3, <1>4, <1>5, <1>9
<1>11. PICK e : e = heap_end + AlignedSize(size) + PtrSize
  OBVIOUS
<1>12. e \in Nat /\ e <= HeapSize /\ e < Modulus
  BY <1>1, <1>6, <1>9, <1>10, <1>11
<1>13. e % Modulus = e
  BY <1>1, <1>12
<1> QED BY <1>10, <1>11, <1>12, <1>13 DEF sbrk

\* A product that passes the check of calloc did not wrap.
LEMMA NotWrapped ==
  ASSUME NEW num \in Nat, NEW size \in Nat,
         ~Overflow(num, size), (num * size) % Modulus # 0
  PROVE  (num * size) % Modulus = num * size
<1>1. Modulus \in Nat \ {0}
  BY HeapFacts
<1>2. PICK product : product = num * size /\ product \in Nat
  OBVIOUS
<1>3. PICK total : total = product % Modulus /\ total \in Nat /\ total <= product
  <2>1. product % Modulus \in Nat /\ product % Modulus <= product
    BY <1>1, <1>2
  <2> QED BY <2>1
<1>4. CASE num = 0
  <2>1. product = 0
    BY <1>2, <1>4
  <2> QED BY <1>1, <1>2, <2>1
<1>5. CASE num # 0
  <2>1. total \div num = size
    BY <1>2, <1>3, <1>5 DEF Overflow
  <2>2. num * (total \div num) <= total
    BY <1>3, <1>5
  <2> QED BY <1>2, <1>3, <2>1, <2>2
<1> QED BY <1>4, <1>5

\* The steps that make a block leave what is below heap_end and put the block behind it.
LEMMA NewBlock ==
  ASSUME BlocksHeld, NEW size \in Nat, size # 0, HasMemory(size),
         NEW rest \in SUBSET blocks, NEW b, b.ptr = malloc_ptr, b.asked = size,
         DOMAIN heap' = 0 .. HeapSize - 1,
         \A a \in 0 .. HeapSize - 1 : a < heap_end => heap'[a] = heap[a],
         heap'[heap_end] = AlignedSize(size),
         \A k \in 0 .. size - 1 : heap'[malloc_ptr + k] = -b.id,
         heap_end' = sbrk(size), blocks' = rest \cup {b}
  PROVE  BlocksHeld'
<1>1. PtrSize \in Nat \ {0} /\ HeapSize \in Nat /\ heap_end \in Nat
  BY HeapFacts DEF BlocksHeld, HeapTypeOK
<1>2. /\ AlignedSize(size) \in Nat /\ size <= AlignedSize(size)
      /\ sbrk(size) = heap_end + AlignedSize(size) + PtrSize /\ sbrk(size) <= HeapSize
  BY RoundedUp DEF BlocksHeld
<1>3. /\ heap_end' \in Nat /\ heap_end' = heap_end + AlignedSize(size) + PtrSize
      /\ heap_end < HeapSize /\ b.ptr = heap_end + PtrSize
  BY <1>1, <1>2 DEF malloc_ptr
<1>4. BlockKept(b)'
  <2>1. b.ptr - PtrSize = heap_end
    BY <1>1, <1>3
  <2>2. heap'[b.ptr - PtrSize] = AlignedSize(size)
    BY <2>1
  <2>3. b.ptr \in Nat /\ PtrSize <= b.ptr /\ b.ptr + AlignedSize(size) <= heap_end'
    BY <1>1, <1>2, <1>3
  <2> QED BY <1>2, <2>2, <2>3 DEF BlockKept
<1>5. ASSUME NEW c \in rest PROVE BlockKept(c)' /\ BlocksApart(c, b) /\ BlocksApart(b, c)
  <2>1. BlockKept(c)
    BY DEF BlocksHeld
  <2>2. PICK p, n, room : p = c.ptr /\ n = c.asked /\ room = heap[p - PtrSize]
    OBVIOUS
  <2>3. /\ p \in Nat /\ PtrSize <= p /\ n \in Nat /\ room \in Nat /\ n <= room /\ p + room <= heap_end
        /\ \A k \in 0 .. n - 1 : heap[p + k] = -c.id
    BY <2>1, <2>2 DEF BlockKept
  <2>4. p - PtrSize \in 0 .. HeapSize - 1 /\ p - PtrSize < heap_end
    BY <1>1, <1>3, <2>3
  <2>5. heap'[p - PtrSize] = room
    BY <2>2, <2>4
  <2>6. ASSUME NEW k \in 0 .. n - 1 PROVE heap'[p + k] = -c.id
    <3>1. p + k \in 0 .. HeapSize - 1 /\ p + k < heap_end
      BY <1>1, <1>3, <2>3
    <3> QED BY <2>3, <3>1
  <2>7. p + room <= heap_end'
    BY <1>1, <1>2, <1>3, <2>3
  <2>8. BlockKept(c)'
    BY <2>2, <2>3, <2>5, <2>6, <2>7 DEF BlockKept
  <2>9. p + n <= b.ptr - PtrSize
    BY <1>1, <1>3, <2>3
  <2> QED BY <2>2, <2>8, <2>9 DEF BlocksApart
<1>6. \A c \in rest : \A d \in rest : c # d => BlocksApart(c, d)
  BY DEF BlocksHeld
<1> QED BY <1>3, <1>4, <1>5, <1>6 DEF BlocksHeld, HeapTypeOK, BlocksApart

\* A block is forgotten.
LEMMA BlockForgotten ==
  ASSUME BlocksHeld, blocks' \subseteq blocks, UNCHANGED <<heap, heap_end>>
  PROVE  BlocksHeld'
BY DEF BlocksHeld, HeapTypeOK, BlockKept, BlocksApart

\* A header is written and the rest of the block: what is there already is its owner's.
LEMMA BlockWritten ==
  ASSUME BlocksHeld, NEW size \in Nat, size # 0, HasMemory(size),
         NEW b, b.ptr = malloc_ptr, b.asked = size, NEW rest \in SUBSET blocks,
         NEW g, DOMAIN g = 0 .. HeapSize - 1,
         \A a \in 0 .. HeapSize - 1 : a < heap_end => g[a] = heap[a],
         NEW first \in Nat, \A k \in 0 .. size - 1 : k < first => g[malloc_ptr + k] = -b.id,
         heap' = Used(Header(g, size), b, first),
         heap_end' = sbrk(size), blocks' = rest \cup {b}
  PROVE  BlocksHeld'
<1>1. /\ PtrSize \in Nat \ {0} /\ HeapSize \in Nat /\ heap_end \in Nat
      /\ AlignedSize(size) \in Nat /\ size <= AlignedSize(size)
      /\ heap_end + AlignedSize(size) + PtrSize <= HeapSize
  BY HeapFacts, RoundedUp DEF BlocksHeld, HeapTypeOK
<1>2. heap_end \in 0 .. HeapSize - 1 /\ malloc_ptr = heap_end + PtrSize
  BY <1>1 DEF malloc_ptr
<1>3. PICK h : h = Header(g, size)
  OBVIOUS
<1>4. /\ DOMAIN h = 0 .. HeapSize - 1 /\ h[heap_end] = AlignedSize(size)
      /\ \A a \in 0 .. HeapSize - 1 : a # heap_end => h[a] = g[a]
  BY <1>2, <1>3 DEF Header
<1>5. PICK p, id : p = malloc_ptr /\ id = b.id
  OBVIOUS
<1>6. heap' = [a \in 0 .. HeapSize - 1 |-> IF a - p \in first .. size - 1 THEN -id ELSE h[a]]
  BY <1>3, <1>4, <1>5 DEF Used
<1>7. p = heap_end + PtrSize
  BY <1>2, <1>5
<1>8. /\ DOMAIN heap' = 0 .. HeapSize - 1
      /\ \A a \in 0 .. HeapSize - 1 : a <= heap_end => heap'[a] = h[a]
  BY <1>1, <1>6, <1>7
<1>9. ASSUME NEW k \in 0 .. size - 1 PROVE heap'[malloc_ptr + k] = -id
  <2>1. p + k \in 0 .. HeapSize - 1 /\ (p + k) - p = k /\ p + k # heap_end
    BY <1>1, <1>2, <1>7
  <2>2. CASE k < first
    <3>1. k \notin first .. size - 1
      BY <2>2
    <3>2. g[p + k] = -id
      BY <1>5, <2>2
    <3> QED BY <1>4, <1>5, <1>6, <2>1, <3>1, <3>2
  <2>3. CASE ~(k < first)
    <3>1. k \in first .. size - 1
      BY <2>3
    <3> QED BY <1>5, <1>6, <2>1, <3>1
  <2> QED BY <2>2, <2>3
<1>10. heap'[heap_end] = AlignedSize(size)
  BY <1>1, <1>2, <1>4, <1>8
<1>11. \A a \in 0 .. HeapSize - 1 : a < heap_end => heap'[a] = heap[a]
  BY <1>1, <1>4, <1>8
<1>12. \A k \in 0 .. size - 1 : heap'[malloc_ptr + k] = -b.id
  BY <1>5, <1>9
<1>13. DOMAIN heap' = 0 .. HeapSize - 1
  BY <1>8
<1> QED BY <1>10, <1>11, <1>12, <1>13, NewBlock, Zenon

LEMMA BlockMade ==
  ASSUME BlocksHeld, NEW size \in Nat, size # 0, HasMemory(size),
         NEW b, b.ptr = malloc_ptr, b.asked = size,
         heap' = Used(Header(heap, size), b, 0),
         heap_end' = sbrk(size), blocks' = blocks \cup {b}
  PROVE  BlocksHeld'
<1>1. DOMAIN heap = 0 .. HeapSize - 1
  BY DEF BlocksHeld, HeapTypeOK
<1>2. \A k \in 0 .. size - 1 : k < 0 => heap[malloc_ptr + k] = -b.id
  OBVIOUS
<1> QED BY <1>1, <1>2, BlockWritten

LEMMA mallocInv ==
  ASSUME BlocksHeld, NEW size \in Sizes, malloc(size), ~exhausted'
  PROVE  BlocksHeld'
<1>1. size \in Nat
  BY HeapFacts
<1>2. CASE size = 0
  BY <1>2, BlockForgotten DEF malloc
<1>3. CASE size # 0
  <2>1. PICK b : /\ b = Block(FreshId, size) /\ heap' = Used(Header(heap, size), b, 0)
                 /\ heap_end' = sbrk(size) /\ blocks' = blocks \cup {b} /\ HasMemory(size)
    BY <1>3 DEF malloc, MakeBlock
  <2>2. b.ptr = malloc_ptr /\ b.asked = size
    BY <2>1 DEF Block
  <2> QED BY <1>1, <1>3, <2>1, <2>2, BlockMade
<1> QED BY <1>2, <1>3

LEMMA callocInv ==
  ASSUME BlocksHeld, NEW num \in Sizes, NEW size \in Sizes, calloc(num, size),
         ~exhausted'
  PROVE  BlocksHeld'
<1>1. num \in Nat /\ size \in Nat
  BY HeapFacts
<1>2. PICK total : total = (num * size) % Modulus
  OBVIOUS
<1>3. CASE Overflow(num, size) \/ total = 0
  <2>1. UNCHANGED <<heap, heap_end, blocks>>
    BY <1>2, <1>3 DEF calloc
  <2> QED BY <2>1, BlockForgotten
<1>4. CASE ~(Overflow(num, size) \/ total = 0)
  <2>1. total = num * size /\ total \in Nat /\ total # 0
    BY <1>1, <1>2, <1>4, NotWrapped
  <2>2. PICK b : /\ b = [Block(FreshId, total) EXCEPT !.asked = num * size]
                 /\ heap' = Used(Header(heap, total), b, 0)
                 /\ heap_end' = sbrk(total) /\ blocks' = blocks \cup {b} /\ HasMemory(total)
    BY <1>2, <1>4 DEF calloc, MakeBlock
  <2>3. b.ptr = malloc_ptr /\ b.asked = total
    BY <2>1, <2>2 DEF Block
  <2> QED BY <2>1, <2>2, <2>3, BlockMade
<1> QED BY <1>3, <1>4

\* As much is copied as both blocks have room for; what the old owner wrote is below that.
LEMMA reallocInv ==
  ASSUME BlocksHeld, NEW b \in blocks, NEW size \in Sizes, realloc(b, size), ~exhausted'
  PROVE  BlocksHeld'
<1>1. size \in Nat
  BY HeapFacts
<1>2. CASE size = 0
  <2>1. UNCHANGED <<heap, heap_end>> /\ blocks' \subseteq blocks
    BY <1>2 DEF realloc
  <2> QED BY <2>1, BlockForgotten
<1>3. CASE size # 0
  <2>1. PICK copy_size, new, copied :
          /\ copy_size = Min({heap[b.ptr - PtrSize], size}) /\ new = Block(b.id, size)
          /\ copied = [a \in DOMAIN heap |->
                         IF a - new.ptr \in 0 .. copy_size - 1
                         THEN heap[b.ptr + a - new.ptr] ELSE heap[a]]
          /\ heap' = Used(Header(copied, size), new, b.asked)
          /\ heap_end' = sbrk(size) /\ blocks' = (blocks \ {b}) \cup {new} /\ HasMemory(size)
    BY <1>3 DEF realloc, MakeBlock
  <2>2. new.id = b.id /\ new.ptr = malloc_ptr /\ new.asked = size
    BY <2>1 DEF Block
  <2>3. BlockKept(b)
    BY DEF BlocksHeld
  <2>4. PICK p, n, room : p = b.ptr /\ n = b.asked /\ room = heap[p - PtrSize]
    OBVIOUS
  <2>5. /\ p \in Nat /\ n \in Nat /\ room \in Nat /\ n <= room
        /\ \A k \in 0 .. n - 1 : heap[p + k] = -b.id
    BY <2>3, <2>4 DEF BlockKept
  <2>6. copy_size \in {room, size} /\ copy_size <= size /\ copy_size <= room
    <3>1. {room, size} \in SUBSET Nat /\ {room, size} # {}
      BY <1>1, <2>5
    <3>2. Min({room, size}) \in {room, size} /\ \A y \in {room, size} : Min({room, size}) <= y
      BY <3>1, MinIsLeast
    <3> QED BY <2>1, <2>4, <3>2
  <2>7. /\ PtrSize \in Nat \ {0} /\ HeapSize \in Nat /\ heap_end \in Nat
        /\ DOMAIN heap = 0 .. HeapSize - 1
        /\ AlignedSize(size) \in Nat /\ size <= AlignedSize(size)
        /\ heap_end + AlignedSize(size) + PtrSize <= HeapSize
    BY <1>1, <1>3, <2>1, HeapFacts, RoundedUp DEF BlocksHeld, HeapTypeOK
  <2>8. PICK q : q = malloc_ptr /\ q = heap_end + PtrSize
    BY DEF malloc_ptr
  <2>9. copied = [a \in 0 .. HeapSize - 1 |-> IF a - q \in 0 .. copy_size - 1
                                              THEN heap[p + a - q] ELSE heap[a]]
    BY <2>1, <2>2, <2>4, <2>7, <2>8
  <2>10. /\ DOMAIN copied = 0 .. HeapSize - 1
         /\ \A a \in 0 .. HeapSize - 1 : a < heap_end => copied[a] = heap[a]
    BY <2>5, <2>6, <2>7, <2>8, <2>9
  <2>11. ASSUME NEW k \in 0 .. size - 1, k < n PROVE copied[q + k] = -b.id
    <3>1. k \in 0 .. copy_size - 1 /\ k \in 0 .. n - 1
      BY <1>1, <2>5, <2>6, <2>11
    <3>2. q + k \in 0 .. HeapSize - 1 /\ (q + k) - q = k /\ p + (q + k) - q = p + k
      BY <1>1, <2>5, <2>7, <2>8
    <3>3. copied[q + k] = heap[p + k]
      BY <2>9, <3>1, <3>2
    <3> QED BY <2>5, <3>1, <3>3
  <2>12. \A k \in 0 .. size - 1 : k < n => copied[malloc_ptr + k] = -new.id
    BY <2>2, <2>8, <2>11
  <2>13. PICK rest \in SUBSET blocks : blocks' = rest \cup {new}
    BY <2>1
  <2>14. heap' = Used(Header(copied, size), new, n)
    BY <2>1, <2>4
  <2>15. /\ new.ptr = malloc_ptr /\ new.asked = size /\ n \in Nat
         /\ heap_end' = sbrk(size) /\ HasMemory(size)
    BY <2>1, <2>2, <2>5
  <2>16. DOMAIN copied = 0 .. HeapSize - 1
    BY <2>10
  <2>17. \A a \in 0 .. HeapSize - 1 : a < heap_end => copied[a] = heap[a]
    BY <2>10
  <2> QED BY <1>1, <1>3, <2>12, <2>13, <2>14, <2>15, <2>16, <2>17, BlockWritten, Zenon
<1> QED BY <1>2, <1>3

\* Whatever a program allocates, grows, shrinks and releases, and however its sizes wrap: its blocks
\* keep what it wrote, have the room it asked for, and do not overlap, until it is given a block
\* that there is no memory for (stdlib.c:21-74).
THEOREM BlocksAreKept == HeapSpec => []HeapKeepsBlocks
<1>1. HeapInit => HeapInv
  BY HeapFacts DEF HeapInit, HeapInv, BlocksHeld, HeapTypeOK
<1>2. HeapInv /\ [HeapCall]_heap_vars => HeapInv'
  <2> SUFFICES ASSUME HeapInv, [HeapCall]_heap_vars, ~exhausted' PROVE BlocksHeld'
    BY DEF HeapInv
  <2>1. CASE HeapCall
    <3>1. BlocksHeld
      BY <2>1 DEF HeapCall, HeapInv
    <3>2. ASSUME NEW size \in Sizes, malloc(size) PROVE BlocksHeld'
      BY <3>1, <3>2, mallocInv
    <3>3. ASSUME NEW num \in Sizes, NEW size \in Sizes, calloc(num, size) PROVE BlocksHeld'
      BY <3>1, <3>3, callocInv
    <3>4. ASSUME NEW b \in blocks, NEW size \in Sizes, realloc(b, size) PROVE BlocksHeld'
      BY <3>1, <3>4, reallocInv
    <3>5. ASSUME NEW b \in blocks, free(b) PROVE BlocksHeld'
      BY <3>1, <3>5, BlockForgotten DEF free
    <3> QED BY <2>1, <3>2, <3>3, <3>4, <3>5 DEF HeapCall
  <2>2. CASE UNCHANGED heap_vars
    BY <2>2, BlockForgotten DEF heap_vars, HeapInv
  <2> QED BY <2>1, <2>2
<1>3. HeapInv => HeapKeepsBlocks
  <2> SUFFICES ASSUME BlocksHeld, NEW b \in blocks
               PROVE  /\ \A k \in 0 .. b.asked - 1 : heap[b.ptr + k] = -b.id
                      /\ heap[b.ptr - PtrSize] >= b.asked
                      /\ b.ptr + b.asked <= heap_end
                      /\ \A c \in blocks \ {b} : BlocksApart(b, c)
    BY DEF HeapInv, HeapKeepsBlocks, BlocksApart
  <2>1. BlockKept(b)
    BY DEF BlocksHeld
  <2>2. \A c \in blocks \ {b} : BlocksApart(b, c)
    BY DEF BlocksHeld
  <2>3. heap_end \in Nat
    BY DEF BlocksHeld, HeapTypeOK
  <2> QED BY <2>1, <2>2, <2>3 DEF BlockKept
<1> QED BY <1>1, <1>2, <1>3, PTL DEF HeapSpec

-----------------------------------------------------------------------------
(* Termios: what a call leaves of the program's settings and the driver's. *)

SpeedPairs == [ispeed : Speeds, ospeed : Speeds]
Drivers ==
  [settings : SpeedPairs, break : BOOLEAN, stopped : BOOLEAN, input : BOOLEAN, output : BOOLEAN]
TermiosInv ==
  /\ termios_line \in SpeedPairs /\ tty \in Drivers
  /\ tty.break = (line_ret.broke # "no")

\* What SettingsFollow asks of a step.
Allowed ==
  /\ (line_ret'.ret = -1 /\ line_ret' # line_ret /\ tty'.break = tty.break)
       => UNCHANGED <<termios_line, tty>>
  /\ tty'.settings # tty.settings => tty'.settings = termios_line
  /\ termios_line' # termios_line =>
       CASE line_ret'.call = "cfsetispeed" -> termios_line'.ospeed = termios_line.ospeed
         [] line_ret'.call = "cfsetospeed" -> termios_line'.ispeed = termios_line.ispeed
         [] OTHER -> termios_line' = tty.settings
  /\ {tty'.settings.ispeed, tty'.settings.ospeed} \subseteq Speeds
  /\ tty'.break = (line_ret'.broke # "no")

\* What a call that answers leaves of its record.
LEMMA RetIs ==
  \A call, ret, errno :
    Ret(call, ret, errno) =>
      /\ line_ret'.call = call /\ line_ret'.ret = ret /\ line_ret'.broke = line_ret.broke
BY DEF Ret

\* The speeds of a driver are speeds.
LEMMA DriverSpeeds ==
  ASSUME NEW t \in Drivers
  PROVE  /\ t.settings \in SpeedPairs /\ t.settings.ispeed \in Speeds
         /\ t.settings.ospeed \in Speeds /\ t.break \in BOOLEAN
BY DEF Drivers, SpeedPairs

\* A call that only answers.
LEMMA AnswerOnly ==
  ASSUME TermiosInv, UNCHANGED <<termios_line, tty>>, line_ret'.broke = line_ret.broke
  PROVE  TermiosInv' /\ Allowed
<1>1. termios_line' = termios_line /\ tty' = tty
  OBVIOUS
<1>2. tty.settings.ispeed \in Speeds /\ tty.settings.ospeed \in Speeds
  BY DriverSpeeds DEF TermiosInv
<1>3. tty'.break = (line_ret'.broke # "no")
  BY <1>1, Zenon DEF TermiosInv
<1>4. TermiosInv'
  BY <1>1, <1>3, Zenon DEF TermiosInv
<1>5. {tty'.settings.ispeed, tty'.settings.ospeed} \subseteq Speeds
  BY <1>1, <1>2
<1>6. tty'.settings = tty.settings
  BY <1>1
<1> QED BY <1>1, <1>3, <1>4, <1>5, <1>6, Zenon DEF Allowed

\* The program changes one speed, or is refused.
LEMMA SpeedKeeps ==
  ASSUME TermiosInv, NEW speed, cfsetispeed(speed) \/ cfsetospeed(speed)
  PROVE  TermiosInv' /\ Allowed
<1>1. tty' = tty /\ line_ret'.broke = line_ret.broke
  BY RetIs DEF cfsetispeed, cfsetospeed
<1>2. CASE termios_line' = termios_line
  BY <1>1, <1>2, AnswerOnly
<1>3. CASE termios_line' # termios_line
  <2>1. speed \in Speeds /\ termios_line \in SpeedPairs
    BY <1>3 DEF cfsetispeed, cfsetospeed, TermiosInv
  <2>2. /\ termios_line' \in SpeedPairs /\ line_ret'.ret = 0
        /\ \/ line_ret'.call = "cfsetispeed" /\ termios_line'.ospeed = termios_line.ospeed
           \/ line_ret'.call = "cfsetospeed" /\ termios_line'.ispeed = termios_line.ispeed
    <3>1. CASE cfsetispeed(speed)
      <4>1. /\ termios_line' = [termios_line EXCEPT !.ispeed = speed]
            /\ Ret("cfsetispeed", 0, "")
        BY <2>1, <3>1 DEF cfsetispeed
      <4>2. termios_line' \in SpeedPairs /\ termios_line'.ospeed = termios_line.ospeed
        BY <2>1, <4>1 DEF SpeedPairs
      <4> QED BY <4>1, <4>2, RetIs
    <3>2. CASE cfsetospeed(speed)
      <4>1. /\ termios_line' = [termios_line EXCEPT !.ospeed = speed]
            /\ Ret("cfsetospeed", 0, "")
        BY <2>1, <3>2 DEF cfsetospeed
      <4>2. termios_line' \in SpeedPairs /\ termios_line'.ispeed = termios_line.ispeed
        BY <2>1, <4>1 DEF SpeedPairs
      <4> QED BY <4>1, <4>2, RetIs
    <3> QED BY <3>1, <3>2
  <2>3. tty.settings.ispeed \in Speeds /\ tty.settings.ospeed \in Speeds
    BY DriverSpeeds DEF TermiosInv
  <2>4. tty'.break = (line_ret'.broke # "no")
    BY <1>1, Zenon DEF TermiosInv
  <2>5. TermiosInv'
    BY <1>1, <2>2, <2>4, Zenon DEF TermiosInv
  <2>6. /\ {tty'.settings.ispeed, tty'.settings.ospeed} \subseteq Speeds
        /\ tty'.settings = tty.settings /\ line_ret'.ret # -1
    BY <1>1, <2>2, <2>3
  <2>7. "cfsetispeed" # "cfsetospeed"
    OBVIOUS
  <2>8. (CASE line_ret'.call = "cfsetispeed" -> termios_line'.ospeed = termios_line.ospeed
           [] line_ret'.call = "cfsetospeed" -> termios_line'.ispeed = termios_line.ispeed
           [] OTHER -> termios_line' = tty.settings)
    BY <2>2, <2>7
  <2> QED BY <2>4, <2>5, <2>6, <2>8, Zenon DEF Allowed
<1> QED BY <1>2, <1>3

\* A request that leaves the break alone and sets no other settings than the program's.
LEMMA RequestKeeps ==
  ASSUME TermiosInv, NEW call, NEW asked \in Drivers, asked.break = tty.break,
         asked.settings \in {tty.settings, termios_line}, Ioctl(call, asked)
  PROVE  TermiosInv' /\ Allowed
<1>1. termios_line' = termios_line /\ line_ret'.broke = line_ret.broke
  BY RetIs DEF Ioctl
<1>2. CASE tty' = tty
  BY <1>1, <1>2, AnswerOnly
<1>3. CASE tty' # tty
  <2>1. tty' = asked /\ line_ret'.ret = 0
    BY <1>3, RetIs DEF Ioctl
  <2>2. asked.settings.ispeed \in Speeds /\ asked.settings.ospeed \in Speeds
    BY DriverSpeeds
  <2>3. tty'.break = (line_ret'.broke # "no")
    BY <1>1, <2>1, Zenon DEF TermiosInv
  <2>4. TermiosInv'
    BY <1>1, <2>1, <2>3, Zenon DEF TermiosInv
  <2>5. /\ {tty'.settings.ispeed, tty'.settings.ospeed} \subseteq Speeds
        /\ tty'.settings # tty.settings => tty'.settings = termios_line
        /\ line_ret'.ret # -1
    BY <2>1, <2>2
  <2> QED BY <1>1, <2>3, <2>4, <2>5, Zenon DEF Allowed
<1> QED BY <1>2, <1>3

LEMMA BadCallKeeps ==
  ASSUME TermiosInv, NEW call, NEW errno, BadCall(call, errno)
  PROVE  TermiosInv' /\ Allowed
BY RetIs, AnswerOnly DEF BadCall
\* The driver's record with one of its flags set or cleared, and with other settings.
LEMMA FlagsAside ==
  ASSUME NEW t \in Drivers, NEW b \in BOOLEAN
  PROVE  \A a \in {[t EXCEPT !.output = b], [t EXCEPT !.input = b], [t EXCEPT !.stopped = b]} :
           a \in Drivers /\ a.break = t.break /\ a.settings = t.settings
<1>1. [t EXCEPT !.output = b] \in Drivers /\ [t EXCEPT !.input = b] \in Drivers
      /\ [t EXCEPT !.stopped = b] \in Drivers
  BY DEF Drivers
<1>2. /\ [t EXCEPT !.output = b].settings = t.settings /\ [t EXCEPT !.output = b].break = t.break
      /\ [t EXCEPT !.input = b].settings = t.settings /\ [t EXCEPT !.input = b].break = t.break
      /\ [t EXCEPT !.stopped = b].settings = t.settings
      /\ [t EXCEPT !.stopped = b].break = t.break
  BY DEF Drivers
<1> QED BY <1>1, <1>2

LEMMA SettingsAside ==
  ASSUME NEW t \in Drivers, NEW line \in SpeedPairs
  PROVE  /\ [t EXCEPT !.settings = line] \in Drivers
         /\ [t EXCEPT !.settings = line].break = t.break
         /\ [t EXCEPT !.settings = line].settings = line
BY DEF Drivers

\* The calls that are one request.
LEMMA DriverCallKeeps ==
  ASSUME TermiosInv,
         \/ tcdrain
         \/ \E action : tcflow(action)
         \/ \E queue_selector : tcflush(queue_selector)
         \/ \E optional_actions : tcsetattr(optional_actions)
  PROVE  TermiosInv' /\ Allowed
<1>1. tty \in Drivers /\ termios_line \in SpeedPairs
  BY DEF TermiosInv
<1>2. CASE \E call, errno : BadCall(call, errno)
  BY <1>2, BadCallKeeps
<1>3. CASE \E call, asked : /\ asked \in Drivers /\ asked.break = tty.break
                            /\ asked.settings \in {tty.settings, termios_line}
                            /\ Ioctl(call, asked)
  BY <1>3, RequestKeeps
<1>4. CASE tcdrain
  BY <1>1, <1>3, <1>4, FlagsAside DEF tcdrain
<1>5. ASSUME NEW action, tcflow(action)
      PROVE  TermiosInv' /\ Allowed
  <2>1. CASE action \in {"TCOOFF", "TCIOFF"}
    BY <1>1, <1>3, <1>5, <2>1, FlagsAside DEF tcflow
  <2>2. CASE action \in {"TCOON", "TCION"}
    BY <1>1, <1>3, <1>5, <2>2, FlagsAside DEF tcflow
  <2>3. CASE action \notin {"TCOOFF", "TCIOFF", "TCOON", "TCION"}
    BY <1>2, <1>5, <2>3 DEF tcflow
  <2> QED BY <2>1, <2>2, <2>3
<1>6. ASSUME NEW queue_selector, tcflush(queue_selector)
      PROVE  TermiosInv' /\ Allowed
  <2>1. CASE queue_selector = "TCIFLUSH"
    <3>1. Ioctl("tcflush", [tty EXCEPT !.input = FALSE])
      BY <1>6, <2>1 DEF tcflush
    <3> QED BY <1>1, <1>3, <3>1, FlagsAside
  <2>2. CASE queue_selector = "TCOFLUSH"
    <3>1. Ioctl("tcflush", [tty EXCEPT !.output = FALSE])
      BY <1>6, <2>2 DEF tcflush
    <3> QED BY <1>1, <1>3, <3>1, FlagsAside
  <2>3. CASE queue_selector = "TCIOFLUSH"
    <3> DEFINE first == [tty EXCEPT !.input = FALSE]
               both == [first EXCEPT !.output = FALSE]
    <3>1. Ioctl("tcflush", both)
      <4>1. Ioctl("tcflush", [tty EXCEPT !.input = FALSE, !.output = FALSE])
        BY <1>6, <2>3 DEF tcflush
      <4> QED BY <4>1
    <3>2. first \in Drivers /\ first.break = tty.break /\ first.settings = tty.settings
      BY <1>1, FlagsAside
    <3> HIDE DEF first
    <3>3. both \in Drivers /\ both.break = first.break /\ both.settings = first.settings
      BY <3>2, FlagsAside
    <3> HIDE DEF both
    <3> QED BY <1>3, <3>1, <3>2, <3>3
  <2>4. CASE queue_selector \notin {"TCIFLUSH", "TCOFLUSH", "TCIOFLUSH"}
    BY <1>2, <1>6, <2>4 DEF tcflush
  <2> QED BY <2>1, <2>2, <2>3, <2>4
<1>7. ASSUME NEW optional_actions, tcsetattr(optional_actions)
      PROVE  TermiosInv' /\ Allowed
  <2> DEFINE set == [tty EXCEPT !.settings = termios_line]
             drained == [set EXCEPT !.output = FALSE]
             flushed == [drained EXCEPT !.input = FALSE]
  <2>1. CASE optional_actions = "TCSANOW"
    <3>1. Ioctl("tcsetattr", set)
      BY <1>7, <2>1 DEF tcsetattr
    <3> QED BY <1>1, <1>3, <3>1, SettingsAside
  <2>2. set \in Drivers /\ set.break = tty.break /\ set.settings = termios_line
    BY <1>1, SettingsAside
  <2>3. CASE optional_actions = "TCSADRAIN"
    <3>1. Ioctl("tcsetattr", drained)
      BY <1>7, <2>3 DEF tcsetattr
    <3> HIDE DEF set
    <3>2. drained \in Drivers /\ drained.break = set.break /\ drained.settings = set.settings
      BY <2>2, FlagsAside
    <3> HIDE DEF drained
    <3> QED BY <1>3, <2>2, <3>1, <3>2
  <2>4. CASE optional_actions = "TCSAFLUSH"
    <3>1. Ioctl("tcsetattr", flushed)
      BY <1>7, <2>4 DEF tcsetattr
    <3> HIDE DEF set
    <3>2. drained \in Drivers /\ drained.break = set.break /\ drained.settings = set.settings
      BY <2>2, FlagsAside
    <3> HIDE DEF drained
    <3>3. flushed \in Drivers /\ flushed.break = tty.break /\ flushed.settings = termios_line
      BY <2>2, <3>2, FlagsAside
    <3> HIDE DEF flushed
    <3> QED BY <1>3, <3>1, <3>3
  <2>5. CASE optional_actions \notin {"TCSANOW", "TCSADRAIN", "TCSAFLUSH"}
    BY <1>2, <1>7, <2>5 DEF tcsetattr
  <2> QED BY <2>1, <2>3, <2>4, <2>5
<1> QED BY <1>4, <1>5, <1>6, <1>7

\* The speeds are numbers, and one of them is the slowest.
LEMMA SlowestIsASpeed == Slowest \in Speeds
<1>1. PICK s \in Speeds : \A k \in Speeds : s <= k
  BY TermiosAssumption, LeastNumber DEF TermiosAssumption
<1> QED BY <1>1 DEF Slowest

\* A break is sent: it ends when its duration is over and the request to end it is answered.
LEMMA BreakKeeps ==
  ASSUME TermiosInv, NEW duration \in Durations, tcsendbreak(duration)
  PROVE  TermiosInv' /\ Allowed
<1>1. /\ tty \in Drivers /\ termios_line \in SpeedPairs /\ duration \in Int
      /\ tty.break = (line_ret.broke # "no")
  BY TermiosAssumption DEF TermiosInv, TermiosAssumption
<1>2. CASE duration < 0
  BY <1>2, BadCallKeeps DEF tcsendbreak
<1>3. CASE ~(duration < 0)
  <2>1. SetBreak(duration)
    BY <1>3, Zenon DEF tcsendbreak
  <2>2. PICK set \in BOOLEAN, cleared \in BOOLEAN :
          /\ tty' = [tty EXCEPT !.break = IF set /\ duration > 0 /\ cleared THEN FALSE
                                          ELSE @ \/ set]
          /\ line_ret' =
               [call |-> "tcsendbreak", errno |-> "",
                ret |-> IF set /\ (duration = 0 \/ cleared) THEN 0 ELSE -1,
                broke |-> IF ~set THEN line_ret.broke
                          ELSE IF duration = 0 THEN "unbounded"
                          ELSE IF cleared THEN "no" ELSE "failed"]
          /\ UNCHANGED termios_line
    BY <2>1, Zenon DEF SetBreak
  <2>3. CASE ~set
    <3>1. tty' = [tty EXCEPT !.break = @ \/ FALSE] /\ line_ret'.broke = line_ret.broke
      BY <2>2, <2>3
    <3>2. tty' = tty
      BY <1>1, <3>1 DEF Drivers
    <3> QED BY <2>2, <3>1, <3>2, AnswerOnly
  <2>4. CASE set
    <3>1. PICK b \in BOOLEAN : b <=> ~(duration > 0 /\ cleared)
      OBVIOUS
    <3>2. tty' = [tty EXCEPT !.break = b]
      <4>1. CASE b
        <5>1. tty' = [tty EXCEPT !.break = TRUE]
          BY <1>1, <2>2, <2>4, <3>1, <4>1 DEF Drivers
        <5> QED BY <4>1, <5>1
      <4>2. CASE ~b
        <5>1. tty' = [tty EXCEPT !.break = FALSE]
          BY <1>1, <2>2, <2>4, <3>1, <4>2
        <5> QED BY <4>2, <5>1
      <4> QED BY <4>1, <4>2
    <3>3. tty' \in Drivers /\ tty'.break = b /\ tty'.settings = tty.settings
      BY <1>1, <3>2 DEF Drivers
    <3>4. line_ret'.broke = IF duration = 0 THEN "unbounded"
                            ELSE IF cleared THEN "no" ELSE "failed"
      BY <2>2, <2>4
    <3>5. line_ret'.broke # "no" <=> b
      BY <1>1, <1>3, <3>1, <3>4
    <3>6. tty'.break = (line_ret'.broke # "no")
      BY <3>3, <3>5, Zenon
    <3>7. termios_line' = termios_line
      BY <2>2
    <3>8. TermiosInv'
      BY <1>1, <3>3, <3>6, <3>7, Zenon DEF TermiosInv
    <3>9. {tty'.settings.ispeed, tty'.settings.ospeed} \subseteq Speeds
      BY <1>1, <3>3, DriverSpeeds
    <3>10. (line_ret'.ret = -1 /\ tty'.break = tty.break) => tty' = tty
      <4>1. CASE b = tty.break
        BY <1>1, <3>2, <4>1 DEF Drivers
      <4>2. CASE b # tty.break
        BY <3>3, <4>2
      <4> QED BY <4>1, <4>2
    <3>11. (line_ret'.ret = -1 /\ line_ret' # line_ret /\ tty'.break = tty.break)
             => UNCHANGED <<termios_line, tty>>
      BY <3>7, <3>10
    <3> QED BY <3>3, <3>6, <3>7, <3>8, <3>9, <3>11, Zenon DEF Allowed
  <2> QED BY <2>3, <2>4
<1> QED BY <1>2, <1>3

\* The driver works on its own, and the settings are read.
LEMMA TrafficKeeps ==
  ASSUME TermiosInv, Traffic
  PROVE  TermiosInv' /\ Allowed
<1>1. /\ tty \in Drivers /\ termios_line' = termios_line /\ line_ret' = line_ret
      /\ tty.break = (line_ret.broke # "no")
  BY DEF TermiosInv, Traffic
<1>2. tty' \in Drivers /\ tty'.break = tty.break /\ tty'.settings = tty.settings
  BY <1>1 DEF Traffic, Drivers
<1>3. tty'.break = (line_ret'.broke # "no")
  BY <1>1, <1>2, Zenon
<1>4. TermiosInv'
  BY <1>1, <1>2, <1>3, Zenon DEF TermiosInv
<1>5. {tty'.settings.ispeed, tty'.settings.ospeed} \subseteq Speeds
  BY <1>1, <1>2, DriverSpeeds
<1> QED BY <1>1, <1>2, <1>3, <1>4, <1>5, Zenon DEF Allowed

LEMMA ReadKeeps ==
  ASSUME TermiosInv, tcgetattr
  PROVE  TermiosInv' /\ Allowed
<1>1. tty \in Drivers /\ tty' = tty /\ line_ret'.broke = line_ret.broke
      /\ tty.break = (line_ret.broke # "no")
  BY RetIs DEF TermiosInv, tcgetattr
<1>2. CASE termios_line' = termios_line
  BY <1>1, <1>2, AnswerOnly
<1>3. CASE termios_line' # termios_line
  <2>1. /\ termios_line' = tty.settings /\ line_ret'.ret = 0 /\ line_ret'.call = "tcgetattr"
    BY <1>3, RetIs DEF tcgetattr
  <2>2. tty.settings \in SpeedPairs /\ {tty.settings.ispeed, tty.settings.ospeed} \subseteq Speeds
    BY <1>1, DriverSpeeds
  <2>3. tty'.break = (line_ret'.broke # "no")
    BY <1>1, Zenon
  <2>4. TermiosInv'
    BY <1>1, <2>1, <2>2, <2>3, Zenon DEF TermiosInv
  <2>5. line_ret'.ret # -1 /\ line_ret'.call # "cfsetispeed" /\ line_ret'.call # "cfsetospeed"
    BY <2>1
  <2> QED BY <1>1, <2>1, <2>2, <2>3, <2>4, <2>5 DEF Allowed
<1> QED BY <1>2, <1>3

\* Every step of the terminal keeps the invariant and is as SettingsFollow asks.
LEMMA TermiosKeeps ==
  ASSUME TermiosInv, TermiosNext
  PROVE  TermiosInv' /\ Allowed
<1>1. CASE \E speed \in Speeds \cup OtherSpeeds : cfsetispeed(speed) \/ cfsetospeed(speed)
  BY <1>1, SpeedKeeps
<1>2. CASE \E call \in {"cfgetispeed", "cfgetospeed"} : CfGetSpeed(call)
  BY <1>2, RetIs, AnswerOnly DEF CfGetSpeed
<1>3. CASE \E call, errno : BadCall(call, errno)
  BY <1>3, BadCallKeeps
<1>4. CASE tcgetsid
  BY <1>4, RetIs, AnswerOnly DEF tcgetsid
<1>5. CASE \/ tcdrain
           \/ \E action : tcflow(action)
           \/ \E queue_selector : tcflush(queue_selector)
           \/ \E optional_actions : tcsetattr(optional_actions)
  BY <1>5, DriverCallKeeps
<1>6. CASE \E duration \in Durations : tcsendbreak(duration)
  BY <1>6, BreakKeeps
<1>7. CASE Traffic
  BY <1>7, TrafficKeeps
<1>8. CASE tcgetattr
  BY <1>8, ReadKeeps
<1> QED BY <1>1, <1>2, <1>3, <1>4, <1>5, <1>6, <1>7, <1>8, Zenon DEF TermiosNext

\* Terminal settings arrive together, and a break is on exactly when one was sent and
\* not ended, for any set of speeds and any durations (termios.c).
THEOREM SettingsAlwaysFollow == TermiosSpec => SettingsFollow
<1>1. TermiosInit => TermiosInv
  <2> SUFFICES ASSUME TermiosInit PROVE TermiosInv
    OBVIOUS
  <2>1. termios_line \in SpeedPairs
    BY SlowestIsASpeed DEF TermiosInit, SpeedPairs
  <2>2. tty \in Drivers /\ tty.break = FALSE
    BY <2>1 DEF TermiosInit, Drivers
  <2>3. line_ret.broke = "no"
    BY DEF TermiosInit
  <2>4. tty.break = (line_ret.broke # "no")
    BY <2>2, <2>3
  <2> QED BY <2>1, <2>2, <2>4, Zenon DEF TermiosInv
<1>2. TermiosInv /\ [TermiosNext]_termios_vars => TermiosInv'
  <2> SUFFICES ASSUME TermiosInv, [TermiosNext]_termios_vars PROVE TermiosInv'
    OBVIOUS
  <2>1. CASE UNCHANGED termios_vars
    <3>1. termios_line' = termios_line /\ tty' = tty /\ line_ret' = line_ret
      BY <2>1 DEF termios_vars
    <3> QED BY <3>1, Zenon DEF TermiosInv
  <2> QED BY <2>1, TermiosKeeps
<1>3. TermiosInv /\ [TermiosNext]_termios_vars => [Allowed]_termios_vars
  <2> SUFFICES ASSUME TermiosInv, [TermiosNext]_termios_vars PROVE [Allowed]_termios_vars
    OBVIOUS
  <2>1. CASE UNCHANGED termios_vars
    BY <2>1
  <2> QED BY <2>1, TermiosKeeps
<1>4. TermiosSpec => [][Allowed]_termios_vars
  BY <1>1, <1>2, <1>3, PTL DEF TermiosSpec
<1> QED BY <1>4 DEF SettingsFollow, Allowed
-----------------------------------------------------------------------------
(* Folds.  FoldLeft is a recursive function on sets of indices that takes   *)
(* the greatest off; what follows gives that there is one.                   *)

\* The greatest of a set of indices that has the last one, and of one that has not.
LEMMA SetsUpTo ==
  ASSUME NEW n \in Nat, NEW t \in SUBSET (1 .. n + 1), t # {}
  PROVE  /\ Max(t) \in t
         /\ n + 1 \in t => Max(t) = n + 1 /\ t \ {n + 1} \in SUBSET (1 .. n)
         /\ n + 1 \notin t => t \in SUBSET (1 .. n)
         /\ t \ {Max(t)} \in SUBSET (1 .. n)
<1>1. n + 1 \in Nat /\ t \in SUBSET (0 .. n + 1)
  OBVIOUS
<1>2. Max(t) \in t /\ \A y \in t : y <= Max(t)
  BY <1>1, GreatestIn
<1>3. n + 1 \in t => Max(t) = n + 1
  <2>1. Max(t) \in 1 .. n + 1
    BY <1>2
  <2>2. n + 1 \in t => n + 1 <= Max(t)
    BY <1>2
  <2> HIDE <1>2
  <2> QED BY <2>1, <2>2
<1>4. n + 1 \notin t => t \in SUBSET (1 .. n)
  OBVIOUS
<1>5. t \ {Max(t)} \in SUBSET (1 .. n)
  <2>1. CASE n + 1 \in t
    <3>1. \A x \in t \ {n + 1} : x \in 1 .. n
      OBVIOUS
    <3> QED BY <1>3, <2>1, <3>1
  <2>2. CASE n + 1 \notin t
    BY <1>4, <2>2
  <2> QED BY <2>1, <2>2
<1> QED BY <1>2, <1>3, <1>4, <1>5

\* All indices up to the k-th.
LEMMA FirstIndices ==
  ASSUME NEW k \in Nat, k > 0
  PROVE  1 .. k # {} /\ Max(1 .. k) = k /\ (1 .. k) \ {k} = 1 .. k - 1
<1>1. k - 1 \in Nat /\ (k - 1) + 1 = k
  OBVIOUS
<1>2. 1 .. k # {} /\ k \in 1 .. k
  OBVIOUS
<1>3. Max(1 .. k) = k
  BY <1>1, <1>2, SetsUpTo
<1> QED BY <1>2, <1>3

IsFold(g, base, f, n) ==
  g = [t \in SUBSET (1 .. n) |-> IF t = {} THEN base ELSE f[Max(t)][g[t \ {Max(t)}]]]

\* One more index.
LEMMA FoldGrows ==
  ASSUME NEW X, NEW base \in X, NEW n \in Nat, NEW f, f[n + 1] \in [X -> X],
         NEW g \in [SUBSET (1 .. n) -> X], IsFold(g, base, f, n)
  PROVE  \E h \in [SUBSET (1 .. n + 1) -> X] : IsFold(h, base, f, n + 1)
<1> DEFINE h == [t \in SUBSET (1 .. n + 1) |->
                  IF n + 1 \in t THEN f[n + 1][g[t \ {n + 1}]] ELSE g[t]]
<1>1. ASSUME NEW t \in SUBSET (1 .. n + 1)
      PROVE  h[t] \in X /\ h[t] = IF t = {} THEN base ELSE f[Max(t)][h[t \ {Max(t)}]]
  <2>1. CASE n + 1 \in t
    <3>1. Max(t) = n + 1 /\ t \ {n + 1} \in SUBSET (1 .. n) /\ t # {}
      BY <2>1, SetsUpTo
    <3>2. PICK rest : rest = t \ {n + 1}
      OBVIOUS
    <3>3. n + 1 \notin rest /\ rest \in SUBSET (1 .. n) /\ rest \in SUBSET (1 .. n + 1)
      BY <3>1, <3>2
    <3>4. h[rest] = g[rest] /\ g[rest] \in X
      BY <3>3
    <3>5. h[t] = f[n + 1][g[rest]]
      BY <2>1, <3>2
    <3> QED BY <3>1, <3>2, <3>4, <3>5
  <2>2. CASE n + 1 \notin t
    <3>1. t \in SUBSET (1 .. n) /\ h[t] = g[t] /\ g[t] \in X
      <4>1. h[t] = g[t]
        BY <2>2
      <4>2. \A x \in t : x \in 1 .. n
        BY <2>2
      <4> HIDE DEF h
      <4> QED BY <4>1, <4>2
    <3>2. g[t] = IF t = {} THEN base ELSE f[Max(t)][g[t \ {Max(t)}]]
      <4> HIDE DEF h
      <4> QED BY <3>1 DEF IsFold
    <3>3. t # {} => h[t \ {Max(t)}] = g[t \ {Max(t)}]
      <4>1. PICK rest : rest = t \ {Max(t)}
        OBVIOUS
      <4>2. rest \in SUBSET (1 .. n + 1) /\ n + 1 \notin rest
        BY <2>2, <4>1
      <4> QED BY <4>1, <4>2
    <3> HIDE DEF h
    <3> QED BY <3>1, <3>2, <3>3
  <2> HIDE DEF h
  <2> QED BY <2>1, <2>2
<1>2. h = [t \in SUBSET (1 .. n + 1) |-> h[t]]
  OBVIOUS
<1> HIDE DEF h
<1>3. h = [t \in SUBSET (1 .. n + 1) |-> IF t = {} THEN base ELSE f[Max(t)][h[t \ {Max(t)}]]]
  BY <1>1, <1>2
<1>4. h \in [SUBSET (1 .. n + 1) -> X]
  BY <1>1, <1>2
<1> QED BY <1>3, <1>4 DEF IsFold

\* There is such a function for every number of indices.
LEMMA FoldsExist ==
  ASSUME NEW X, NEW base \in X, NEW N \in Nat, NEW f \in [1 .. N -> [X -> X]]
  PROVE  \E g \in [SUBSET (1 .. N) -> X] : IsFold(g, base, f, N)
<1> DEFINE Fails == {n \in 0 .. N : ~\E g \in [SUBSET (1 .. n) -> X] : IsFold(g, base, f, n)}
<1>1. SUFFICES ASSUME Fails # {} PROVE FALSE
  <2>1. N \in 0 .. N
    OBVIOUS
  <2>2. Fails = {} => N \notin Fails
    OBVIOUS
  <2> QED BY <2>1, <2>2
<1> Fails \in SUBSET Nat
  <2>1. \A n \in 0 .. N : n \in Nat
    OBVIOUS
  <2> QED BY <2>1
<1>2. PICK n \in Fails : \A k \in Fails : n <= k
  BY <1>1, LeastNumber
<1>3. n # 0
  <2> SUFFICES \E g \in [SUBSET (1 .. 0) -> X] : IsFold(g, base, f, 0)
    BY <1>2
  <2> DEFINE g == [t \in SUBSET (1 .. 0) |-> base]
  <2>1. \A t \in SUBSET (1 .. 0) : t = {}
    OBVIOUS
  <2>2. g = [t \in SUBSET (1 .. 0) |-> IF t = {} THEN base ELSE f[Max(t)][g[t \ {Max(t)}]]]
    BY <2>1
  <2>3. g \in [SUBSET (1 .. 0) -> X]
    OBVIOUS
  <2> HIDE DEF g
  <2> QED BY <2>2, <2>3 DEF IsFold
<1>4. PICK k \in 0 .. N : n = k + 1
  <2>1. n - 1 \in 0 .. N /\ n = (n - 1) + 1
    BY <1>2, <1>3
  <2> QED BY <2>1
<1>5. k \notin Fails
  <2>1. k \in Fails => k + 1 <= k
    BY <1>2, <1>4
  <2>2. ~(k + 1 <= k)
    BY <1>4
  <2> HIDE DEF Fails
  <2> QED BY <2>1, <2>2
<1>6. PICK g \in [SUBSET (1 .. k) -> X] : IsFold(g, base, f, k)
  BY <1>5
<1>7. k \in Nat /\ f[k + 1] \in [X -> X]
  BY <1>2, <1>4
<1>8. \E h \in [SUBSET (1 .. k + 1) -> X] : IsFold(h, base, f, k + 1)
  BY <1>6, <1>7, FoldGrows
<1> QED BY <1>2, <1>4, <1>8
-----------------------------------------------------------------------------
(* Strings: bytes copied one by one.                                       *)

CopyByte(x, d, s, i) == [x EXCEPT ![d + i] = x[s + i]]

\* The function CopyBytes is defined by.
IsCopied(g, m, d, s, order, n) ==
  g = [t \in SUBSET (1 .. n) |->
        IF t = {} THEN m ELSE CopyByte(g[t \ {Max(t)}], d, s, order[Max(t)])]

\* Memory after each of the bytes.
Copying(p, m, d, s, order, n) ==
  p[0] = m /\ \A k \in 1 .. n : p[k] = CopyByte(p[k - 1], d, s, order[k])

\* The indices of an order are inside the memory at both places.
Inside(d, s, order, n) ==
  \A i \in 1 .. n : order[i] \in Int /\ d + order[i] \in Address /\ s + order[i] \in Address

LEMMA CopyBytesIs ==
  ASSUME NEW m, NEW d, NEW s, NEW n, NEW order, DOMAIN order = 1 .. n
  PROVE  CopyBytes(m, d, s, order) = (CHOOSE g : IsCopied(g, m, d, s, order, n))[1 .. n]
BY DEF CopyBytes, CopyByte, FoldLeft, MapThenFoldSet, IsCopied

\* There is such a function.
LEMMA CopiedExists ==
  ASSUME NEW V, NEW m \in [Address -> V], NEW d, NEW s, NEW n \in Nat, NEW order,
         Inside(d, s, order, n)
  PROVE  \E g : IsCopied(g, m, d, s, order, n)
<1> DEFINE X == [Address -> V]
           step(i) == [x \in X |-> CopyByte(x, d, s, order[i])]
           f == [i \in 1 .. n |-> step(i)]
<1>1. ASSUME NEW i \in 1 .. n, NEW x \in X
      PROVE  CopyByte(x, d, s, order[i]) \in X
  BY DEF CopyByte, Inside
<1>2. \A i \in 1 .. n : step(i) \in [X -> X]
  <2> TAKE i \in 1 .. n
  <2> HIDE DEF X
  <2> QED BY <1>1
<1>3. f \in [1 .. n -> [X -> X]]
  <2> HIDE DEF step, X
  <2> QED BY <1>2
<1>4. \A i \in 1 .. n, x \in X : f[i][x] = CopyByte(x, d, s, order[i])
  <2> HIDE DEF X
  <2> QED OBVIOUS
<1> m \in X
  OBVIOUS
<1> HIDE DEF f, step, X
<1>5. PICK g \in [SUBSET (1 .. n) -> X] : IsFold(g, m, f, n)
  BY <1>3, FoldsExist
<1>6. ASSUME NEW t \in SUBSET (1 .. n), t # {}
      PROVE  f[Max(t)][g[t \ {Max(t)}]] = CopyByte(g[t \ {Max(t)}], d, s, order[Max(t)])
  <2>1. n - 1 \in Nat /\ (n - 1) + 1 = n
    <3>1. PICK x \in 1 .. n : x \in t
      BY <1>6
    <3>2. n # 0
      BY <3>1
    <3> QED BY <3>2
  <2>2. Max(t) \in t
    BY <2>1, <1>6, SetsUpTo
  <2>3. Max(t) \in 1 .. n /\ t \ {Max(t)} \in SUBSET (1 .. n)
    BY <2>2
  <2>4. g[t \ {Max(t)}] \in X
    BY <2>3
  <2> QED BY <1>4, <2>3, <2>4
<1>7. g = [t \in SUBSET (1 .. n) |->
            IF t = {} THEN m ELSE f[Max(t)][g[t \ {Max(t)}]]]
  BY <1>5 DEF IsFold
<1>8. g = [t \in SUBSET (1 .. n) |->
            IF t = {} THEN m ELSE CopyByte(g[t \ {Max(t)}], d, s, order[Max(t)])]
  BY <1>6, <1>7
<1> QED BY <1>8 DEF IsCopied

LEMMA CopySteps ==
  ASSUME NEW V, NEW m \in [Address -> V], NEW d, NEW s, NEW n \in Nat, NEW order,
         DOMAIN order = 1 .. n, Inside(d, s, order, n)
  PROVE  \E p : Copying(p, m, d, s, order, n) /\ p[n] = CopyBytes(m, d, s, order)
<1>1. PICK g : /\ IsCopied(g, m, d, s, order, n)
               /\ CopyBytes(m, d, s, order) = g[1 .. n]
  BY CopiedExists, CopyBytesIs
<1> DEFINE p == [k \in 0 .. n |-> g[1 .. k]]
<1>2. \A t \in SUBSET (1 .. n) :
        g[t] = IF t = {} THEN m ELSE CopyByte(g[t \ {Max(t)}], d, s, order[Max(t)])
  BY <1>1 DEF IsCopied
<1>3. p[0] = m
  <2>1. {} \in SUBSET (1 .. n) /\ 1 .. 0 = {} /\ 0 \in 0 .. n
    OBVIOUS
  <2>2. g[{}] = m
    BY <1>2, <2>1
  <2> QED BY <2>1, <2>2
<1>4. ASSUME NEW k \in 1 .. n
      PROVE  p[k] = CopyByte(p[k - 1], d, s, order[k])
  <2>1. k \in 0 .. n /\ k - 1 \in 0 .. n /\ 1 .. k \in SUBSET (1 .. n)
    OBVIOUS
  <2>2. 1 .. k # {} /\ Max(1 .. k) = k /\ (1 .. k) \ {k} = 1 .. k - 1
    <3>1. k \in Nat /\ k > 0
      OBVIOUS
    <3> QED BY <3>1, FirstIndices
  <2>3. g[1 .. k] = CopyByte(g[1 .. k - 1], d, s, order[k])
    BY <1>2, <2>1, <2>2
  <2> QED BY <2>1, <2>3
<1>5. p[n] = CopyBytes(m, d, s, order)
  BY <1>1
<1> HIDE DEF p
<1> QED BY <1>3, <1>4, <1>5 DEF Copying

\* Memory after the bytes of the first k indices have come from the old memory.
Brought(m, d, s, order, k) ==
  [a \in Address |-> IF \E i \in 1 .. k : a - d = order[i] THEN m[s + (a - d)] ELSE m[a]]

\* If no byte is read after it was written, each is the old one.
LEMMA CopiedInOrder ==
  ASSUME NEW V, NEW m \in [Address -> V], NEW d \in Int, NEW s \in Int, NEW n \in Nat, NEW order,
         DOMAIN order = 1 .. n, Inside(d, s, order, n),
         \A k \in 1 .. n : \A i \in 1 .. k - 1 : s + order[k] - d # order[i]
  PROVE  CopyBytes(m, d, s, order) = Brought(m, d, s, order, n)
<1>1. PICK p : Copying(p, m, d, s, order, n) /\ p[n] = CopyBytes(m, d, s, order)
  BY CopySteps
<1>2. p[0] = m /\ \A k \in 1 .. n : p[k] = CopyByte(p[k - 1], d, s, order[k])
  BY <1>1 DEF Copying
<1> DEFINE B(k) == Brought(m, d, s, order, k)
           Fails == {k \in 0 .. n : p[k] # B(k)}
<1>3. p[0] = B(0)
  <2>1. \A a \in Address : ~\E i \in 1 .. 0 : a - d = order[i]
    OBVIOUS
  <2>2. B(0) = [a \in Address |-> m[a]]
    BY <2>1 DEF Brought
  <2> QED BY <1>2, <2>2
<1>4. ASSUME NEW k \in 1 .. n, p[k - 1] = B(k - 1)
      PROVE  p[k] = B(k)
  <2>1. p[k] = [B(k - 1) EXCEPT ![d + order[k]] = B(k - 1)[s + order[k]]]
    BY <1>2, <1>4 DEF CopyByte
  <2>2. order[k] \in Int /\ d + order[k] \in Address /\ s + order[k] \in Address /\ k \in Int
    BY DEF Inside
  <2>3. B(k - 1)[s + order[k]] = m[s + order[k]]
    <3>1. ~\E i \in 1 .. k - 1 : (s + order[k]) - d = order[i]
      BY <2>2
    <3> QED BY <2>2, <3>1 DEF Brought
  <2>4. ASSUME NEW a \in Address
        PROVE  p[k][a] = B(k)[a]
    <3>1. a \in Int
      BY StringsAssumption DEF Address, StringsAssumption
    <3>2. CASE a = d + order[k]
      <4>1. p[k][a] = m[s + order[k]]
        BY <2>1, <2>2, <2>3, <3>2 DEF Brought
      <4>2. a - d = order[k] /\ k \in 1 .. k
        BY <2>2, <3>2
      <4>3. B(k)[a] = m[s + (a - d)]
        BY <4>2 DEF Brought
      <4> QED BY <4>1, <4>2, <4>3
    <3>3. CASE a # d + order[k]
      <4>1. p[k][a] = B(k - 1)[a]
        BY <2>1, <3>3 DEF Brought
      <4>2. a - d # order[k]
        BY <2>2, <3>1, <3>3
      <4>3. (\E i \in 1 .. k : a - d = order[i]) <=> (\E i \in 1 .. k - 1 : a - d = order[i])
        <5>1. \A i \in 1 .. k : i = k \/ i \in 1 .. k - 1
          BY <2>2
        <5>2. \A i \in 1 .. k - 1 : i \in 1 .. k
          BY <2>2
        <5> QED BY <4>2, <5>1, <5>2
      <4> QED BY <4>1, <4>3 DEF Brought
    <3> QED BY <3>2, <3>3
  <2>5. p[k] = [a \in Address |-> p[k][a]] /\ B(k) = [a \in Address |-> B(k)[a]]
    BY <2>1 DEF Brought
  <2> HIDE DEF B
  <2> QED BY <2>4, <2>5
<1>5. Fails = {}
  <2> SUFFICES ASSUME Fails # {} PROVE FALSE
    OBVIOUS
  <2>1. Fails \in SUBSET Nat
    <3>1. \A k \in 0 .. n : k \in Nat
      OBVIOUS
    <3> QED BY <3>1
  <2>2. PICK k \in Fails : \A j \in Fails : k <= j
    BY <2>1, LeastNumber
  <2>3. k \in 0 .. n /\ p[k] # B(k)
    BY <2>2
  <2>4. k # 0
    <3> HIDE DEF B
    <3> QED BY <1>3, <2>3
  <2>5. k \in 1 .. n /\ k - 1 \in 0 .. n /\ ~(k <= k - 1)
    BY <2>3, <2>4
  <2>6. k - 1 \notin Fails
    <3> HIDE DEF Fails
    <3> QED BY <2>2, <2>5
  <2>7. p[k - 1] = B(k - 1)
    BY <2>5, <2>6
  <2> HIDE DEF B
  <2> QED BY <1>4, <2>3, <2>5, <2>7
<1>6. n \in 0 .. n
  OBVIOUS
<1>7. p[n] = B(n)
  BY <1>5, <1>6
<1> QED BY <1>1, <1>7

\* What memmove promises.
WholeMoved(m, d, s, n) ==
  [a \in Address |-> IF a - d \in 0 .. n - 1 THEN m[s + (a - d)] ELSE m[a]]

\* Upwards and downwards alike, whichever end memmove starts from.
LEMMA MovesWhole ==
  ASSUME NEW V, NEW m \in [Address -> V], NEW d \in Address, NEW s \in Address,
         NEW n \in 0 .. MemSize, Fits(d, n), Fits(s, n)
  PROVE  memmove(m, d, s, n) = WholeMoved(m, d, s, n)
<1>1. /\ n \in Nat /\ d \in Int /\ s \in Int /\ MemSize \in Nat /\ d >= 0 /\ s >= 0
      /\ d + n <= MemSize /\ s + n <= MemSize
  BY StringsAssumption DEF Address, StringsAssumption, Fits
<1>2. ASSUME NEW order, DOMAIN order = 1 .. n,
             \A i \in 1 .. n : order[i] \in 0 .. n - 1,
             \A k \in 1 .. n : \A i \in 1 .. k - 1 : s + order[k] - d # order[i],
             \A j \in 0 .. n - 1 : \E i \in 1 .. n : j = order[i]
      PROVE  CopyBytes(m, d, s, order) = WholeMoved(m, d, s, n)
  <2>1. Inside(d, s, order, n)
    <3>1. \A j \in 0 .. n - 1 : j \in Int /\ d + j \in Address /\ s + j \in Address
      BY <1>1 DEF Address
    <3> QED BY <1>2, <3>1 DEF Inside
  <2>2. CopyBytes(m, d, s, order) = Brought(m, d, s, order, n)
    BY <1>1, <1>2, <2>1, CopiedInOrder
  <2>3. \A j \in Int : (\E i \in 1 .. n : j = order[i]) <=> j \in 0 .. n - 1
    BY <1>2
  <2>4. \A a \in Address : a - d \in Int
    BY <1>1 DEF Address
  <2>5. Brought(m, d, s, order, n) = WholeMoved(m, d, s, n)
    BY <2>3, <2>4 DEF Brought, WholeMoved
  <2> QED BY <2>2, <2>5
<1>3. CASE d < s
  <2>1. memmove(m, d, s, n) = CopyBytes(m, d, s, Upwards(n))
    BY <1>3 DEF memmove
  <2> DEFINE order == Upwards(n)
  <2>2. DOMAIN order = 1 .. n /\ \A i \in 1 .. n : order[i] = i - 1
    BY DEF Upwards
  <2> HIDE DEF order
  <2>3. \A i \in 1 .. n : order[i] \in 0 .. n - 1
    BY <1>1, <2>2
  <2>4. ASSUME NEW k \in 1 .. n, NEW i \in 1 .. k - 1
        PROVE  s + order[k] - d # order[i]
    <3>1. i \in 1 .. n /\ order[i] = i - 1 /\ order[k] = k - 1
      BY <1>1, <2>2
    <3> QED BY <1>1, <1>3, <3>1
  <2>5. ASSUME NEW j \in 0 .. n - 1
        PROVE  \E i \in 1 .. n : j = order[i]
    <3>1. j + 1 \in 1 .. n /\ j = (j + 1) - 1
      BY <1>1
    <3> QED BY <2>2, <3>1
  <2>6. CopyBytes(m, d, s, order) = WholeMoved(m, d, s, n)
    BY <1>2, <2>2, <2>3, <2>4, <2>5
  <2> QED BY <2>1, <2>6 DEF order
<1>4. CASE ~(d < s)
  <2>1. memmove(m, d, s, n) = CopyBytes(m, d, s, Downwards(n))
    BY <1>4 DEF memmove
  <2> DEFINE order == Downwards(n)
  <2>2. DOMAIN order = 1 .. n /\ \A i \in 1 .. n : order[i] = n - i
    BY DEF Downwards
  <2> HIDE DEF order
  <2>3. \A i \in 1 .. n : order[i] \in 0 .. n - 1
    BY <1>1, <2>2
  <2>4. ASSUME NEW k \in 1 .. n, NEW i \in 1 .. k - 1
        PROVE  s + order[k] - d # order[i]
    <3>1. i \in 1 .. n /\ order[i] = n - i /\ order[k] = n - k
      BY <1>1, <2>2
    <3> QED BY <1>1, <1>4, <3>1
  <2>5. ASSUME NEW j \in 0 .. n - 1
        PROVE  \E i \in 1 .. n : j = order[i]
    <3>1. n - j \in 1 .. n /\ j = n - (n - j)
      BY <1>1
    <3> QED BY <2>2, <3>1
  <2>6. CopyBytes(m, d, s, order) = WholeMoved(m, d, s, n)
    BY <1>2, <2>2, <2>3, <2>4, <2>5
  <2> QED BY <2>1, <2>6 DEF order
<1> QED BY <1>3, <1>4

-----------------------------------------------------------------------------
(* The memory in which a program calls is one it has filled.               *)

MemoryInv == string_ret.fn = "fill" => mem \in [Address -> Chars \cup {NUL}]

\* What MovedIntact asks of a step.
Intact ==
  string_ret'.fn = "memmove" =>
    \A a \in Address :
      mem'[a] = IF a - string_ret'.d \in 0 .. string_ret'.n - 1
                THEN mem[string_ret'.s + a - string_ret'.d] ELSE mem[a]

\* Every other call answers under a name of its own.
LEMMA OthersAnswer ==
  ASSUME Search \/ Scan \/ FirstToken \/ NextToken
  PROVE  string_ret'.fn \notin {"fill", "memmove"}
<1>1. CASE Search
  BY <1>1 DEF Search, Answer
<1>2. CASE Scan
  BY <1>2 DEF Scan, Answer
<1>3. ASSUME NEW from, NEW delim, strtok(from, delim)
      PROVE  string_ret'.fn = "strtok"
  <2> DEFINE start == SkipDelims(mem, from, delim)
             stop == Break(mem, start, delim)
  <2>1. CASE from = NULL \/ mem[from] = NUL
    <3>1. Answer([fn |-> "strtok", val |-> NULL])
      BY <1>3, <2>1 DEF strtok
    <3> QED BY <3>1 DEF Answer
  <2>2. CASE ~(from = NULL \/ mem[from] = NUL) /\ mem[start] = NUL
    <3>1. Answer([fn |-> "strtok", val |-> NULL])
      BY <1>3, <2>2 DEF strtok
    <3> QED BY <3>1 DEF Answer
  <2>3. CASE ~(from = NULL \/ mem[from] = NUL) /\ mem[start] # NUL
    <3>1. Answer([fn |-> "strtok", val |-> start])
      BY <1>3, <2>3 DEF strtok
    <3> HIDE DEF start
    <3> QED BY <3>1 DEF Answer
  <2> QED BY <2>1, <2>2, <2>3
<1>4. CASE FirstToken
  BY <1>3, <1>4 DEF FirstToken
<1>5. CASE NextToken
  BY <1>3, <1>5 DEF NextToken
<1> QED BY <1>1, <1>2, <1>4, <1>5

\* A call that writes is a memmove of bytes that fit, or answers under another name.
LEMMA WritesAre ==
  ASSUME Write
  PROVE  /\ string_ret.fn = "fill" /\ string_ret'.fn # "fill"
         /\ string_ret'.fn = "memmove" =>
              \E d, s \in Address, n \in 0 .. MemSize :
                /\ Fits(d, n) /\ Fits(s, n) /\ mem' = memmove(mem, d, s, n)
                /\ string_ret' = [fn |-> "memmove", d |-> d, s |-> s, n |-> n]
<1>1. PICK d \in Address, s \in Address, n \in 0 .. MemSize :
        /\ string_ret.fn = "fill"
        /\ \/ /\ Fits(d, n) /\ Fits(s, n)
              /\ mem' = memmove(mem, d, s, n) /\ Answer([fn |-> "memmove", d |-> d, s |-> s, n |-> n])
           \/ /\ Fits(d, n) /\ Fits(s, n) /\ Disjoint(d, s, n)
              /\ mem' = memcpy(mem, d, s, n) /\ Answer([fn |-> "memcpy", d |-> d, s |-> s, n |-> n])
           \/ /\ Fits(d, n) /\ \E c \in Chars : mem' = memset(mem, d, c, n)
              /\ Answer([fn |-> "memset", d |-> d, n |-> n])
           \/ /\ Terminated(mem, s) /\ n = strlen(mem, s) + 1 /\ Fits(d, n) /\ Disjoint(d, s, n)
              /\ mem' = strcpy(mem, d, s) /\ Answer([fn |-> "strcpy", d |-> d, s |-> s, n |-> n])
           \/ /\ Terminated(mem, s) /\ Terminated(mem, d) /\ n = strlen(mem, d) + strlen(mem, s) + 1
              /\ Fits(d, n) /\ Disjoint(d, s, n)
              /\ mem' = strcat(mem, d, s) /\ Answer([fn |-> "strcat", d |-> d, s |-> s, n |-> n])
           \/ /\ Terminated(mem, s) /\ Fits(d, n) /\ Disjoint(d, s, n + 1)
              /\ mem' = strncpy(mem, d, s, n) /\ Answer([fn |-> "strncpy", d |-> d, s |-> s, n |-> n])
           \/ /\ Terminated(mem, s) /\ Terminated(mem, d)
              /\ Fits(Terminator(mem, d), n + 1) /\ Disjoint(d, s, strlen(mem, d) + n + 2)
              /\ mem' = strncat(mem, d, s, n) /\ Answer([fn |-> "strncat", d |-> d, s |-> s, n |-> n])
  BY DEF Write
<1>2. string_ret'.fn # "fill" /\ string_ret.fn = "fill"
  BY <1>1 DEF Answer
<1>3. ASSUME string_ret'.fn = "memmove"
      PROVE  /\ Fits(d, n) /\ Fits(s, n) /\ mem' = memmove(mem, d, s, n)
             /\ string_ret' = [fn |-> "memmove", d |-> d, s |-> s, n |-> n]
  BY <1>1, <1>3 DEF Answer
<1> QED BY <1>2, <1>3

\* Every step keeps the invariant, and a move leaves the old bytes.
LEMMA StringsKeep ==
  ASSUME MemoryInv, StringsNext
  PROVE  MemoryInv' /\ Intact
<1>1. CASE Fill
  <2>1. mem' \in [Address -> Chars \cup {NUL}] /\ string_ret'.fn = "fill"
    BY <1>1 DEF Fill, Answer
  <2> QED BY <2>1 DEF MemoryInv, Intact
<1>2. CASE Search \/ Scan \/ FirstToken \/ NextToken
  BY <1>2, OthersAnswer DEF MemoryInv, Intact
<1>3. CASE Write
  <2>1. string_ret.fn = "fill" /\ string_ret'.fn # "fill"
    BY <1>3, WritesAre
  <2>2. MemoryInv'
    BY <2>1 DEF MemoryInv
  <2>3. ASSUME string_ret'.fn = "memmove" PROVE Intact
    <3>1. PICK d \in Address, s \in Address, n \in 0 .. MemSize :
            /\ Fits(d, n) /\ Fits(s, n) /\ mem' = memmove(mem, d, s, n)
            /\ string_ret' = [fn |-> "memmove", d |-> d, s |-> s, n |-> n]
      BY <1>3, <2>3, WritesAre
    <3> DEFINE V == Chars \cup {NUL}
    <3>2. mem \in [Address -> V]
      BY <2>1 DEF MemoryInv
    <3> HIDE DEF V
    <3>3. mem' = WholeMoved(mem, d, s, n)
      BY <3>1, <3>2, MovesWhole
    <3>4. string_ret'.d = d /\ string_ret'.s = s /\ string_ret'.n = n
      BY <3>1
    <3>5. \A a \in Address : s + (a - d) = s + a - d
      BY StringsAssumption DEF Address, StringsAssumption
    <3>6. \A a \in Address :
            mem'[a] = IF a - d \in 0 .. n - 1 THEN mem[s + a - d] ELSE mem[a]
      BY <3>3, <3>5 DEF WholeMoved
    <3> QED BY <3>4, <3>6 DEF Intact
  <2>4. string_ret'.fn # "memmove" => Intact
    BY DEF Intact
  <2> QED BY <2>2, <2>3, <2>4
<1> QED BY <1>1, <1>2, <1>3 DEF StringsNext

\* memmove leaves the old bytes of the source in the destination however the two overlap,
\* in a memory of any size and with any characters (string.c:79-92).
THEOREM MovesStayIntact == StringsSpec => MovedIntact
<1>1. StringsInit => MemoryInv
  BY DEF StringsInit, MemoryInv
<1>2. MemoryInv /\ [StringsNext]_strings_vars => MemoryInv'
  <2>1. MemoryInv /\ UNCHANGED strings_vars => MemoryInv'
    BY DEF MemoryInv, strings_vars
  <2> QED BY <2>1, StringsKeep
<1>3. MemoryInv /\ [StringsNext]_strings_vars => [Intact]_strings_vars
  BY StringsKeep
<1>4. StringsSpec => [][Intact]_strings_vars
  BY <1>1, <1>2, <1>3, PTL DEF StringsSpec
<1> QED BY <1>4 DEF MovedIntact, Intact
-----------------------------------------------------------------------------
(* The screen: its cells in reading order.                                 *)

\* What a cell can show.
Glyphs == STRING \cup {Blank, "+", "-", "|", "#", "?", "!"}
Screens ==
  [cells : [Rows -> [Columns -> Glyphs]], row : Rows, column : Columns, buffer : BOOLEAN]

LastPlace == VGA_WIDTH * VGA_HEIGHT
\* The room in front of the last row: what a line may take.
LineRoom == (VGA_HEIGHT - 1) * VGA_WIDTH
\* The number of the cell under the cursor, and the character of a number.
Place(s) == s.row * VGA_WIDTH + s.column
At(s, q) == s.cells[q \div VGA_WIDTH][q % VGA_WIDTH]

LEMMA Sizes1 ==
  /\ VGA_WIDTH \in Nat /\ VGA_WIDTH > 0 /\ VGA_HEIGHT \in Nat /\ VGA_HEIGHT > 0
  /\ VGA_TAB_WIDTH \in Nat /\ VGA_TAB_WIDTH > 0
  /\ LastPlace \in Nat /\ 0 \in Rows /\ 0 \in Columns
BY VgaAssumption DEF VgaAssumption, Rows, Columns, LastPlace

\* A number between two multiples of the width.
LEMMA RowOfNumber ==
  ASSUME NEW w \in Nat, w > 0, NEW r \in Nat, NEW k \in 0 .. w - 1
  PROVE  (r * w + k) \div w = r /\ (r * w + k) % w = k
<1> DEFINE q == r * w + k
           d == q \div w
<1>1. r * w \in Nat /\ k \in Nat /\ k < w /\ q \in Nat
  OBVIOUS
<1>2. d \in Nat /\ q % w = q - d * w /\ d * w \in Nat /\ d * w <= q /\ q < d * w + w
  <2> HIDE DEF q
  <2> QED BY <1>1
<1> HIDE DEF d
<1>3. ~(d < r)
  BY <1>1, <1>2, MultiplesApart
<1>4. ~(r < d)
  BY <1>1, <1>2, MultiplesApart
<1>5. d = r
  BY <1>2, <1>3, <1>4
<1>6. q - d * w = k
  BY <1>1, <1>5
<1> QED BY <1>2, <1>5, <1>6 DEF d

\* Cells and their numbers.
LEMMA NumberOf ==
  ASSUME NEW r \in Rows, NEW k \in Columns
  PROVE  /\ r * VGA_WIDTH + k \in 0 .. LastPlace - 1
         /\ (r * VGA_WIDTH + k) \div VGA_WIDTH = r /\ (r * VGA_WIDTH + k) % VGA_WIDTH = k
<1>1. r \in Nat /\ r < VGA_HEIGHT /\ k \in 0 .. VGA_WIDTH - 1 /\ k \in Nat /\ k < VGA_WIDTH
  BY Sizes1 DEF Rows, Columns
<1>2. (r * VGA_WIDTH + k) \div VGA_WIDTH = r /\ (r * VGA_WIDTH + k) % VGA_WIDTH = k
  BY <1>1, Sizes1, RowOfNumber
<1>3. r * VGA_WIDTH + VGA_WIDTH <= VGA_HEIGHT * VGA_WIDTH
  BY <1>1, Sizes1, MultiplesApart
<1>4. r * VGA_WIDTH \in Nat /\ VGA_HEIGHT * VGA_WIDTH = LastPlace
  BY <1>1, Sizes1 DEF LastPlace
<1> QED BY <1>1, <1>2, <1>3, <1>4, Sizes1

LEMMA CellOf ==
  ASSUME NEW q \in 0 .. LastPlace - 1
  PROVE  /\ q \div VGA_WIDTH \in Rows /\ q % VGA_WIDTH \in Columns
         /\ q = (q \div VGA_WIDTH) * VGA_WIDTH + (q % VGA_WIDTH)
<1> DEFINE d == q \div VGA_WIDTH
<1>1. q \in Nat /\ q < LastPlace
  BY Sizes1
<1>2. /\ d \in Nat /\ q % VGA_WIDTH = q - d * VGA_WIDTH /\ q % VGA_WIDTH \in 0 .. VGA_WIDTH - 1
      /\ d * VGA_WIDTH \in Nat /\ d * VGA_WIDTH <= q
  BY <1>1, Sizes1
<1> HIDE DEF d
<1>3. ~(d >= VGA_HEIGHT)
  <2> SUFFICES ASSUME d >= VGA_HEIGHT PROVE FALSE
    OBVIOUS
  <2>1. CASE d = VGA_HEIGHT
    BY <1>1, <1>2, <2>1, Sizes1 DEF LastPlace
  <2>2. CASE d > VGA_HEIGHT
    <3>1. VGA_HEIGHT * VGA_WIDTH + VGA_WIDTH <= d * VGA_WIDTH
      BY <1>2, <2>2, Sizes1, MultiplesApart
    <3>2. VGA_HEIGHT * VGA_WIDTH = LastPlace
      BY Sizes1 DEF LastPlace
    <3> QED BY <1>1, <1>2, <3>1, <3>2, Sizes1
  <2> QED BY <1>2, <2>1, <2>2, Sizes1
<1>4. d \in Rows /\ q % VGA_WIDTH \in Columns
  BY <1>2, <1>3, Sizes1 DEF Rows, Columns
<1>5. q = d * VGA_WIDTH + (q % VGA_WIDTH)
  BY <1>1, <1>2, Sizes1
<1> QED BY <1>4, <1>5 DEF d

\* One row further.
LEMMA RowBelow ==
  ASSUME NEW q \in Nat
  PROVE  (q + VGA_WIDTH) \div VGA_WIDTH = q \div VGA_WIDTH + 1
         /\ (q + VGA_WIDTH) % VGA_WIDTH = q % VGA_WIDTH
<1> DEFINE d == q \div VGA_WIDTH
           k == q % VGA_WIDTH
<1>1. /\ d \in Nat /\ k \in 0 .. VGA_WIDTH - 1 /\ d * VGA_WIDTH \in Nat
      /\ q = d * VGA_WIDTH + k
  BY Sizes1
<1> HIDE DEF d, k
<1>2. q + VGA_WIDTH = (d + 1) * VGA_WIDTH + k
  BY <1>1, Sizes1
<1>3. d + 1 \in Nat
  BY <1>1
<1>4. ((d + 1) * VGA_WIDTH + k) \div VGA_WIDTH = d + 1
      /\ ((d + 1) * VGA_WIDTH + k) % VGA_WIDTH = k
  BY <1>1, <1>3, Sizes1, RowOfNumber
<1> QED BY <1>2, <1>4 DEF d, k

\* The cursor's place.
LEMMA PlaceIs ==
  ASSUME NEW s \in Screens
  PROVE  /\ s.row \in Rows /\ s.column \in Columns /\ s.cells \in [Rows -> [Columns -> Glyphs]]
         /\ s.buffer \in BOOLEAN
         /\ Place(s) \in 0 .. LastPlace - 1
         /\ Place(s) \div VGA_WIDTH = s.row /\ Place(s) % VGA_WIDTH = s.column
<1>1. s.row \in Rows /\ s.column \in Columns
  BY DEF Screens
<1> QED BY <1>1, NumberOf DEF Screens, Place

-----------------------------------------------------------------------------
(* Characters on the screen.                                               *)

LEMMA BlankRowIs == BlankRow \in [Columns -> Glyphs] /\ Blank \in Glyphs
<1>1. Blank \in Glyphs
  BY DEF Glyphs
<1> QED BY <1>1 DEF BlankRow

\* A screen whose cursor may stand below the last row, and what is made of it.
Wide ==
  [cells : [Rows -> [Columns -> Glyphs]], row : 0 .. VGA_HEIGHT, column : Columns,
   buffer : BOOLEAN]

Changed(s, cells, row, column) ==
  [s EXCEPT !.cells = cells, !.row = row, !.column = column]
CellsChanged(s, cells) == [s EXCEPT !.cells = cells]
CursorMoved(s, row, column) == [s EXCEPT !.column = column, !.row = row]

LEMMA ChangedIs ==
  ASSUME NEW s \in Screens \cup Wide, NEW cells \in [Rows -> [Columns -> Glyphs]],
         NEW row \in 0 .. VGA_HEIGHT, NEW column \in Columns
  PROVE  /\ Changed(s, cells, row, column) \in Wide
         /\ Changed(s, cells, row, column).cells = cells
         /\ Changed(s, cells, row, column).row = row
         /\ Changed(s, cells, row, column).column = column
         /\ Changed(s, cells, row, column).buffer = s.buffer
         /\ row \in Rows => Changed(s, cells, row, column) \in Screens
BY DEF Screens, Wide, Changed

LEMMA CellsChangedIs ==
  ASSUME NEW s \in Screens, NEW cells \in [Rows -> [Columns -> Glyphs]]
  PROVE  /\ CellsChanged(s, cells) \in Screens /\ CellsChanged(s, cells).cells = cells
         /\ CellsChanged(s, cells).row = s.row /\ CellsChanged(s, cells).column = s.column
         /\ CellsChanged(s, cells).buffer = s.buffer
BY DEF Screens, CellsChanged

LEMMA CursorMovedIs ==
  ASSUME NEW s \in Screens, NEW row \in 0 .. VGA_HEIGHT, NEW column \in Columns
  PROVE  /\ CursorMoved(s, row, column) \in Wide /\ CursorMoved(s, row, column).cells = s.cells
         /\ CursorMoved(s, row, column).row = row
         /\ CursorMoved(s, row, column).column = column
         /\ CursorMoved(s, row, column).buffer = s.buffer
         /\ row \in Rows => CursorMoved(s, row, column) \in Screens
BY DEF Screens, Wide, CursorMoved

\* The character under the cursor is shown.
LEMMA ShowIs ==
  ASSUME NEW s \in Screens, NEW c \in Glyphs
  PROVE  /\ Show(s, c) \in Screens /\ Place(Show(s, c)) = Place(s)
         /\ Show(s, c).row = s.row /\ Show(s, c).column = s.column
         /\ Show(s, c).buffer = s.buffer
         /\ \A q \in 0 .. LastPlace - 1 :
              At(Show(s, c), q) = IF q = Place(s) THEN c ELSE At(s, q)
<1> DEFINE t == Show(s, c)
<1>1. /\ s.row \in Rows /\ s.column \in Columns /\ s.cells \in [Rows -> [Columns -> Glyphs]]
  BY PlaceIs
<1>2. /\ t.row = s.row /\ t.column = s.column /\ t.buffer = s.buffer
      /\ t.cells = [s.cells EXCEPT ![s.row] = [s.cells[s.row] EXCEPT ![s.column] = c]]
      /\ t \in Screens
  <2> DEFINE cells == [s.cells EXCEPT ![s.row] = [s.cells[s.row] EXCEPT ![s.column] = c]]
  <2>1. cells \in [Rows -> [Columns -> Glyphs]]
    BY <1>1
  <2>2. t = CellsChanged(s, cells)
    BY DEF Show, CellsChanged
  <2> HIDE DEF cells, t
  <2>3. t \in Screens /\ t.cells = cells /\ t.row = s.row /\ t.column = s.column
        /\ t.buffer = s.buffer
    BY <2>1, <2>2, CellsChangedIs
  <2> QED BY <2>3 DEF cells
<1> HIDE DEF t
<1>4. t \in Screens
  BY <1>2
<1>5. Place(t) = Place(s)
  BY <1>2 DEF Place
<1>6. ASSUME NEW q \in 0 .. LastPlace - 1
      PROVE  At(t, q) = IF q = Place(s) THEN c ELSE At(s, q)
  <2> DEFINE y == q \div VGA_WIDTH
             x == q % VGA_WIDTH
  <2>1. y \in Rows /\ x \in Columns /\ q = y * VGA_WIDTH + x
    BY CellOf
  <2>2. Place(s) \div VGA_WIDTH = s.row /\ Place(s) % VGA_WIDTH = s.column
    BY PlaceIs
  <2>3. q = Place(s) <=> y = s.row /\ x = s.column
    <3>1. q = Place(s) => y = s.row /\ x = s.column
      BY <2>2
    <3> HIDE DEF y, x
    <3> QED BY <2>1, <3>1 DEF Place
  <2>4. At(t, q) = t.cells[y][x] /\ At(s, q) = s.cells[y][x]
    BY DEF At
  <2> HIDE DEF y, x
  <2>5. t.cells[y][x] = IF y = s.row /\ x = s.column THEN c ELSE s.cells[y][x]
    BY <1>1, <1>2, <2>1
  <2> QED BY <2>3, <2>4, <2>5
<1> QED BY <1>2, <1>4, <1>5, <1>6 DEF t

\* A screen that is cleared.
LEMMA ClearIs ==
  ASSUME NEW s \in Screens
  PROVE  /\ vga_clear(s) \in Screens /\ vga_clear(s).buffer = s.buffer
         /\ s.buffer => vga_clear(s).row = 0 /\ vga_clear(s).column = 0
<1> DEFINE cells == [y \in Rows |-> BlankRow]
<1>1. cells \in [Rows -> [Columns -> Glyphs]]
  BY BlankRowIs
<1>2. CASE s.buffer
  <2>1. vga_clear(s) = Changed(s, cells, 0, 0)
    BY <1>2 DEF vga_clear, Changed
  <2> HIDE DEF cells
  <2>2. 0 \in 0 .. VGA_HEIGHT
    BY Sizes1
  <2> QED BY <1>1, <2>1, <2>2, Sizes1, ChangedIs
<1>3. CASE ~s.buffer
  BY <1>3 DEF vga_clear
<1> QED BY <1>2, <1>3

\* Rows that are moved stay rows.
LEMMA ShiftedRows ==
  ASSUME NEW cells \in [Rows -> [Columns -> Glyphs]], NEW by
  PROVE  ShiftRows(cells, by) \in [Rows -> [Columns -> Glyphs]]
BY BlankRowIs DEF ShiftRows

\* The cursor goes to a new row; d is the width if the screen moves up and 0 if not.
LEMMA NewRowIs ==
  ASSUME NEW s \in Screens, s.buffer
  PROVE  /\ NewRow(s) \in Screens /\ NewRow(s).buffer /\ NewRow(s).column = 0
         /\ \E d \in {0, VGA_WIDTH} :
              /\ Place(NewRow(s)) = (s.row + 1) * VGA_WIDTH - d
              /\ d # 0 => Place(NewRow(s)) = LineRoom
              /\ \A q \in 0 .. Place(NewRow(s)) - 1 :
                   q + d \in 0 .. LastPlace - 1 /\ At(NewRow(s), q) = At(s, q + d)
<1> DEFINE t == [s EXCEPT !.column = 0, !.row = s.row + 1]
<1>1. /\ s.row \in Nat /\ s.row < VGA_HEIGHT /\ s.row \in Rows
      /\ s.cells \in [Rows -> [Columns -> Glyphs]]
  BY PlaceIs, Sizes1 DEF Rows
<1>2. /\ t.row = s.row + 1 /\ t.column = 0 /\ t.buffer = TRUE /\ t.cells = s.cells
      /\ t \in Wide
      /\ s.row + 1 \in Rows => t \in Screens
  <2>1. s.buffer = TRUE
    BY PlaceIs
  <2>2. PICK row : row = s.row + 1
    OBVIOUS
  <2>3. row \in 0 .. VGA_HEIGHT
    BY <1>1, <2>2, Sizes1
  <2>4. t = CursorMoved(s, row, 0)
    BY <2>2 DEF CursorMoved
  <2> HIDE DEF t
  <2>5. /\ t \in Wide /\ t.cells = s.cells /\ t.row = row /\ t.column = 0
        /\ t.buffer = s.buffer
        /\ row \in Rows => t \in Screens
    BY <2>3, <2>4, Sizes1, CursorMovedIs
  <2> QED BY <2>1, <2>2, <2>5
<1>3. NewRow(s) = IF t.row >= VGA_HEIGHT THEN vga_scroll_internal(t, 1) ELSE t
  BY DEF NewRow
<1> HIDE DEF t
<1>4. CASE s.row + 1 < VGA_HEIGHT
  <2>1. NewRow(s) = t
    BY <1>1, <1>2, <1>3, <1>4, Sizes1
  <2>2. t \in Screens
    BY <1>1, <1>2, <1>4, Sizes1 DEF Rows
  <2>3. Place(t) = (s.row + 1) * VGA_WIDTH - 0
    BY <1>1, <1>2, Sizes1 DEF Place
  <2>4. ASSUME NEW q \in 0 .. Place(t) - 1
        PROVE  q + 0 \in 0 .. LastPlace - 1 /\ At(t, q) = At(s, q + 0)
    <3>1. Place(t) \in 0 .. LastPlace - 1
      BY <2>2, PlaceIs
    <3>2. q + 0 = q /\ q \in 0 .. LastPlace - 1
      BY <3>1, Sizes1
    <3> QED BY <1>2, <3>2 DEF At
  <2> QED BY <1>2, <2>1, <2>2, <2>3, <2>4
<1>5. CASE s.row + 1 = VGA_HEIGHT /\ VGA_HEIGHT > 1
  <2> DEFINE u == [t EXCEPT !.cells = ShiftRows(s.cells, 1), !.row = s.row, !.column = 0]
  <2>1. NewRow(s) = u
    <3>1. vga_scroll_internal(t, 1) =
            [t EXCEPT !.cells = ShiftRows(t.cells, 1),
                      !.row = IF t.row >= 1 THEN t.row - 1 ELSE 0,
                      !.column = IF t.row >= 1 THEN t.column ELSE 0]
      <4>1. ~(~t.buffer \/ 1 <= 0) /\ ~(1 >= VGA_HEIGHT)
        BY <1>2, <1>5, Sizes1
      <4> QED BY <4>1 DEF vga_scroll_internal
    <3>2. t.row >= 1 /\ t.row - 1 = s.row
      <4>1. t.row = s.row + 1 /\ s.row \in Nat
        BY <1>1, <1>2
      <4> QED BY <4>1
    <3>3. NewRow(s) = vga_scroll_internal(t, 1)
      BY <1>2, <1>3, <1>5, Sizes1
    <3> QED BY <1>2, <3>1, <3>2, <3>3
  <2>2. /\ u.cells = ShiftRows(s.cells, 1) /\ u.row = s.row /\ u.column = 0 /\ u.buffer = TRUE
        /\ u \in Screens
    <3>1. ShiftRows(s.cells, 1) \in [Rows -> [Columns -> Glyphs]] /\ s.row \in 0 .. VGA_HEIGHT
      BY <1>1, ShiftedRows, Sizes1
    <3>2. PICK cells : cells = ShiftRows(s.cells, 1)
      OBVIOUS
    <3>3. u = Changed(t, cells, s.row, 0)
      BY <3>2 DEF Changed
    <3> HIDE DEF u
    <3>4. /\ u \in Wide /\ u.cells = cells /\ u.row = s.row /\ u.column = 0
          /\ u.buffer = t.buffer
          /\ s.row \in Rows => u \in Screens
      BY <1>2, <3>1, <3>2, <3>3, Sizes1, ChangedIs
    <3> QED BY <1>1, <1>2, <3>2, <3>4
  <2> HIDE DEF u
  <2>3. u \in Screens
    BY <2>2
  <2>4. Place(u) = (s.row + 1) * VGA_WIDTH - VGA_WIDTH /\ Place(u) = s.row * VGA_WIDTH
    BY <1>1, <2>2, Sizes1 DEF Place
  <2>7. Place(u) = LineRoom
    BY <1>1, <1>5, <2>4, Sizes1 DEF LineRoom
  <2>5. ASSUME NEW q \in 0 .. Place(u) - 1
        PROVE  q + VGA_WIDTH \in 0 .. LastPlace - 1 /\ At(u, q) = At(s, q + VGA_WIDTH)
    <3>1. s.row * VGA_WIDTH + VGA_WIDTH = LastPlace /\ s.row * VGA_WIDTH \in Nat
      BY <1>1, <1>5, Sizes1 DEF LastPlace
    <3>2. q \in Nat /\ q + VGA_WIDTH \in 0 .. LastPlace - 1 /\ q \in 0 .. LastPlace - 1
      BY <2>4, <3>1, Sizes1
    <3> DEFINE y == q \div VGA_WIDTH
               x == q % VGA_WIDTH
    <3>3. (q + VGA_WIDTH) \div VGA_WIDTH = y + 1 /\ (q + VGA_WIDTH) % VGA_WIDTH = x
      BY <3>2, RowBelow
    <3>4. y + 1 \in Rows /\ y \in Rows
      BY <3>2, <3>3, CellOf
    <3>5. At(u, q) = ShiftRows(s.cells, 1)[y][x] /\ At(s, q + VGA_WIDTH) = s.cells[y + 1][x]
      BY <2>2, <3>3 DEF At
    <3> HIDE DEF y, x
    <3>6. ShiftRows(s.cells, 1)[y] = s.cells[y + 1]
      BY <3>4 DEF ShiftRows
    <3> QED BY <3>2, <3>5, <3>6
  <2>6. u.buffer /\ u.column = 0
    BY <2>2
  <2> QED BY <2>1, <2>3, <2>4, <2>5, <2>6, <2>7
<1>6. CASE s.row + 1 = VGA_HEIGHT /\ VGA_HEIGHT = 1
  <2>1. NewRow(s) = vga_clear(t)
    BY <1>2, <1>3, <1>6, Sizes1 DEF vga_scroll_internal
  <2>2. /\ vga_clear(t).row = 0 /\ vga_clear(t).column = 0 /\ vga_clear(t).buffer = TRUE
        /\ vga_clear(t) \in Screens
    <3> DEFINE cells == [y \in Rows |-> BlankRow]
    <3>1. cells \in [Rows -> [Columns -> Glyphs]] /\ 0 \in 0 .. VGA_HEIGHT
      BY BlankRowIs, Sizes1
    <3>2. vga_clear(t) = Changed(t, cells, 0, 0)
      BY <1>2 DEF vga_clear, Changed
    <3> HIDE DEF cells
    <3>3. PICK u : u = vga_clear(t)
      OBVIOUS
    <3>4. u \in Screens /\ u.row = 0 /\ u.column = 0 /\ u.buffer = t.buffer
      BY <1>2, <3>1, <3>2, <3>3, Sizes1, ChangedIs
    <3> QED BY <1>2, <3>3, <3>4
  <2>3. vga_clear(t) \in Screens
    BY <2>2
  <2>4. Place(vga_clear(t)) = 0 /\ (s.row + 1) * VGA_WIDTH - VGA_WIDTH = 0
    BY <1>6, <2>2, Sizes1 DEF Place
  <2>5. 0 .. Place(vga_clear(t)) - 1 = {}
    BY <2>4
  <2>7. Place(vga_clear(t)) = LineRoom
    BY <1>6, <2>4, Sizes1 DEF LineRoom
  <2>6. vga_clear(t).buffer /\ vga_clear(t).column = 0
    BY <2>2
  <2> QED BY <2>1, <2>3, <2>4, <2>5, <2>6, <2>7
<1> QED BY <1>1, <1>4, <1>5, <1>6, Sizes1
-----------------------------------------------------------------------------
(* What vga_putchar does with a character, by the place of the cursor.     *)

Plain(c) == c \in Glyphs /\ c \notin {NEWLINE, CARRIAGE_RETURN, BACKSPACE, TAB}

LEMMA PlaceNumbers ==
  ASSUME NEW s \in Screens
  PROVE  /\ s.row \in Nat /\ s.row < VGA_HEIGHT /\ s.row \in Rows
         /\ s.column \in Nat /\ s.column < VGA_WIDTH /\ s.column \in Columns
         /\ s.row * VGA_WIDTH \in Nat /\ Place(s) = s.row * VGA_WIDTH + s.column
         /\ Place(s) \in 0 .. LastPlace - 1 /\ Place(s) \in Nat
<1>1. s.row \in Rows /\ s.column \in Columns /\ Place(s) \in 0 .. LastPlace - 1
  BY PlaceIs
<1>2. s.row \in Nat /\ s.row < VGA_HEIGHT /\ s.column \in Nat /\ s.column < VGA_WIDTH
  BY <1>1, Sizes1 DEF Rows, Columns
<1>3. s.row * VGA_WIDTH \in Nat
  BY <1>2, Sizes1
<1>4. Place(s) \in Nat
  BY <1>1, Sizes1
<1> QED BY <1>1, <1>2, <1>3, <1>4 DEF Place

LEMMA ControlsDiffer ==
  /\ NEWLINE # CARRIAGE_RETURN /\ NEWLINE # BACKSPACE /\ NEWLINE # TAB
  /\ CARRIAGE_RETURN # BACKSPACE /\ CARRIAGE_RETURN # TAB /\ BACKSPACE # TAB
BY DEF NEWLINE, CARRIAGE_RETURN, BACKSPACE, TAB

\* A character that is shown: it stands in front of the cursor, behind what stood there; d is
\* the width if the screen has moved up and 0 if not.
LEMMA PutPlain ==
  ASSUME NEW s \in Screens, s.buffer, NEW c, Plain(c)
  PROVE  /\ vga_putchar(s, c) \in Screens /\ vga_putchar(s, c).buffer
         /\ \E d \in {0, VGA_WIDTH} :
              /\ Place(vga_putchar(s, c)) = Place(s) + 1 - d
              /\ d # 0 => Place(vga_putchar(s, c)) = LineRoom
              /\ \A q \in 0 .. Place(vga_putchar(s, c)) - 1 :
                   /\ q + d \in 0 .. LastPlace - 1
                   /\ At(vga_putchar(s, c), q) = IF q + d = Place(s) THEN c ELSE At(s, q + d)
<1> DEFINE t == vga_putchar(s, c)
<1>1. PICK u : u = Show(s, c)
  OBVIOUS
<1>2. /\ u \in Screens /\ u.buffer /\ Place(u) = Place(s) /\ u.row = s.row /\ u.column = s.column
      /\ \A q \in 0 .. LastPlace - 1 : At(u, q) = IF q = Place(s) THEN c ELSE At(s, q)
  BY <1>1, ShowIs DEF Plain
<1>3. t = IF s.column + 1 >= VGA_WIDTH THEN NewRow(u) ELSE [u EXCEPT !.column = s.column + 1]
  BY <1>1, <1>2 DEF vga_putchar, Plain, Advance
<1>4. /\ s.row \in Nat /\ s.column \in Nat /\ s.column < VGA_WIDTH /\ s.row \in Rows
      /\ s.row * VGA_WIDTH \in Nat /\ Place(s) = s.row * VGA_WIDTH + s.column
  BY PlaceNumbers
<1> HIDE DEF t
<1>5. CASE s.column + 1 >= VGA_WIDTH
  <2>1. t = NewRow(u) /\ s.column + 1 = VGA_WIDTH
    BY <1>3, <1>4, <1>5, Sizes1
  <2>2. t \in Screens /\ t.buffer
    BY <1>2, <2>1, NewRowIs
  <2>3. PICK next : next = (u.row + 1) * VGA_WIDTH
    OBVIOUS
  <2>4. PICK d \in {0, VGA_WIDTH} :
          /\ Place(t) = next - d
          /\ d # 0 => Place(t) = LineRoom
          /\ \A q \in 0 .. Place(t) - 1 : q + d \in 0 .. LastPlace - 1 /\ At(t, q) = At(u, q + d)
    BY <1>2, <2>1, <2>3, NewRowIs
  <2>5. Place(t) = Place(s) + 1 - d
    <3>1. next = Place(s) + 1
      BY <1>2, <1>4, <2>1, <2>3, Sizes1
    <3>2. Place(s) \in Nat
      BY PlaceNumbers
    <3>3. Place(t) = next - d
      BY <2>4
    <3> QED BY <3>1, <3>2, <3>3
  <2>6. \A q \in 0 .. Place(t) - 1 :
          /\ q + d \in 0 .. LastPlace - 1
          /\ At(t, q) = IF q + d = Place(s) THEN c ELSE At(s, q + d)
    BY <1>2, <2>4
  <2>7. d # 0 => Place(t) = LineRoom
    BY <2>4
  <2> QED BY <2>2, <2>5, <2>6, <2>7 DEF t
<1>6. CASE s.column + 1 < VGA_WIDTH
  <2>1. PICK column : column = s.column + 1
    OBVIOUS
  <2>2. t = [u EXCEPT !.column = column] /\ column \in Columns
    BY <1>3, <1>4, <1>6, <2>1, Sizes1 DEF Columns
  <2>3. t \in Screens /\ t.buffer = u.buffer /\ t.row = s.row /\ t.column = column /\ t.cells = u.cells
    BY <1>2, <2>2 DEF Screens
  <2>4. Place(t) = Place(s) + 1 - 0
    BY <1>4, <2>1, <2>3, Sizes1 DEF Place
  <2>5. Place(t) \in 0 .. LastPlace - 1
    BY <2>3, PlaceIs
  <2>6. ASSUME NEW q \in 0 .. Place(t) - 1
        PROVE  /\ q + 0 \in 0 .. LastPlace - 1
               /\ At(t, q) = IF q + 0 = Place(s) THEN c ELSE At(s, q + 0)
    <3>1. q + 0 = q /\ q \in 0 .. LastPlace - 1
      BY <2>5, Sizes1
    <3>2. At(t, q) = At(u, q)
      BY <2>3 DEF At
    <3> QED BY <1>2, <3>1, <3>2
  <2> QED BY <1>2, <2>3, <2>4, <2>6 DEF t
<1> QED BY <1>4, <1>5, <1>6, Sizes1

\* A backspace: the cursor goes back by one and blanks what it finds.
LEMMA BackIs ==
  ASSUME NEW s \in Screens, s.buffer
  PROVE  /\ vga_putchar(s, BACKSPACE) \in Screens /\ vga_putchar(s, BACKSPACE).buffer
         /\ Place(s) > 0 =>
              /\ Place(vga_putchar(s, BACKSPACE)) = Place(s) - 1
              /\ \A q \in 0 .. Place(s) - 2 : At(vga_putchar(s, BACKSPACE), q) = At(s, q)
<1> DEFINE u == IF s.column > 0 THEN [s EXCEPT !.column = s.column - 1]
                ELSE IF s.row > 0 THEN [s EXCEPT !.row = s.row - 1, !.column = VGA_WIDTH - 1]
                ELSE s
<1>1. vga_putchar(s, BACKSPACE) = Show(u, Blank)
  <2>1. s.buffer = TRUE
    BY PlaceIs
  <2>2. vga_putchar(s, BACKSPACE) = Back(s)
    BY <2>1, ControlsDiffer DEF vga_putchar
  <2> QED BY <2>2 DEF Back
<1>2. /\ s.row \in Nat /\ s.column \in Nat /\ s.column < VGA_WIDTH /\ s.row < VGA_HEIGHT
      /\ s.row * VGA_WIDTH \in Nat /\ Place(s) = s.row * VGA_WIDTH + s.column
      /\ Place(s) \in 0 .. LastPlace - 1 /\ s.row \in Rows /\ s.column \in Columns
  BY PlaceNumbers
<1>3. /\ u \in Screens /\ u.buffer = s.buffer /\ u.cells = s.cells
      /\ Place(s) > 0 => Place(u) = Place(s) - 1
  <2>1. CASE s.column > 0
    <3>1. PICK column : column = s.column - 1
      OBVIOUS
    <3>2. u = [s EXCEPT !.column = column]
      BY <2>1, <3>1
    <3> HIDE DEF u
    <3>3. column \in Columns
      BY <1>2, <2>1, <3>1, Sizes1 DEF Columns
    <3>4. u \in Screens /\ u.buffer = s.buffer /\ u.cells = s.cells /\ u.row = s.row /\ u.column = column
      BY <3>2, <3>3 DEF Screens
    <3> QED BY <1>2, <3>1, <3>4, Sizes1 DEF Place
  <2>2. CASE ~(s.column > 0) /\ s.row > 0
    <3>1. PICK row, column : row = s.row - 1 /\ column = VGA_WIDTH - 1
      OBVIOUS
    <3>2. u = [s EXCEPT !.row = row, !.column = column]
      BY <2>2, <3>1
    <3> HIDE DEF u
    <3>3. column \in Columns /\ row \in Rows
      BY <1>2, <2>2, <3>1, Sizes1 DEF Columns, Rows
    <3>4. u \in Screens /\ u.buffer = s.buffer /\ u.cells = s.cells /\ u.row = row /\ u.column = column
      BY <3>2, <3>3 DEF Screens
    <3>5. Place(u) = (s.row - 1) * VGA_WIDTH + (VGA_WIDTH - 1)
      BY <3>1, <3>4 DEF Place
    <3>6. (s.row - 1) * VGA_WIDTH + (VGA_WIDTH - 1) = s.row * VGA_WIDTH - 1
      BY <1>2, Sizes1
    <3>7. Place(s) = s.row * VGA_WIDTH
      BY <1>2, <2>2
    <3> QED BY <3>4, <3>5, <3>6, <3>7
  <2>3. CASE ~(s.column > 0) /\ ~(s.row > 0)
    <3>1. u = s
      BY <2>3
    <3>2. Place(s) = 0
      BY <1>2, <2>3, Sizes1
    <3> HIDE DEF u
    <3>3. ~(Place(s) > 0)
      BY <3>2
    <3> QED BY <3>1, <3>3
  <2> HIDE DEF u
  <2> QED BY <2>1, <2>2, <2>3
<1> HIDE DEF u
<1>4. PICK t : t = Show(u, Blank)
  OBVIOUS
<1>5. /\ t \in Screens /\ Place(t) = Place(u) /\ t.buffer = u.buffer
      /\ \A q \in 0 .. LastPlace - 1 : At(t, q) = IF q = Place(u) THEN Blank ELSE At(u, q)
  BY <1>3, <1>4, BlankRowIs, ShowIs
<1>6. ASSUME Place(s) > 0, NEW q \in 0 .. Place(s) - 2
      PROVE  At(t, q) = At(s, q)
  <2>1. q \in 0 .. LastPlace - 1 /\ q # Place(u)
    BY <1>2, <1>3, <1>6, Sizes1
  <2> QED BY <1>3, <1>5, <2>1 DEF At
<1> QED BY <1>1, <1>3, <1>4, <1>5, <1>6

\* A line end, a carriage return and a tab leave a screen.
LEMMA ControlsAre ==
  ASSUME NEW s \in Screens, s.buffer
  PROVE  \A c \in {NEWLINE, CARRIAGE_RETURN, TAB} :
           vga_putchar(s, c) \in Screens /\ vga_putchar(s, c).buffer
<1>0. s.buffer = TRUE
  BY PlaceIs
<1>1. vga_putchar(s, NEWLINE) = NewRow(s)
  BY <1>0, ControlsDiffer DEF vga_putchar
<1>2. vga_putchar(s, CARRIAGE_RETURN) = [s EXCEPT !.column = 0]
  BY <1>0, ControlsDiffer DEF vga_putchar
<1>3. vga_putchar(s, TAB) = ToNextTab(s)
  BY <1>0, ControlsDiffer DEF vga_putchar
<1>4. [s EXCEPT !.column = 0] \in Screens /\ [s EXCEPT !.column = 0].buffer
  BY Sizes1 DEF Screens
<1>5. ToNextTab(s) \in Screens /\ ToNextTab(s).buffer
  <2> DEFINE line == [x \in Columns |-> IF x \in s.column .. NextTab(s.column) - 1
                                        THEN Blank ELSE s.cells[s.row][x]]
             cells == [s.cells EXCEPT ![s.row] = line]
             t == [s EXCEPT !.cells = cells]
             next == NextTab(s.column)
  <2>1. ToNextTab(s) = IF next = VGA_WIDTH THEN NewRow(t) ELSE [t EXCEPT !.column = next]
    BY DEF ToNextTab
  <2>2. s.row \in Rows /\ s.column \in Columns /\ s.cells \in [Rows -> [Columns -> Glyphs]]
    BY PlaceIs
  <2>3. line \in [Columns -> Glyphs]
    BY <2>2, BlankRowIs
  <2> HIDE DEF line
  <2>4. cells \in [Rows -> [Columns -> Glyphs]]
    BY <2>2, <2>3
  <2>5. t = CellsChanged(s, cells)
    BY DEF CellsChanged
  <2> HIDE DEF cells
  <2>6. t \in Screens /\ t.buffer
    BY <2>4, <2>5, CellsChangedIs
  <2> HIDE DEF t
  <2>7. next \in Nat /\ next <= VGA_WIDTH
    <3> DEFINE stop == s.column + VGA_TAB_WIDTH - (s.column % VGA_TAB_WIDTH)
    <3>1. s.column \in Nat
      BY <2>2, Sizes1 DEF Columns
    <3>2. stop \in Nat
      <4>1. s.column % VGA_TAB_WIDTH \in 0 .. VGA_TAB_WIDTH - 1
        BY <3>1, Sizes1
      <4>2. s.column % VGA_TAB_WIDTH <= VGA_TAB_WIDTH
        BY <4>1, Sizes1
      <4> QED BY <3>1, <4>1, <4>2, Sizes1
    <3>3. next = Min({VGA_WIDTH, stop})
      BY DEF NextTab
    <3> HIDE DEF stop, next
    <3>4. {VGA_WIDTH, stop} \in SUBSET Nat /\ {VGA_WIDTH, stop} # {}
      BY <3>2, Sizes1
    <3>5. next \in {VGA_WIDTH, stop} /\ \A y \in {VGA_WIDTH, stop} : next <= y
      BY <3>3, <3>4, MinIsLeast
    <3> QED BY <3>2, <3>5, Sizes1
  <2> HIDE DEF next
  <2>8. CASE next = VGA_WIDTH
    BY <2>1, <2>6, <2>8, NewRowIs
  <2>9. CASE next # VGA_WIDTH
    <3>1. next \in Columns
      BY <2>7, <2>9, Sizes1 DEF Columns
    <3>2. [t EXCEPT !.column = next] \in Screens /\ [t EXCEPT !.column = next].buffer
      BY <2>6, <3>1 DEF Screens
    <3> QED BY <2>1, <2>9, <3>2
  <2> QED BY <2>8, <2>9
<1> QED BY <1>1, <1>2, <1>3, <1>4, <1>5, NewRowIs

\* Every character leaves a screen.
LEMMA PutTyped ==
  ASSUME NEW s \in Screens, NEW c \in Glyphs \cup {NEWLINE, CARRIAGE_RETURN, BACKSPACE, TAB}
  PROVE  vga_putchar(s, c) \in Screens /\ vga_putchar(s, c).buffer = s.buffer
<1>1. CASE ~s.buffer
  BY <1>1 DEF vga_putchar
<1>2. CASE s.buffer
  <2>1. vga_putchar(s, c) \in Screens /\ vga_putchar(s, c).buffer
    BY <1>2, PutPlain, BackIs, ControlsAre DEF Plain
  <2>2. vga_putchar(s, c).buffer \in BOOLEAN /\ s.buffer \in BOOLEAN
    BY <2>1, PlaceIs
  <2> QED BY <1>2, <2>1, <2>2
<1> QED BY <1>1, <1>2
-----------------------------------------------------------------------------
(* The calls of the console.                                               *)

\* Counting up to n: what holds at 0 and from each number to the next holds everywhere.
LEMMA CountUp ==
  ASSUME NEW n \in Nat, NEW Good, 0 \in Good, \A k \in 1 .. n : k - 1 \in Good => k \in Good
  PROVE  \A k \in 0 .. n : k \in Good
<1> DEFINE Bad == {k \in 0 .. n : k \notin Good}
<1>1. SUFFICES ASSUME Bad # {} PROVE FALSE
  OBVIOUS
<1>2. Bad \in SUBSET Nat
  <2>1. \A k \in 0 .. n : k \in Nat
    OBVIOUS
  <2> QED BY <2>1
<1>3. PICK k \in Bad : \A j \in Bad : k <= j
  BY <1>1, <1>2, LeastNumber
<1>4. k \in 0 .. n /\ k \notin Good /\ k # 0
  BY <1>3
<1>5. k \in 1 .. n /\ k - 1 \in 0 .. n /\ ~(k <= k - 1)
  BY <1>4
<1>6. k - 1 \notin Bad
  <2> HIDE DEF Bad
  <2> QED BY <1>3, <1>5
<1>7. k - 1 \in Good
  BY <1>5, <1>6
<1> QED BY <1>4, <1>5, <1>7

LEMMA ScrollTyped ==
  ASSUME NEW s \in Screens, NEW lines \in Int
  PROVE  vga_scroll_up(s, lines) \in Screens /\ vga_scroll_down(s, lines) \in Screens
<1>1. /\ s.row \in Nat /\ s.row < VGA_HEIGHT /\ s.row \in Rows /\ s.column \in Columns
  BY PlaceNumbers
<1>2. s.cells \in [Rows -> [Columns -> Glyphs]]
  BY PlaceIs
<1>3. vga_scroll_internal(s, lines) \in Screens
  <2>1. CASE ~s.buffer \/ lines <= 0
    BY <2>1 DEF vga_scroll_internal
  <2>2. CASE ~(~s.buffer \/ lines <= 0) /\ lines >= VGA_HEIGHT
    BY <2>2, ClearIs DEF vga_scroll_internal
  <2>3. CASE ~(~s.buffer \/ lines <= 0) /\ ~(lines >= VGA_HEIGHT)
    <3> DEFINE row == IF s.row >= lines THEN s.row - lines ELSE 0
               column == IF s.row >= lines THEN s.column ELSE 0
               cells == ShiftRows(s.cells, lines)
    <3>1. vga_scroll_internal(s, lines) = Changed(s, cells, row, column)
      BY <2>3 DEF vga_scroll_internal, Changed
    <3>2. row \in Rows /\ row \in 0 .. VGA_HEIGHT /\ column \in Columns
      BY <1>1, <2>3, Sizes1 DEF Rows, Columns
    <3>3. cells \in [Rows -> [Columns -> Glyphs]]
      BY <1>2, ShiftedRows
    <3> HIDE DEF row, column, cells
    <3> QED BY <3>1, <3>2, <3>3, ChangedIs
  <2> QED BY <2>1, <2>2, <2>3
<1>4. vga_scroll_down(s, lines) \in Screens
  <2>1. CASE ~s.buffer \/ lines <= 0
    BY <2>1 DEF vga_scroll_down
  <2>2. CASE ~(~s.buffer \/ lines <= 0) /\ lines >= VGA_HEIGHT
    BY <2>2, ClearIs DEF vga_scroll_down
  <2>3. CASE ~(~s.buffer \/ lines <= 0) /\ ~(lines >= VGA_HEIGHT)
    <3> DEFINE row == Min({s.row + lines, VGA_HEIGHT - 1})
               cells == ShiftRows(s.cells, -lines)
    <3>1. vga_scroll_down(s, lines) = [s EXCEPT !.cells = cells, !.row = row]
      BY <2>3 DEF vga_scroll_down
    <3>2. row \in Rows
      <4> DEFINE both == {s.row + lines, VGA_HEIGHT - 1}
      <4>1. both \in SUBSET Nat /\ both # {}
        BY <1>1, <2>3, Sizes1
      <4>2. Min(both) \in both /\ \A y \in both : Min(both) <= y
        BY <4>1, MinIsLeast
      <4>3. Min(both) <= VGA_HEIGHT - 1 /\ Min(both) \in Nat
        BY <4>1, <4>2
      <4> HIDE DEF both
      <4>4. Min(both) \in Rows
        BY <4>3, Sizes1 DEF Rows
      <4> QED BY <4>4 DEF both
    <3>3. cells \in [Rows -> [Columns -> Glyphs]]
      BY <1>2, ShiftedRows
    <3> HIDE DEF row, cells
    <3> QED BY <3>1, <3>2, <3>3 DEF Screens
  <2> QED BY <2>1, <2>2, <2>3
<1> QED BY <1>3, <1>4 DEF vga_scroll_up

\* Areas, boxes and lines.
LEMMA FilledTyped ==
  ASSUME NEW s \in Screens, NEW c \in Glyphs, NEW x, NEW y, NEW width, NEW height
  PROVE  FilledArea(s, x, y, width, height, c) \in Screens
<1> DEFINE cells == [r \in Rows |-> [k \in Columns |->
                      IF r \in y .. y + height - 1 /\ k \in x .. x + width - 1 THEN c
                      ELSE s.cells[r][k]]]
<1>1. cells \in [Rows -> [Columns -> Glyphs]]
  BY PlaceIs
<1>2. FilledArea(s, x, y, width, height, c) = IF ~s.buffer THEN s ELSE CellsChanged(s, cells)
  BY DEF FilledArea, CellsChanged
<1> HIDE DEF cells
<1> QED BY <1>1, <1>2, CellsChangedIs

LEMMA BoxTyped ==
  ASSUME NEW s \in Screens, NEW x, NEW y, NEW width, NEW height
  PROVE  vga_draw_box(s, x, y, width, height) \in Screens
<1> DEFINE right == x + width - 1
           bottom == y + height - 1
           Edge(r, k) == CASE r \in {y, bottom} /\ k \in {x, right} -> "+"
                           [] r \in {y, bottom} /\ k \in x + 1 .. right - 1 -> "-"
                           [] r \in y + 1 .. bottom - 1 /\ k \in {x, right} -> "|"
                           [] OTHER -> s.cells[r][k]
           cells == [r \in Rows |-> [k \in Columns |-> Edge(r, k)]]
<1>1. "+" \in Glyphs /\ "-" \in Glyphs /\ "|" \in Glyphs
  BY DEF Glyphs
<1>2. ASSUME NEW r \in Rows, NEW k \in Columns
      PROVE  Edge(r, k) \in Glyphs
  <2> HIDE DEF right, bottom
  <2>1. s.cells[r][k] \in Glyphs
    BY PlaceIs
  <2>2. PICK corner, side, edge :
          /\ corner = (r \in {y, bottom} /\ k \in {x, right})
          /\ edge = (r \in {y, bottom} /\ k \in x + 1 .. right - 1)
          /\ side = (r \in y + 1 .. bottom - 1 /\ k \in {x, right})
    OBVIOUS
  <2> QED BY <1>1, <2>1
<1>3. cells \in [Rows -> [Columns -> Glyphs]]
  <2> HIDE DEF Edge
  <2> QED BY <1>2
<1>4. vga_draw_box(s, x, y, width, height) =
        IF ~s.buffer \/ width < 2 \/ height < 2 THEN s ELSE CellsChanged(s, cells)
  BY DEF vga_draw_box, CellsChanged
<1> HIDE DEF cells
<1> QED BY <1>3, <1>4, CellsChangedIs

LEMMA LinesTyped ==
  ASSUME NEW s \in Screens, NEW y \in Int
  PROVE  vga_delete_line(s, y) \in Screens /\ vga_insert_line(s, y) \in Screens
<1> DEFINE left == [r \in Rows |-> IF r < y THEN s.cells[r] ELSE ShiftRows(s.cells, 1)[r]]
           more == [r \in Rows |-> IF r < y THEN s.cells[r] ELSE IF r = y THEN BlankRow
                                   ELSE s.cells[r - 1]]
<1>1. s.cells \in [Rows -> [Columns -> Glyphs]]
  BY PlaceIs
<1>2. left \in [Rows -> [Columns -> Glyphs]]
  BY <1>1, ShiftedRows
<1>3. ASSUME y \in Rows
      PROVE  more \in [Rows -> [Columns -> Glyphs]]
  <2>1. \A r \in Rows : ~(r < y) /\ r # y => r - 1 \in Rows
    BY <1>3, Sizes1 DEF Rows
  <2> QED BY <1>1, <2>1, BlankRowIs
<1>4. /\ vga_delete_line(s, y) = IF ~s.buffer \/ y \notin Rows THEN s ELSE CellsChanged(s, left)
      /\ vga_insert_line(s, y) = IF ~s.buffer \/ y \notin Rows THEN s ELSE CellsChanged(s, more)
  BY DEF vga_delete_line, vga_insert_line, CellsChanged
<1> HIDE DEF left, more
<1> QED BY <1>2, <1>3, <1>4, CellsChangedIs

LEMMA CursorTyped ==
  ASSUME NEW s \in Screens, NEW x, NEW y
  PROVE  vga_move_cursor(s, x, y) \in Screens
BY DEF vga_move_cursor, vga_bounds_check, Screens

-----------------------------------------------------------------------------
(* vga_puts_at: text at a place, character by character.                   *)

\* The greatest of some of the indices.
LEMMA MaxOfIndices ==
  ASSUME NEW n \in Nat, NEW t \in SUBSET (1 .. n), t # {}
  PROVE  Max(t) \in 1 .. n /\ Max(t) \in t /\ t \ {Max(t)} \in SUBSET (1 .. n)
<1>1. PICK k \in 1 .. n : k \in t
  OBVIOUS
<1>2. n - 1 \in Nat /\ (n - 1) + 1 = n
  BY <1>1
<1>3. Max(t) \in t
  BY <1>2, SetsUpTo
<1> QED BY <1>3

Pens == [s : Screens, x : Int, y : Int]
IsPlaced(g, start, text, x, n) ==
  g = [t \in SUBSET (1 .. n) |->
        IF t = {} THEN start ELSE PutAt(g[t \ {Max(t)}], text[Max(t)], x)]

LEMMA PutAtTyped ==
  ASSUME NEW p \in Pens, NEW c \in Glyphs \cup {NEWLINE}, NEW x \in Int
  PROVE  PutAt(p, c, x) \in Pens
<1>1. p.s \in Screens /\ p.x \in Int /\ p.y \in Int
  BY DEF Pens
<1>2. CASE p.y >= VGA_HEIGHT
  BY <1>2 DEF PutAt
<1>3. CASE ~(p.y >= VGA_HEIGHT) /\ c = NEWLINE
  <2>1. PutAt(p, c, x) = [p EXCEPT !.x = x, !.y = p.y + 1]
    BY <1>3 DEF PutAt
  <2>2. p.y + 1 \in Int
    BY <1>1
  <2> QED BY <2>1, <2>2 DEF Pens
<1>4. CASE ~(p.y >= VGA_HEIGHT) /\ c # NEWLINE /\ vga_bounds_check(p.x, p.y)
  <2> DEFINE s == vga_putchar_at(p.s, c, p.x, p.y)
  <2>1. PutAt(p, c, x) = [p EXCEPT !.s = s, !.x = p.x + 1]
    BY <1>4 DEF PutAt
  <2>2. p.x + 1 \in Int
    BY <1>1
  <2>3. s \in Screens
    BY <1>1, <1>4, FilledTyped DEF vga_putchar_at
  <2> HIDE DEF s
  <2> QED BY <2>1, <2>2, <2>3 DEF Pens
<1>5. CASE ~(p.y >= VGA_HEIGHT) /\ c # NEWLINE /\ ~vga_bounds_check(p.x, p.y)
  BY <1>5 DEF PutAt
<1> QED BY <1>2, <1>3, <1>4, <1>5

LEMMA PlacedExists ==
  ASSUME NEW start \in Pens, NEW n \in Nat, NEW text \in [1 .. n -> Glyphs \cup {NEWLINE}],
         NEW x \in Int
  PROVE  \E g : IsPlaced(g, start, text, x, n)
<1> DEFINE step(i) == [p \in Pens |-> PutAt(p, text[i], x)]
           f == [i \in 1 .. n |-> step(i)]
<1>1. \A i \in 1 .. n : step(i) \in [Pens -> Pens]
  <2> TAKE i \in 1 .. n
  <2>1. \A p \in Pens : PutAt(p, text[i], x) \in Pens
    BY PutAtTyped
  <2> QED BY <2>1
<1>2. f \in [1 .. n -> [Pens -> Pens]]
  <2> HIDE DEF step
  <2> QED BY <1>1
<1>3. \A i \in 1 .. n, p \in Pens : f[i][p] = PutAt(p, text[i], x)
  OBVIOUS
<1> HIDE DEF f, step
<1>4. PICK g \in [SUBSET (1 .. n) -> Pens] : IsFold(g, start, f, n)
  BY <1>2, FoldsExist
<1>5. ASSUME NEW t \in SUBSET (1 .. n), t # {}
      PROVE  f[Max(t)][g[t \ {Max(t)}]] = PutAt(g[t \ {Max(t)}], text[Max(t)], x)
  <2>1. Max(t) \in 1 .. n /\ t \ {Max(t)} \in SUBSET (1 .. n)
    BY <1>5, MaxOfIndices
  <2> QED BY <1>3, <2>1
<1>6. g = [t \in SUBSET (1 .. n) |-> IF t = {} THEN start ELSE f[Max(t)][g[t \ {Max(t)}]]]
  BY <1>4 DEF IsFold
<1>7. g = [t \in SUBSET (1 .. n) |->
            IF t = {} THEN start ELSE PutAt(g[t \ {Max(t)}], text[Max(t)], x)]
  BY <1>5, <1>6
<1> QED BY <1>7 DEF IsPlaced

LEMMA PutsAtTyped ==
  ASSUME NEW s \in Screens, NEW n \in Nat, NEW text \in [1 .. n -> Glyphs \cup {NEWLINE}],
         NEW x \in Int, NEW y \in Int
  PROVE  vga_puts_at(s, text, x, y) \in Screens
<1> DEFINE start == [s |-> s, x |-> x, y |-> y]
<1>1. start \in Pens
  BY DEF Pens
<1>2. vga_puts_at(s, text, x, y) = (CHOOSE g : IsPlaced(g, start, text, x, n))[1 .. n].s
  <2>1. DOMAIN text = 1 .. n
    OBVIOUS
  <2> QED BY <2>1 DEF vga_puts_at, FoldLeft, MapThenFoldSet, IsPlaced
<1> HIDE DEF start
<1>3. PICK g : /\ IsPlaced(g, start, text, x, n)
               /\ vga_puts_at(s, text, x, y) = g[1 .. n].s
  BY <1>1, <1>2, PlacedExists
<1>4. \A t \in SUBSET (1 .. n) :
        g[t] = IF t = {} THEN start ELSE PutAt(g[t \ {Max(t)}], text[Max(t)], x)
  BY <1>3 DEF IsPlaced
<1> DEFINE Good == {k \in 0 .. n : g[1 .. k] \in Pens}
<1>5. 0 \in Good
  <2>1. 1 .. 0 = {} /\ {} \in SUBSET (1 .. n) /\ 0 \in 0 .. n
    OBVIOUS
  <2>2. g[{}] = start
    BY <1>4, <2>1
  <2> QED BY <1>1, <2>1, <2>2
<1>6. ASSUME NEW k \in 1 .. n, k - 1 \in Good
      PROVE  k \in Good
  <2>1. k \in 0 .. n /\ k \in Nat /\ k > 0 /\ 1 .. k \in SUBSET (1 .. n)
    OBVIOUS
  <2>2. 1 .. k # {} /\ Max(1 .. k) = k /\ (1 .. k) \ {k} = 1 .. k - 1
    BY <2>1, FirstIndices
  <2>3. g[1 .. k] = PutAt(g[1 .. k - 1], text[k], x)
    BY <1>4, <2>1, <2>2
  <2>4. g[1 .. k - 1] \in Pens
    BY <1>6
  <2>5. g[1 .. k] \in Pens
    BY <2>3, <2>4, PutAtTyped
  <2> QED BY <2>1, <2>5
<1>7. n \in Good
  <2> HIDE DEF Good
  <2>1. \A k \in 0 .. n : k \in Good
    BY <1>5, <1>6, CountUp
  <2> QED BY <2>1
<1>8. g[1 .. n] \in Pens
  BY <1>7
<1> QED BY <1>3, <1>8 DEF Pens
-----------------------------------------------------------------------------
(* The calls of the screen, and the text in front of the cursor.           *)

VgaInv == screen \in Screens

\* A printed character is one of those that are shown.
LEMMA PrintablePlain ==
  ASSUME NEW c \in Printable
  PROVE  c \in Glyphs /\ Plain(c) /\ c # Blank /\ c # "other" /\ c # BACKSPACE
BY VgaAssumption DEF VgaAssumption, Glyphs, Plain

LEMMA FirstScreen == NoScreen \in Screens
BY BlankRowIs, Sizes1 DEF NoScreen, Screens

LEMMA InitializeTyped ==
  ASSUME NEW s \in Screens
  PROVE  vga_clear([s EXCEPT !.buffer = TRUE]) \in Screens
<1>1. [s EXCEPT !.buffer = TRUE] \in Screens
  BY DEF Screens
<1> QED BY <1>1, ClearIs

LEMMA PlacesAreInts == Xs \subseteq Int /\ Ys \subseteq Int
BY Sizes1 DEF Xs, Ys

\* Every call leaves a screen.
LEMMA CallsTyped ==
  ASSUME VgaInv, VgaNext
  PROVE  VgaInv'
<1>1. screen \in Screens
  BY DEF VgaInv
<1>2. CASE vga_initialize
  BY <1>1, <1>2, InitializeTyped DEF vga_initialize, VgaInv
<1>3. CASE PutChar
  <2>1. PICK c \in Printable \cup {NEWLINE, CARRIAGE_RETURN, BACKSPACE, TAB} :
          screen' = vga_putchar(screen, c)
    BY <1>3 DEF PutChar
  <2>2. c \in Glyphs \cup {NEWLINE, CARRIAGE_RETURN, BACKSPACE, TAB}
    BY PrintablePlain
  <2> QED BY <1>1, <2>1, <2>2, PutTyped DEF VgaInv
<1>4. CASE ScreenCall
  <2>1. CASE screen' = vga_clear(screen)
    BY <1>1, <2>1, ClearIs DEF VgaInv
  <2>2. CASE \E lines \in Ys : screen' = vga_scroll_up(screen, lines)
    BY <1>1, <2>2, PlacesAreInts, ScrollTyped DEF VgaInv
  <2>3. CASE \E lines \in Ys : screen' = vga_scroll_down(screen, lines)
    BY <1>1, <2>3, PlacesAreInts, ScrollTyped DEF VgaInv
  <2>4. CASE \E x \in Xs, y \in Ys : screen' = vga_move_cursor(screen, x, y)
    BY <1>1, <2>4, CursorTyped DEF VgaInv
  <2>5. CASE \E x \in Xs, y \in Ys, c \in Printable : screen' = vga_putchar_at(screen, c, x, y)
    BY <1>1, <2>5, PrintablePlain, FilledTyped DEF VgaInv, vga_putchar_at
  <2>6. CASE \E x \in Xs, y \in Ys, c \in Printable :
               screen' = vga_puts_at(screen, <<c, NEWLINE, c, c>>, x, y)
    <3>1. PICK x \in Xs, y \in Ys, c \in Printable :
            screen' = vga_puts_at(screen, <<c, NEWLINE, c, c>>, x, y)
      BY <2>6
    <3> DEFINE text == <<c, NEWLINE, c, c>>
               Shown == Glyphs \cup {NEWLINE}
    <3>2. c \in Shown /\ NEWLINE \in Shown
      BY PrintablePlain
    <3>3. text \in [1 .. 4 -> Shown]
      <4> HIDE DEF Shown
      <4> QED BY <3>2
    <3>4. screen' = vga_puts_at(screen, text, x, y) /\ x \in Int /\ y \in Int
      BY <3>1, PlacesAreInts
    <3> HIDE DEF text
    <3>5. text \in [1 .. 4 -> Glyphs \cup {NEWLINE}] /\ 4 \in Nat
      BY <3>3
    <3>6. vga_puts_at(screen, text, x, y) \in Screens
      BY <1>1, <3>4, <3>5, PutsAtTyped
    <3> QED BY <3>4, <3>6 DEF VgaInv
  <2>7. CASE \E y \in Ys : screen' = vga_delete_line(screen, y)
    BY <1>1, <2>7, PlacesAreInts, LinesTyped DEF VgaInv
  <2>8. CASE \E y \in Ys : screen' = vga_insert_line(screen, y)
    BY <1>1, <2>8, PlacesAreInts, LinesTyped DEF VgaInv
  <2>9. CASE \E y \in Ys, width \in Xs : screen' = vga_clear_area(screen, 0, y, width, 2)
    BY <1>1, <2>9, BlankRowIs, FilledTyped DEF VgaInv, vga_clear_area
  <2>10. CASE \E x \in Xs, y \in Ys : screen' = vga_draw_box(screen, x, y, VGA_WIDTH, 2)
    BY <1>1, <2>10, BoxTyped DEF VgaInv
  <2> QED BY <1>4, <2>1, <2>2, <2>3, <2>4, <2>5, <2>6, <2>7, <2>8, <2>9, <2>10 DEF ScreenCall
<1> QED BY <1>2, <1>3, <1>4 DEF VgaNext

LEMMA VgaKeeps == VgaInv /\ [VgaNext]_vga_vars => VgaInv'
BY CallsTyped DEF VgaInv, vga_vars

\* The cursor is on the screen after every call, on a screen of any size and with tabs of any
\* width: no character is written outside the buffer (vga.c:118-165).
THEOREM CursorStaysOnScreen == VgaSpec => []CursorOnScreen
<1>1. VgaInit => VgaInv
  BY FirstScreen DEF VgaInit, VgaInv
<1>2. VgaInv => CursorOnScreen
  BY PlaceIs DEF VgaInv, CursorOnScreen, vga_bounds_check
<1> QED BY <1>1, <1>2, VgaKeeps, PTL DEF VgaSpec

\* What TextFollows asks of a step.
TextAsked ==
  /\ vga_call' \in Printable /\ screen.buffer =>
       /\ Before(screen') = Suffix(Append(Before(screen), vga_call'), Len(Before(screen')))
       /\ screen'.column > screen.column => vga_get_line_length(screen', screen.row) > screen.column
  /\ vga_call' = BACKSPACE /\ screen.buffer /\ Before(screen) # <<>> => Before(screen') = Front(Before(screen))

\* The text in front of the cursor, by the numbers of the cells.
LEMMA BeforeIs ==
  ASSUME NEW s \in Screens
  PROVE  /\ Before(s) \in Seq(Glyphs) /\ Len(Before(s)) = Place(s)
         /\ \A i \in 1 .. Place(s) : Before(s)[i] = At(s, i - 1)
<1>1. Place(s) \in Nat /\ Place(s) \in 0 .. LastPlace - 1
  BY PlaceNumbers
<1>2. Before(s) = [i \in 1 .. Place(s) |-> At(s, i - 1)]
  BY DEF Before, Place, At
<1>3. ASSUME NEW i \in 1 .. Place(s) PROVE At(s, i - 1) \in Glyphs
  <2>1. i - 1 \in 0 .. LastPlace - 1
    BY <1>1, Sizes1
  <2>2. (i - 1) \div VGA_WIDTH \in Rows /\ (i - 1) % VGA_WIDTH \in Columns
    BY <2>1, CellOf
  <2>3. s.cells \in [Rows -> [Columns -> Glyphs]]
    BY PlaceIs
  <2> QED BY <2>2, <2>3 DEF At
<1>4. PICK n \in Nat : n = Place(s)
  BY <1>1
<1>5. PICK f : f = [i \in 1 .. n |-> At(s, i - 1)]
  OBVIOUS
<1>6. f \in [1 .. n -> Glyphs] /\ \A i \in 1 .. n : f[i] = At(s, i - 1)
  BY <1>3, <1>4, <1>5
<1>7. f \in Seq(Glyphs) /\ Len(f) = n
  BY <1>6
<1> QED BY <1>2, <1>4, <1>5, <1>6, <1>7

\* The end of a text of P + 1 characters.
LEMMA SuffixIs ==
  ASSUME NEW S, NEW text \in Seq(S), NEW n \in 0 .. Len(text)
  PROVE  /\ Suffix(text, n) \in Seq(S) /\ Len(Suffix(text, n)) = n
         /\ \A i \in 1 .. n : Suffix(text, n)[i] = text[Len(text) - n + i]
<1>1. PICK last \in Nat : last = Len(text)
  OBVIOUS
<1>2. PICK first \in Int : first = last - n + 1
  <2>1. n \in 0 .. last
    BY <1>1
  <2>2. last - n + 1 \in Int
    BY <1>1, <2>1
  <2> QED BY <2>2
<1>3. first \in 1 .. last + 1 /\ last - first + 1 = n /\ n \in Nat
  BY <1>1, <1>2
<1>4. \A i \in first .. last : text[i] \in S
  <2>1. \A i \in first .. last : i \in 1 .. Len(text)
    BY <1>1, <1>3
  <2> QED BY <2>1
<1>5. /\ SubSeq(text, first, last) \in Seq(S)
      /\ Len(SubSeq(text, first, last)) = IF first <= last THEN last - first + 1 ELSE 0
      /\ \A i \in 1 .. last - first + 1 : SubSeq(text, first, last)[i] = text[first + i - 1]
  <2>1. last \in Int
    BY <1>1
  <2> QED BY <1>2, <1>4, <2>1, SubSeqProperties
<1>6. Suffix(text, n) = SubSeq(text, first, last)
  BY <1>1, <1>2 DEF Suffix
<1>7. Len(SubSeq(text, first, last)) = n
  BY <1>1, <1>3, <1>5
<1>8. ASSUME NEW i \in 1 .. n
      PROVE  SubSeq(text, first, last)[i] = text[Len(text) - n + i]
  <2>1. first + i - 1 = Len(text) - n + i
    BY <1>1, <1>2, <1>3
  <2> QED BY <1>3, <1>5, <2>1
<1> QED BY <1>5, <1>6, <1>7, <1>8

\* A printed character follows the text in front of the cursor.
LEMMA TextGrows ==
  ASSUME NEW s \in Screens, s.buffer, NEW c \in Printable, NEW t, t = vga_putchar(s, c)
  PROVE  Before(t) = Suffix(Append(Before(s), c), Len(Before(t)))
<1>1. c \in Glyphs /\ Plain(c)
  BY PrintablePlain
<1>2. t \in Screens
  BY <1>1, PutPlain
<1>3. PICK d \in {0, VGA_WIDTH} :
        /\ Place(t) = Place(s) + 1 - d
        /\ \A q \in 0 .. Place(t) - 1 :
             /\ q + d \in 0 .. LastPlace - 1
             /\ At(t, q) = IF q + d = Place(s) THEN c ELSE At(s, q + d)
  BY <1>1, PutPlain
<1>4. PICK old : old = Before(s)
  OBVIOUS
<1>5. PICK now : now = Before(t)
  OBVIOUS
<1>6. PICK n \in Nat, m \in Nat : n = Place(s) /\ m = Place(t)
  BY <1>2, PlaceNumbers
<1>7. /\ old \in Seq(Glyphs) /\ Len(old) = n /\ \A i \in 1 .. n : old[i] = At(s, i - 1)
      /\ now \in Seq(Glyphs) /\ Len(now) = m /\ \A i \in 1 .. m : now[i] = At(t, i - 1)
  BY <1>2, <1>4, <1>5, <1>6, BeforeIs
<1>8. d \in Nat /\ m = n + 1 - d /\ m \in 0 .. n + 1
  BY <1>3, <1>6, Sizes1
<1>9. PICK all : all = Append(old, c)
  OBVIOUS
<1>10. all \in Seq(Glyphs) /\ Len(all) = n + 1 /\ (\A i \in 1 .. n : all[i] = old[i]) /\ all[n + 1] = c
  BY <1>1, <1>7, <1>9, AppendProperties
<1>11. /\ Suffix(all, m) \in Seq(Glyphs) /\ Len(Suffix(all, m)) = m
       /\ \A i \in 1 .. m : Suffix(all, m)[i] = all[Len(all) - m + i]
  <2>1. m \in 0 .. Len(all) /\ all \in Seq(Glyphs)
    BY <1>8, <1>10
  <2> QED BY <2>1, SuffixIs
<1>12. ASSUME NEW i \in 1 .. m
       PROVE  now[i] = Suffix(all, m)[i]
  <2>1. i - 1 \in 0 .. m - 1 /\ Len(all) - m + i = i + d /\ i + d \in 1 .. n + 1
        /\ (i - 1) + d = i + d - 1
    BY <1>8, <1>10
  <2>2. At(t, i - 1) = IF i + d - 1 = n THEN c ELSE At(s, i + d - 1)
    BY <1>3, <1>6, <2>1
  <2>3. now[i] = At(t, i - 1) /\ Suffix(all, m)[i] = all[i + d]
    BY <1>7, <1>11, <2>1
  <2>4. CASE i + d = n + 1
    BY <1>10, <2>1, <2>2, <2>3, <2>4
  <2>5. CASE i + d # n + 1
    <3>1. i + d \in 1 .. n /\ i + d - 1 # n
      BY <1>8, <2>1, <2>5
    <3>2. all[i + d] = At(s, i + d - 1)
      BY <1>7, <1>10, <3>1
    <3> QED BY <2>2, <2>3, <3>1, <3>2
  <2> QED BY <2>4, <2>5
<1>13. now = Suffix(all, m)
  <2>1. PICK end : end = Suffix(all, m)
    OBVIOUS
  <2>2. end \in Seq(Glyphs) /\ Len(end) = m /\ \A i \in 1 .. m : now[i] = end[i]
    BY <1>11, <1>12, <2>1
  <2>3. now = end
    BY <1>7, <2>2
  <2> QED BY <2>1, <2>3
<1> QED BY <1>4, <1>5, <1>7, <1>9, <1>13

\* The line of a character that is not at the end of its row counts it.
LEMMA LineCounts ==
  ASSUME NEW s \in Screens, s.buffer, NEW c \in Printable, NEW t, t = vga_putchar(s, c),
         t.column > s.column
  PROVE  vga_get_line_length(t, s.row) > s.column
<1>1. PICK u : u = Show(s, c)
  OBVIOUS
<1>2. /\ u \in Screens /\ u.buffer /\ Place(u) = Place(s) /\ u.row = s.row /\ u.column = s.column
      /\ \A q \in 0 .. LastPlace - 1 : At(u, q) = IF q = Place(s) THEN c ELSE At(s, q)
  BY <1>1, ShowIs, PrintablePlain
<1>3. t = IF s.column + 1 >= VGA_WIDTH THEN NewRow(u) ELSE [u EXCEPT !.column = s.column + 1]
  BY <1>1, <1>2, PrintablePlain DEF vga_putchar, Plain, Advance
<1>4. /\ s.column \in Nat /\ s.column \in Columns /\ s.row \in Rows
      /\ Place(s) \in 0 .. LastPlace - 1
      /\ Place(s) \div VGA_WIDTH = s.row /\ Place(s) % VGA_WIDTH = s.column
  BY PlaceNumbers, PlaceIs
<1>5. t = [u EXCEPT !.column = s.column + 1]
  <2>1. NewRow(u).column = 0
    BY <1>2, NewRowIs
  <2>2. ~(0 > s.column)
    BY <1>4
  <2> QED BY <1>3, <2>1, <2>2
<1>6. t.cells = u.cells /\ t.buffer
  BY <1>2, <1>5 DEF Screens
<1>7. u.cells[s.row][s.column] = c
  BY <1>2, <1>4 DEF At
<1> DEFINE used == {x \in Columns : t.cells[s.row][x] # Blank}
<1>8. s.column \in used
  BY <1>4, <1>6, <1>7, PrintablePlain
<1>9. vga_get_line_length(t, s.row) = Max(used) + 1
  BY <1>4, <1>6, <1>8 DEF vga_get_line_length
<1>10. used \in SUBSET (0 .. VGA_WIDTH) /\ VGA_WIDTH \in Nat
  BY Sizes1 DEF Columns
<1> HIDE DEF used
<1>11. Max(used) \in used /\ s.column <= Max(used)
  BY <1>8, <1>10, GreatestIn
<1>12. Max(used) \in Nat
  <2>1. Max(used) \in 0 .. VGA_WIDTH
    BY <1>10, <1>11
  <2> QED BY <2>1, Sizes1
<1> QED BY <1>4, <1>9, <1>11, <1>12

\* A backspace takes the last character off the text.
LEMMA TextShrinks ==
  ASSUME NEW s \in Screens, s.buffer, Before(s) # <<>>, NEW t, t = vga_putchar(s, BACKSPACE)
  PROVE  Before(t) = Front(Before(s))
<1>1. PICK n \in Nat : n = Place(s)
  BY PlaceNumbers
<1>2. PICK old : old = Before(s)
  OBVIOUS
<1>3. old \in Seq(Glyphs) /\ Len(old) = n /\ \A i \in 1 .. n : old[i] = At(s, i - 1)
  BY <1>1, <1>2, BeforeIs
<1>4. n > 0
  BY <1>1, <1>2, <1>3
<1>5. t \in Screens /\ Place(t) = n - 1 /\ \A q \in 0 .. n - 2 : At(t, q) = At(s, q)
  BY <1>1, <1>4, BackIs
<1>6. PICK now : now = Before(t)
  OBVIOUS
<1>7. now \in Seq(Glyphs) /\ Len(now) = n - 1 /\ \A i \in 1 .. n - 1 : now[i] = At(t, i - 1)
  BY <1>5, <1>6, BeforeIs
<1>8. PICK front : front = SubSeq(old, 1, n - 1)
  OBVIOUS
<1>9. front \in Seq(Glyphs) /\ Len(front) = n - 1 /\ \A i \in 1 .. n - 1 : front[i] = old[i]
  BY <1>3, <1>4, <1>8
<1>10. ASSUME NEW i \in 1 .. n - 1 PROVE now[i] = front[i]
  <2>1. i - 1 \in 0 .. n - 2 /\ i \in 1 .. n
    OBVIOUS
  <2> QED BY <1>3, <1>5, <1>7, <1>9, <2>1
<1>11. now = front
  BY <1>7, <1>9, <1>10
<1> QED BY <1>2, <1>3, <1>6, <1>8, <1>11 DEF Front

LEMMA StepsFollow ==
  ASSUME VgaInv, VgaNext
  PROVE  TextAsked
<1>1. screen \in Screens
  BY DEF VgaInv
<1>2. CASE vga_initialize \/ ScreenCall
  <2>1. vga_call' = "other"
    BY <1>2 DEF vga_initialize, ScreenCall
  <2>2. vga_call' \notin Printable /\ vga_call' # BACKSPACE
    BY <2>1, PrintablePlain DEF BACKSPACE
  <2> QED BY <2>2 DEF TextAsked
<1>3. CASE PutChar
  <2>1. PICK c \in Printable \cup {NEWLINE, CARRIAGE_RETURN, BACKSPACE, TAB} :
          screen' = vga_putchar(screen, c) /\ vga_call' = c
    BY <1>3 DEF PutChar
  <2>2. ASSUME vga_call' \in Printable, screen.buffer
        PROVE  /\ Before(screen') = Suffix(Append(Before(screen), vga_call'), Len(Before(screen')))
               /\ screen'.column > screen.column =>
                    vga_get_line_length(screen', screen.row) > screen.column
    <3>1. c \in Printable
      BY <2>1, <2>2
    <3>2. Before(screen') = Suffix(Append(Before(screen), c), Len(Before(screen')))
      BY <1>1, <2>1, <2>2, <3>1, TextGrows
    <3>3. screen'.column > screen.column =>
            vga_get_line_length(screen', screen.row) > screen.column
      BY <1>1, <2>1, <2>2, <3>1, LineCounts
    <3> QED BY <2>1, <3>2, <3>3
  <2>3. ASSUME vga_call' = BACKSPACE, screen.buffer, Before(screen) # <<>>
        PROVE  Before(screen') = Front(Before(screen))
    BY <1>1, <2>1, <2>3, TextShrinks
  <2> QED BY <2>2, <2>3 DEF TextAsked
<1> QED BY <1>2, <1>3 DEF VgaNext

\* A printed character follows the text in front of the cursor, and a backspace takes one off it,
\* on a screen of any size and with any characters (vga.c:117-167, 454-465).
THEOREM TextAlwaysFollows == VgaSpec => TextFollows
<1>1. VgaInit => VgaInv
  BY FirstScreen DEF VgaInit, VgaInv
<1>2. VgaInv /\ [VgaNext]_vga_vars => [TextAsked]_vga_vars
  BY StepsFollow
<1>3. VgaSpec => [][TextAsked]_vga_vars
  BY <1>1, <1>2, VgaKeeps, PTL DEF VgaSpec
<1> QED BY <1>3 DEF TextFollows, TextAsked

\* The screen, the memory and the terminal settings, each used by its calls: text, bytes and
\* settings change as the calls say and not otherwise, for every size and every alphabet.
THEOREM CallsKeepTheRest == VgaSpec /\ StringsSpec /\ TermiosSpec => CallsChangeOnlyTheirs
BY TextAlwaysFollows, MovesStayIntact, SettingsAlwaysFollow DEF CallsChangeOnlyTheirs
-----------------------------------------------------------------------------
(* vga_puts: a text, character by character.                               *)

\* What vga_putchar takes.
Puts == Glyphs \cup {NEWLINE, CARRIAGE_RETURN, BACKSPACE, TAB}

IsPut(g, start, text, n) ==
  g = [t \in SUBSET (1 .. n) |->
        IF t = {} THEN start ELSE vga_putchar(g[t \ {Max(t)}], text[Max(t)])]

LEMMA PutExists ==
  ASSUME NEW start \in Screens, NEW n \in Nat, NEW text \in [1 .. n -> Puts]
  PROVE  \E g : IsPut(g, start, text, n)
<1> DEFINE step(i) == [s \in Screens |-> vga_putchar(s, text[i])]
           f == [i \in 1 .. n |-> step(i)]
<1>1. \A i \in 1 .. n : step(i) \in [Screens -> Screens]
  <2> TAKE i \in 1 .. n
  <2>1. \A s \in Screens : vga_putchar(s, text[i]) \in Screens
    BY PutTyped DEF Puts
  <2> QED BY <2>1
<1>2. f \in [1 .. n -> [Screens -> Screens]]
  <2> HIDE DEF step
  <2> QED BY <1>1
<1>3. \A i \in 1 .. n, s \in Screens : f[i][s] = vga_putchar(s, text[i])
  OBVIOUS
<1> HIDE DEF f, step
<1>4. PICK g \in [SUBSET (1 .. n) -> Screens] : IsFold(g, start, f, n)
  BY <1>2, FoldsExist
<1>5. ASSUME NEW t \in SUBSET (1 .. n), t # {}
      PROVE  f[Max(t)][g[t \ {Max(t)}]] = vga_putchar(g[t \ {Max(t)}], text[Max(t)])
  <2>1. Max(t) \in 1 .. n /\ t \ {Max(t)} \in SUBSET (1 .. n)
    BY <1>5, MaxOfIndices
  <2> QED BY <1>3, <2>1
<1>6. g = [t \in SUBSET (1 .. n) |-> IF t = {} THEN start ELSE f[Max(t)][g[t \ {Max(t)}]]]
  BY <1>4 DEF IsFold
<1>7. g = [t \in SUBSET (1 .. n) |->
            IF t = {} THEN start ELSE vga_putchar(g[t \ {Max(t)}], text[Max(t)])]
  BY <1>5, <1>6
<1> QED BY <1>7 DEF IsPut

\* The screens between the characters of a text.
IsScreens(h, s, text, n) ==
  /\ h \in [0 .. n -> Screens] /\ h[0] = s
  /\ \A k \in 1 .. n : h[k] = vga_putchar(h[k - 1], text[k])
  /\ \A k \in 0 .. n : h[k].buffer = s.buffer

LEMMA PutsAre ==
  ASSUME NEW s \in Screens, NEW n \in Nat, NEW text \in [1 .. n -> Puts]
  PROVE  \E h : IsScreens(h, s, text, n) /\ h[n] = vga_puts(s, text)
<1>1. vga_puts(s, text) = (CHOOSE g : IsPut(g, s, text, n))[1 .. n]
  <2>1. DOMAIN text = 1 .. n
    OBVIOUS
  <2> QED BY <2>1 DEF vga_puts, FoldLeft, MapThenFoldSet, IsPut
<1>2. PICK g : IsPut(g, s, text, n) /\ vga_puts(s, text) = g[1 .. n]
  BY <1>1, PutExists
<1>3. \A t \in SUBSET (1 .. n) :
        g[t] = IF t = {} THEN s ELSE vga_putchar(g[t \ {Max(t)}], text[Max(t)])
  BY <1>2 DEF IsPut
<1> DEFINE h == [k \in 0 .. n |-> g[1 .. k]]
<1>4. h[0] = s
  <2>1. 1 .. 0 = {} /\ {} \in SUBSET (1 .. n) /\ 0 \in 0 .. n
    OBVIOUS
  <2>2. g[{}] = s
    BY <1>3, <2>1
  <2> QED BY <2>1, <2>2
<1>5. ASSUME NEW k \in 1 .. n
      PROVE  h[k] = vga_putchar(h[k - 1], text[k])
  <2>1. k \in 0 .. n /\ k - 1 \in 0 .. n /\ k \in Nat /\ k > 0 /\ 1 .. k \in SUBSET (1 .. n)
    OBVIOUS
  <2>2. 1 .. k # {} /\ Max(1 .. k) = k /\ (1 .. k) \ {k} = 1 .. k - 1
    BY <2>1, FirstIndices
  <2>3. g[1 .. k] = vga_putchar(g[1 .. k - 1], text[k])
    BY <1>3, <2>1, <2>2
  <2> QED BY <2>1, <2>3
<1>6. h[n] = vga_puts(s, text) /\ DOMAIN h = 0 .. n
  BY <1>2
<1>7. h = [k \in 0 .. n |-> h[k]]
  OBVIOUS
<1> HIDE DEF h
<1> DEFINE Good == {k \in 0 .. n : h[k] \in Screens /\ h[k].buffer = s.buffer}
<1>8. 0 \in Good
  BY <1>4
<1>9. ASSUME NEW k \in 1 .. n, k - 1 \in Good
      PROVE  k \in Good
  <2>1. k \in 0 .. n /\ h[k - 1] \in Screens /\ h[k - 1].buffer = s.buffer /\ text[k] \in Puts
    BY <1>9
  <2>2. h[k] \in Screens /\ h[k].buffer = s.buffer
    BY <1>5, <2>1, PutTyped DEF Puts
  <2> QED BY <2>1, <2>2
<1>10. \A k \in 0 .. n : k \in Good
  <2> HIDE DEF Good
  <2> QED BY <1>8, <1>9, CountUp
<1>11. h \in [0 .. n -> Screens] /\ \A k \in 0 .. n : h[k].buffer = s.buffer
  BY <1>7, <1>10
<1>12. IsScreens(h, s, text, n)
  BY <1>4, <1>5, <1>11 DEF IsScreens
<1> QED BY <1>6, <1>12

\* A text leaves a screen.
LEMMA PutsTyped ==
  ASSUME NEW s \in Screens, NEW text \in Seq(Puts)
  PROVE  vga_puts(s, text) \in Screens /\ vga_puts(s, text).buffer = s.buffer
<1>1. PICK n \in Nat : text \in [1 .. n -> Puts]
  <2>1. text \in [1 .. Len(text) -> Puts] /\ Len(text) \in Nat
    OBVIOUS
  <2> QED BY <2>1
<1>2. PICK h : IsScreens(h, s, text, n) /\ h[n] = vga_puts(s, text)
  BY <1>1, PutsAre
<1>3. n \in 0 .. n
  BY <1>1
<1> QED BY <1>2, <1>3 DEF IsScreens

\* A text put in two parts.
LEMMA PutsParts ==
  ASSUME NEW s \in Screens, NEW first \in Seq(Puts), NEW second \in Seq(Puts)
  PROVE  vga_puts(s, first \o second) = vga_puts(vga_puts(s, first), second)
<1>1. PICK n \in Nat, m \in Nat : n = Len(first) /\ m = Len(second)
  OBVIOUS
<1>2. first \in [1 .. n -> Puts] /\ second \in [1 .. m -> Puts]
  BY <1>1
<1>3. PICK text : text = first \o second
  OBVIOUS
<1>4. /\ text \in Seq(Puts) /\ Len(text) = n + m
      /\ \A i \in 1 .. n : text[i] = first[i]
      /\ \A i \in 1 .. m : text[n + i] = second[i]
  <2>1. /\ first \o second \in Seq(Puts) /\ Len(first \o second) = n + m
        /\ \A i \in 1 .. n : (first \o second)[i] = first[i]
        /\ \A i \in 1 .. m : (first \o second)[n + i] = second[i]
    BY <1>1
  <2> QED BY <1>3, <2>1
<1>5. PICK all \in Nat : all = n + m
  OBVIOUS
<1>6. text \in [1 .. all -> Puts]
  BY <1>4, <1>5
<1>7. PICK h : IsScreens(h, s, text, all) /\ h[all] = vga_puts(s, text)
  BY <1>6, PutsAre
<1>8. PICK f : IsScreens(f, s, first, n) /\ f[n] = vga_puts(s, first)
  BY <1>2, PutsAre
<1>9. PICK middle \in Screens : middle = vga_puts(s, first)
  <2>1. n \in 0 .. n
    BY <1>1
  <2> QED BY <1>8, <2>1 DEF IsScreens
<1>10. PICK g : IsScreens(g, middle, second, m) /\ g[m] = vga_puts(middle, second)
  BY <1>2, PutsAre
<1>11. f[n] = h[n]
  <2> DEFINE Good == {k \in 0 .. n : f[k] = h[k]}
  <2>1. 0 \in Good
    BY <1>7, <1>8 DEF IsScreens
  <2>2. ASSUME NEW k \in 1 .. n, k - 1 \in Good
        PROVE  k \in Good
    <3>1. k \in 1 .. all /\ k \in 0 .. n /\ f[k - 1] = h[k - 1]
      BY <1>5, <2>2
    <3>2. f[k] = vga_putchar(f[k - 1], first[k]) /\ h[k] = vga_putchar(h[k - 1], text[k])
      BY <1>7, <1>8, <3>1 DEF IsScreens
    <3> QED BY <1>4, <3>1, <3>2
  <2>3. \A k \in 0 .. n : k \in Good
    <3> HIDE DEF Good
    <3> QED BY <2>1, <2>2, CountUp
  <2>4. n \in 0 .. n
    BY <1>1
  <2> QED BY <2>3, <2>4
<1>12. g[m] = h[all]
  <2> DEFINE Good == {k \in 0 .. m : g[k] = h[n + k]}
  <2>1. 0 \in Good
    <3>1. g[0] = middle /\ n + 0 = n /\ 0 \in 0 .. m
      BY <1>10 DEF IsScreens
    <3> QED BY <1>8, <1>9, <1>11, <3>1
  <2>2. ASSUME NEW k \in 1 .. m, k - 1 \in Good
        PROVE  k \in Good
    <3>1. /\ n + k \in 1 .. all /\ k \in 0 .. m /\ n + (k - 1) = (n + k) - 1
          /\ g[k - 1] = h[n + (k - 1)]
      BY <1>5, <2>2
    <3>2. /\ g[k] = vga_putchar(g[k - 1], second[k])
          /\ h[n + k] = vga_putchar(h[(n + k) - 1], text[n + k])
      BY <1>7, <1>10, <3>1 DEF IsScreens
    <3> QED BY <1>4, <3>1, <3>2
  <2>3. \A k \in 0 .. m : k \in Good
    <3> HIDE DEF Good
    <3> QED BY <2>1, <2>2, CountUp
  <2>4. m \in 0 .. m
    BY <1>1
  <2> QED BY <1>5, <2>3, <2>4
<1> QED BY <1>3, <1>7, <1>9, <1>10, <1>12

-----------------------------------------------------------------------------
(* What stands in front of the cursor.                                     *)

\* u stands in front of the cursor.
Shows(s, u) ==
  /\ u \in Seq(Glyphs) /\ Len(u) <= Place(s)
  /\ \A i \in 1 .. Len(u) : At(s, Place(s) - Len(u) + i - 1) = u[i]

\* A character is put behind it.
LEMMA ShowsMore ==
  ASSUME NEW s \in Screens, s.buffer, NEW u, Shows(s, u), Len(u) < LineRoom, NEW c, Plain(c)
  PROVE  Shows(vga_putchar(s, c), Append(u, c))
<1>1. PICK t \in Screens : t = vga_putchar(s, c)
  BY PutPlain
<1>2. PICK d \in {0, VGA_WIDTH} :
        /\ Place(t) = Place(s) + 1 - d
        /\ d # 0 => Place(t) = LineRoom
        /\ \A q \in 0 .. Place(t) - 1 :
             /\ q + d \in 0 .. LastPlace - 1
             /\ At(t, q) = IF q + d = Place(s) THEN c ELSE At(s, q + d)
  BY <1>1, PutPlain
<1>3. PICK n \in Nat, p \in Nat, q \in Nat : n = Len(u) /\ p = Place(s) /\ q = Place(t)
  <2>1. Place(s) \in Nat /\ Place(t) \in Nat /\ Len(u) \in Nat
    BY PlaceNumbers DEF Shows
  <2> QED BY <2>1
<1>4. n <= p /\ u \in Seq(Glyphs) /\ \A i \in 1 .. n : At(s, p - n + i - 1) = u[i]
  BY <1>3 DEF Shows
<1>5. d \in Nat /\ q = p + 1 - d /\ n + 1 <= q
  <2>1. LineRoom \in Nat
    BY Sizes1 DEF LineRoom
  <2>2. d \in Nat /\ q = p + 1 - d /\ (d # 0 => q = LineRoom) /\ n < LineRoom
    BY <1>2, <1>3, Sizes1
  <2>3. CASE d = 0
    BY <1>3, <1>4, <2>2, <2>3
  <2>4. CASE d # 0
    BY <1>3, <2>1, <2>2, <2>4
  <2> QED BY <2>2, <2>3, <2>4
<1>6. PICK v : v = Append(u, c)
  OBVIOUS
<1>7. v \in Seq(Glyphs) /\ Len(v) = n + 1 /\ (\A i \in 1 .. n : v[i] = u[i]) /\ v[n + 1] = c
  <2>1. c \in Glyphs
    BY DEF Plain
  <2> QED BY <1>3, <1>4, <1>6, <2>1, AppendProperties
<1>8. ASSUME NEW i \in 1 .. n + 1
      PROVE  At(t, q - (n + 1) + i - 1) = v[i]
  <2>1. PICK at : at = q - (n + 1) + i - 1
    OBVIOUS
  <2>6. i \in Nat /\ 1 <= i /\ i <= n + 1
    BY <1>3
  <2>7. n \in Nat /\ p \in Nat /\ q \in Nat /\ d \in Nat
    BY <1>3, <1>5
  <2>8. at \in Int /\ 0 <= at /\ at <= q - 1 /\ at + d = p - n + i - 1
    BY <1>5, <2>1, <2>6, <2>7
  <2>2. at \in 0 .. q - 1 /\ at + d = p - n + i - 1
    BY <2>7, <2>8
  <2>3. At(t, at) = IF at + d = p THEN c ELSE At(s, at + d)
    BY <1>2, <1>3, <2>2
  <2>4. CASE i = n + 1
    BY <1>3, <1>7, <2>1, <2>2, <2>3, <2>4
  <2>5. CASE i # n + 1
    <3>1. i \in 1 .. n /\ at + d # p
      BY <2>2, <2>5, <2>6, <2>7
    <3>2. At(t, at) = At(s, p - n + i - 1)
      BY <2>2, <2>3, <3>1
    <3> QED BY <1>4, <1>7, <2>1, <3>1, <3>2
  <2> QED BY <2>4, <2>5
<1>9. Shows(t, v)
  <2>1. Len(v) <= Place(t)
    BY <1>3, <1>5, <1>7
  <2>2. \A i \in 1 .. Len(v) : At(t, Place(t) - Len(v) + i - 1) = v[i]
    BY <1>3, <1>7, <1>8
  <2> QED BY <1>7, <2>1, <2>2 DEF Shows
<1> QED BY <1>1, <1>6, <1>9

\* A backspace takes its last character off.
LEMMA ShowsLess ==
  ASSUME NEW s \in Screens, s.buffer, NEW u, Shows(s, u), NEW n \in Nat, Len(u) = n + 1
  PROVE  Shows(vga_putchar(s, BACKSPACE), SubSeq(u, 1, n))
<1>1. PICK t \in Screens : t = vga_putchar(s, BACKSPACE)
  BY BackIs
<1>2. PICK p \in Nat : p = Place(s)
  BY PlaceNumbers
<1>3. n + 1 <= p /\ u \in Seq(Glyphs) /\ \A i \in 1 .. n + 1 : At(s, p - (n + 1) + i - 1) = u[i]
  BY <1>2 DEF Shows
<1>4. Place(t) = p - 1 /\ \A q \in 0 .. p - 2 : At(t, q) = At(s, q)
  BY <1>1, <1>2, <1>3, BackIs
<1>5. PICK v : v = SubSeq(u, 1, n)
  OBVIOUS
<1>6. v \in Seq(Glyphs) /\ Len(v) = n /\ \A i \in 1 .. n : v[i] = u[i]
  BY <1>3, <1>5
<1>7. ASSUME NEW i \in 1 .. n
      PROVE  At(t, p - 1 - n + i - 1) = v[i]
  <2>1. PICK at : at = p - 1 - n + i - 1
    OBVIOUS
  <2>2. at \in 0 .. p - 2 /\ at = p - (n + 1) + i - 1 /\ i \in 1 .. n + 1
    <3>1. i \in Nat /\ 1 <= i /\ i <= n /\ p \in Nat /\ n \in Nat /\ n + 1 <= p
      BY <1>2, <1>3
    <3>2. at \in Int /\ 0 <= at /\ at <= p - 2 /\ at = p - (n + 1) + i - 1
      BY <2>1, <3>1
    <3> QED BY <3>1, <3>2
  <2> QED BY <1>3, <1>4, <1>6, <2>1, <2>2
<1>8. Shows(t, v)
  <2>1. Len(v) <= Place(t)
    BY <1>2, <1>3, <1>4, <1>6
  <2>2. \A i \in 1 .. Len(v) : At(t, Place(t) - Len(v) + i - 1) = v[i]
    BY <1>4, <1>6, <1>7
  <2> QED BY <1>6, <2>1, <2>2 DEF Shows
<1> QED BY <1>1, <1>5, <1>8
-----------------------------------------------------------------------------
(* Texts in front of the cursor.                                           *)

PlainChars == {c \in Glyphs : Plain(c)}

LEMMA PlainArePut == PlainChars \subseteq Puts /\ PlainChars \subseteq Glyphs /\ BACKSPACE \in Puts
BY DEF PlainChars, Puts

LEMMA SameText ==
  ASSUME NEW S, NEW a \in Seq(S), NEW b \in Seq(S), NEW n \in Nat, Len(a) = n, Len(b) = n,
         \A i \in 1 .. n : a[i] = b[i]
  PROVE  a = b
OBVIOUS

\* The beginning of a text.
LEMMA FirstOfText ==
  ASSUME NEW S, NEW text \in Seq(S), NEW k \in 0 .. Len(text)
  PROVE  /\ SubSeq(text, 1, k) \in Seq(S) /\ Len(SubSeq(text, 1, k)) = k
         /\ \A i \in 1 .. k : SubSeq(text, 1, k)[i] = text[i]
<1>1. PICK m \in Nat : m = k
  OBVIOUS
<1>2. \A i \in 1 .. m : i \in 1 .. Len(text)
  BY <1>1
<1>3. \A i \in 1 .. m : text[i] \in S
  BY <1>2
<1>4. /\ SubSeq(text, 1, m) \in Seq(S)
      /\ Len(SubSeq(text, 1, m)) = IF 1 <= m THEN m - 1 + 1 ELSE 0
      /\ \A i \in 1 .. m - 1 + 1 : SubSeq(text, 1, m)[i] = text[1 + i - 1]
  BY <1>3, SubSeqProperties
<1>5. Len(SubSeq(text, 1, m)) = m /\ \A i \in 1 .. m : SubSeq(text, 1, m)[i] = text[i]
  BY <1>4
<1> QED BY <1>1, <1>4, <1>5

\* Two texts, one behind the other.
IsJoined(c, a, b, S) ==
  /\ c \in Seq(S) /\ Len(c) = Len(a) + Len(b)
  /\ \A i \in 1 .. Len(a) : c[i] = a[i]
  /\ \A i \in 1 .. Len(b) : c[Len(a) + i] = b[i]

LEMMA Joined ==
  ASSUME NEW S, NEW a \in Seq(S), NEW b \in Seq(S)
  PROVE  IsJoined(a \o b, a, b, S)
BY DEF IsJoined

\* A text and one more of its characters, behind what there is.
LEMMA JoinedMore ==
  ASSUME NEW S, NEW u \in Seq(S), NEW text \in Seq(S), NEW k \in 1 .. Len(text)
  PROVE  Append(u \o SubSeq(text, 1, k - 1), text[k]) = u \o SubSeq(text, 1, k)
<1>1. PICK n \in Nat, m \in Nat : n = Len(u) /\ m = k - 1
  <2>1. Len(u) \in Nat /\ k - 1 \in Nat
    OBVIOUS
  <2> QED BY <2>1
<1>2. /\ m + 1 = k /\ m \in 0 .. Len(text) /\ k \in 0 .. Len(text) /\ k \in Nat
      /\ text[k] \in S
  BY <1>1
<1>3. PICK a : a = SubSeq(text, 1, m)
  OBVIOUS
<1>4. PICK b : b = SubSeq(text, 1, k)
  OBVIOUS
<1>5. a \in Seq(S) /\ Len(a) = m /\ \A i \in 1 .. m : a[i] = text[i]
  BY <1>2, <1>3, FirstOfText
<1>6. b \in Seq(S) /\ Len(b) = k /\ \A i \in 1 .. k : b[i] = text[i]
  BY <1>2, <1>4, FirstOfText
<1>7. PICK c : c = u \o a
  OBVIOUS
<1>8. PICK d : d = u \o b
  OBVIOUS
<1>9. /\ c \in Seq(S) /\ Len(c) = n + m /\ (\A i \in 1 .. n : c[i] = u[i])
      /\ \A i \in 1 .. m : c[n + i] = a[i]
  <2>1. Len(u) = n /\ Len(a) = m
    BY <1>1, <1>5
  <2>3. a \in Seq(S)
    BY <1>5
  <2>2. /\ u \o a \in Seq(S) /\ Len(u \o a) = n + m
        /\ \A i \in 1 .. n : (u \o a)[i] = u[i]
        /\ \A i \in 1 .. m : (u \o a)[n + i] = a[i]
    <3>1. IsJoined(u \o a, u, a, S)
      BY <2>3, Joined
    <3> QED BY <2>1, <3>1 DEF IsJoined
  <2> QED BY <1>7, <2>2
<1>10. /\ d \in Seq(S) /\ Len(d) = n + k /\ (\A i \in 1 .. n : d[i] = u[i])
       /\ \A i \in 1 .. k : d[n + i] = b[i]
  <2>1. Len(u) = n /\ Len(b) = k /\ k \in Nat
    BY <1>1, <1>2, <1>6
  <2>3. b \in Seq(S)
    BY <1>6
  <2>2. /\ u \o b \in Seq(S) /\ Len(u \o b) = n + k
        /\ \A i \in 1 .. n : (u \o b)[i] = u[i]
        /\ \A i \in 1 .. k : (u \o b)[n + i] = b[i]
    <3>1. IsJoined(u \o b, u, b, S)
      BY <2>3, Joined
    <3> QED BY <2>1, <3>1 DEF IsJoined
  <2> QED BY <1>8, <2>2
<1>11. PICK e : e = Append(c, text[k])
  OBVIOUS
<1>12. /\ e \in Seq(S) /\ Len(e) = n + m + 1 /\ (\A i \in 1 .. n + m : e[i] = c[i])
       /\ e[n + m + 1] = text[k]
  <2>1. PICK x \in S : x = text[k]
    BY <1>2
  <2>2. PICK w \in Nat : w = n + m
    OBVIOUS
  <2>3. /\ Append(c, x) \in Seq(S) /\ Len(Append(c, x)) = w + 1
        /\ (\A i \in 1 .. w : Append(c, x)[i] = c[i]) /\ Append(c, x)[w + 1] = x
    BY <1>9, <2>2, AppendProperties
  <2> QED BY <1>11, <2>1, <2>2, <2>3
<1>13. PICK all \in Nat : all = n + m + 1
  OBVIOUS
<1>14. ASSUME NEW i \in 1 .. all
       PROVE  e[i] = d[i]
  <2>1. CASE i \in 1 .. n
    <3>1. i \in 1 .. n + m
      BY <2>1
    <3> QED BY <1>9, <1>10, <1>12, <2>1, <3>1
  <2>2. CASE i \in n + 1 .. n + m
    <3>1. PICK j \in 1 .. m : i = n + j
      <4>1. i - n \in 1 .. m /\ i = n + (i - n)
        BY <2>2
      <4> QED BY <4>1
    <3>2. i \in 1 .. n + m /\ j \in 1 .. k
      BY <1>1, <2>2, <3>1
    <3>3. e[i] = a[j]
      BY <1>9, <1>12, <3>1, <3>2
    <3>4. d[i] = b[j]
      BY <1>10, <3>1, <3>2
    <3> QED BY <1>5, <1>6, <3>1, <3>2, <3>3, <3>4
  <2>3. CASE i = n + m + 1
    <3>1. i = n + k /\ k \in 1 .. k
      BY <1>2, <2>3
    <3> QED BY <1>6, <1>10, <1>12, <2>3, <3>1
  <2> QED BY <1>13, <2>1, <2>2, <2>3
<1>15. Len(e) = all /\ Len(d) = all
  BY <1>2, <1>10, <1>12, <1>13
<1>16. e = d
  BY <1>10, <1>12, <1>14, <1>15, SameText
<1> QED BY <1>1, <1>3, <1>4, <1>7, <1>8, <1>11, <1>16

\* A text without controls stands behind what stood in front of the cursor.
LEMMA ShowsText ==
  ASSUME NEW s \in Screens, s.buffer, NEW u, Shows(s, u), NEW text \in Seq(PlainChars),
         Len(u) + Len(text) <= LineRoom
  PROVE  Shows(vga_puts(s, text), u \o text)
<1>1. PICK n \in Nat : n = Len(text)
  OBVIOUS
<1>2. text \in [1 .. n -> Puts] /\ text \in Seq(Glyphs) /\ u \in Seq(Glyphs)
  BY <1>1, PlainArePut DEF Shows
<1>3. PICK h : IsScreens(h, s, text, n) /\ h[n] = vga_puts(s, text)
  BY <1>2, PutsAre
<1> DEFINE Good == {k \in 0 .. n : Shows(h[k], u \o SubSeq(text, 1, k))}
<1>4. 0 \in Good
  <2>1. SubSeq(text, 1, 0) = <<>> /\ u \o <<>> = u /\ 0 \in 0 .. n
    BY <1>2
  <2>2. h[0] = s
    BY <1>3 DEF IsScreens
  <2> QED BY <2>1, <2>2
<1>5. ASSUME NEW k \in 1 .. n, k - 1 \in Good
      PROVE  k \in Good
  <2>1. /\ k - 1 \in 0 .. n /\ k \in 0 .. n /\ k \in 1 .. Len(text)
        /\ Shows(h[k - 1], u \o SubSeq(text, 1, k - 1))
    BY <1>1, <1>5
  <2>2. h[k - 1] \in Screens /\ h[k - 1].buffer /\ h[k] = vga_putchar(h[k - 1], text[k])
    BY <1>3, <2>1 DEF IsScreens
  <2>3. PICK v : v = u \o SubSeq(text, 1, k - 1)
    OBVIOUS
  <2>4. Len(v) < LineRoom
    <3>1. PICK m \in Nat : m = k - 1 /\ m \in 0 .. Len(text)
      <4>1. k - 1 \in Nat /\ k - 1 \in 0 .. Len(text)
        BY <2>1
      <4> QED BY <4>1
    <3>2. SubSeq(text, 1, m) \in Seq(Glyphs) /\ Len(SubSeq(text, 1, m)) = m
      BY <1>2, <3>1, FirstOfText
    <3>3. PICK l \in Nat : l = Len(u)
      BY <1>2
    <3>4. Len(v) = l + m
      BY <1>2, <2>3, <3>1, <3>2, <3>3, Joined
    <3>5. LineRoom \in Int /\ m < n /\ l + n <= LineRoom
      BY <1>1, <3>1, <3>3, Sizes1 DEF LineRoom
    <3> QED BY <3>1, <3>3, <3>4, <3>5
  <2>5. Plain(text[k])
    BY <2>1 DEF PlainChars
  <2>6. Shows(h[k], Append(v, text[k]))
    BY <2>1, <2>2, <2>3, <2>4, <2>5, ShowsMore
  <2>7. Append(v, text[k]) = u \o SubSeq(text, 1, k)
    BY <1>2, <2>1, <2>3, JoinedMore
  <2> QED BY <2>1, <2>6, <2>7
<1>6. n \in Good
  <2> HIDE DEF Good
  <2>1. \A k \in 0 .. n : k \in Good
    BY <1>4, <1>5, CountUp
  <2> QED BY <2>1
<1>7. SubSeq(text, 1, n) = text
  BY <1>1, SubSeqFull
<1> QED BY <1>3, <1>6, <1>7

\* As many backspaces take as many characters off.
LEMMA ShowsBack ==
  ASSUME NEW s \in Screens, s.buffer, NEW u, Shows(s, u), NEW n \in Nat, NEW m \in Nat,
         Len(u) = m + n
  PROVE  Shows(vga_puts(s, Times(n, BACKSPACE)), SubSeq(u, 1, m))
<1>1. PICK text : text = Times(n, BACKSPACE)
  OBVIOUS
<1>2. text \in [1 .. n -> Puts] /\ \A k \in 1 .. n : text[k] = BACKSPACE
  BY <1>1, PlainArePut DEF Times
<1>3. PICK h : IsScreens(h, s, text, n) /\ h[n] = vga_puts(s, text)
  BY <1>2, PutsAre
<1>4. u \in Seq(Glyphs)
  BY DEF Shows
<1> DEFINE Good == {k \in 0 .. n : Shows(h[k], SubSeq(u, 1, m + n - k))}
<1>5. 0 \in Good
  <2>1. m + n - 0 = Len(u) /\ SubSeq(u, 1, Len(u)) = u /\ 0 \in 0 .. n
    BY <1>4, SubSeqFull
  <2>2. h[0] = s
    BY <1>3 DEF IsScreens
  <2> QED BY <2>1, <2>2
<1>6. ASSUME NEW k \in 1 .. n, k - 1 \in Good
      PROVE  k \in Good
  <2>1. k - 1 \in 0 .. n /\ k \in 0 .. n
    BY <1>6
  <2>2. h[k - 1] \in Screens /\ h[k - 1].buffer /\ h[k] = vga_putchar(h[k - 1], BACKSPACE)
    BY <1>2, <1>3, <2>1 DEF IsScreens
  <2>3. PICK r \in Nat : r = m + n - k
    <3>1. m + n - k \in Nat
      OBVIOUS
    <3> QED BY <3>1
  <2>4. m + n - (k - 1) = r + 1 /\ r + 1 \in 0 .. Len(u) /\ r \in 0 .. Len(u) /\ r \in 0 .. r + 1
    BY <2>3
  <2>5. PICK v : v = SubSeq(u, 1, r + 1)
    OBVIOUS
  <2>6. v \in Seq(Glyphs) /\ Len(v) = r + 1 /\ \A i \in 1 .. r + 1 : v[i] = u[i]
    BY <1>4, <2>4, <2>5, FirstOfText
  <2>7. Shows(h[k - 1], v)
    BY <1>6, <2>4, <2>5
  <2>8. Shows(h[k], SubSeq(v, 1, r))
    BY <2>2, <2>3, <2>6, <2>7, ShowsLess
  <2>9. SubSeq(v, 1, r) = SubSeq(u, 1, r)
    <3>1. /\ SubSeq(v, 1, r) \in Seq(Glyphs) /\ Len(SubSeq(v, 1, r)) = r
          /\ \A i \in 1 .. r : SubSeq(v, 1, r)[i] = v[i]
      BY <2>4, <2>6, FirstOfText
    <3>2. /\ SubSeq(u, 1, r) \in Seq(Glyphs) /\ Len(SubSeq(u, 1, r)) = r
          /\ \A i \in 1 .. r : SubSeq(u, 1, r)[i] = u[i]
      BY <1>4, <2>4, FirstOfText
    <3>3. \A i \in 1 .. r : SubSeq(v, 1, r)[i] = SubSeq(u, 1, r)[i]
      <4>1. \A i \in 1 .. r : i \in 1 .. r + 1
        BY <2>3
      <4> QED BY <2>6, <3>1, <3>2, <4>1
    <3> QED BY <3>1, <3>2, <3>3, SameText
  <2> QED BY <2>1, <2>3, <2>8, <2>9
<1>7. n \in Good
  <2> HIDE DEF Good
  <2>1. \A k \in 0 .. n : k \in Good
    BY <1>5, <1>6, CountUp
  <2> QED BY <2>1
<1>8. m + n - n = m
  OBVIOUS
<1> QED BY <1>1, <1>3, <1>7, <1>8
-----------------------------------------------------------------------------
(* The history of the shell.                                               *)

\* What can be typed: a line leaves room for its last row.
CommandLines == {line \in Seq(Letters) : Len(line) <= SHELL_MAX_INPUT_LENGTH - 1}
EntriesOf(ids) == [id : ids, command : CommandLines]

LEMMA TextsWiden ==
  ASSUME NEW A, NEW B, A \subseteq B, NEW text \in Seq(A)
  PROVE  text \in Seq(B)
OBVIOUS

LEMMA LettersArePlain ==
  /\ Letters \subseteq PlainChars /\ Letters \subseteq Glyphs /\ Letters \subseteq Puts
  /\ Space \in PlainChars /\ Space \in Puts
  /\ \A text \in Seq(STRING) : text \in Seq(Puts)
<1>1. Letters \subseteq PlainChars
  BY ShellAssumption DEF ShellAssumption, PlainChars, Plain, Glyphs
<1>2. Space \in PlainChars
  BY DEF PlainChars, Plain, Glyphs, Space, Blank, NEWLINE, CARRIAGE_RETURN, BACKSPACE, TAB
<1>3. STRING \subseteq Puts
  BY DEF Puts, Glyphs
<1>4. \A text \in Seq(STRING) : text \in Seq(Puts)
  <2>1. PICK A : A = STRING
    OBVIOUS
  <2>2. \A text \in Seq(A) : text \in Seq(Puts)
    BY <1>3, <2>1, TextsWiden
  <2> QED BY <2>1, <2>2, Zenon
<1>5. Letters \subseteq Glyphs /\ Letters \subseteq Puts /\ Space \in Puts
  BY <1>1, <1>2, PlainArePut
<1> QED BY <1>1, <1>2, <1>4, <1>5

LEMMA LineIs ==
  ASSUME NEW line \in CommandLines
  PROVE  /\ line \in Seq(Letters) /\ line \in Seq(PlainChars) /\ line \in Seq(Puts)
         /\ line \in Seq(Glyphs) /\ Len(line) \in Nat /\ Len(line) <= LineRoom
<1>1. line \in Seq(Letters) /\ Len(line) <= SHELL_MAX_INPUT_LENGTH - 1
  BY DEF CommandLines
<1>2. SHELL_MAX_INPUT_LENGTH - 1 <= LineRoom /\ SHELL_MAX_INPUT_LENGTH \in Nat /\ LineRoom \in Nat
  BY ShellAssumption, Sizes1 DEF ShellAssumption, LineRoom
<1>3. Len(line) \in Nat /\ Len(line) <= LineRoom
  BY <1>1, <1>2
<1>4. \A S : Letters \subseteq S => line \in Seq(S)
  BY <1>1
<1> QED BY <1>1, <1>3, <1>4, LettersArePlain

\* The list of the history: one line per entry.
Title == <<"#", NEWLINE>>
IsListed(g, queue, n) ==
  g = [t \in SUBSET (1 .. n) |->
        IF t = {} THEN Title ELSE HistoryLine(g[t \ {Max(t)}], queue[Max(t)])]

LEMMA TitleTyped == Title \in Seq(Puts) /\ <<"#">> \in Seq(Puts) /\ <<NEWLINE>> \in Seq(Puts)
<1>1. "#" \in Puts /\ NEWLINE \in Puts
  BY DEF Puts, Glyphs
<1> HIDE DEF Puts
<1> QED BY <1>1 DEF Title

LEMMA HistoryLineTyped ==
  ASSUME NEW text \in Seq(Puts), NEW ids, NEW entry \in EntriesOf(ids)
  PROVE  HistoryLine(text, entry) \in Seq(Puts)
<1>1. entry.command \in Seq(Puts)
  BY LineIs DEF EntriesOf
<1>2. text \o <<"#">> \in Seq(Puts)
  BY TitleTyped
<1>3. (text \o <<"#">>) \o entry.command \in Seq(Puts)
  BY <1>1, <1>2
<1>4. ((text \o <<"#">>) \o entry.command) \o <<NEWLINE>> \in Seq(Puts)
  BY <1>3, TitleTyped
<1> QED BY <1>4 DEF HistoryLine

LEMMA ListedExists ==
  ASSUME NEW n \in Nat, NEW ids, NEW queue \in [1 .. n -> EntriesOf(ids)]
  PROVE  \E g : IsListed(g, queue, n)
<1> DEFINE Texts0 == Seq(Puts)
           step(i) == [text \in Texts0 |-> HistoryLine(text, queue[i])]
           f == [i \in 1 .. n |-> step(i)]
<1>1. \A i \in 1 .. n : step(i) \in [Texts0 -> Texts0]
  <2> TAKE i \in 1 .. n
  <2>1. \A text \in Texts0 : HistoryLine(text, queue[i]) \in Texts0
    BY HistoryLineTyped
  <2> HIDE DEF Texts0
  <2> QED BY <2>1
<1>2. f \in [1 .. n -> [Texts0 -> Texts0]]
  <2> HIDE DEF step, Texts0
  <2> QED BY <1>1
<1>3. \A i \in 1 .. n, text \in Texts0 : f[i][text] = HistoryLine(text, queue[i])
  <2> HIDE DEF Texts0
  <2> QED OBVIOUS
<1>4. Title \in Texts0
  BY TitleTyped
<1> HIDE DEF f, step, Texts0
<1>5. PICK g \in [SUBSET (1 .. n) -> Texts0] : IsFold(g, Title, f, n)
  BY <1>2, <1>4, FoldsExist
<1>6. ASSUME NEW t \in SUBSET (1 .. n), t # {}
      PROVE  f[Max(t)][g[t \ {Max(t)}]] = HistoryLine(g[t \ {Max(t)}], queue[Max(t)])
  <2>1. Max(t) \in 1 .. n /\ t \ {Max(t)} \in SUBSET (1 .. n)
    BY <1>6, MaxOfIndices
  <2> QED BY <1>3, <2>1
<1>7. g = [t \in SUBSET (1 .. n) |-> IF t = {} THEN Title ELSE f[Max(t)][g[t \ {Max(t)}]]]
  BY <1>5 DEF IsFold
<1>8. g = [t \in SUBSET (1 .. n) |->
            IF t = {} THEN Title ELSE HistoryLine(g[t \ {Max(t)}], queue[Max(t)])]
  BY <1>6, <1>7
<1> QED BY <1>8 DEF IsListed

LEMMA HistoryTyped ==
  ASSUME NEW ids, NEW queue \in Seq(EntriesOf(ids))
  PROVE  history_main(queue) \in Seq(Puts)
<1>1. PICK n \in Nat : queue \in [1 .. n -> EntriesOf(ids)]
  <2>1. queue \in [1 .. Len(queue) -> EntriesOf(ids)] /\ Len(queue) \in Nat
    OBVIOUS
  <2> QED BY <2>1
<1>2. history_main(queue) = (CHOOSE g : IsListed(g, queue, n))[1 .. n]
  <2>1. DOMAIN queue = 1 .. n
    BY <1>1
  <2> QED BY <2>1 DEF history_main, FoldLeft, MapThenFoldSet, IsListed, Title
<1>3. PICK g : IsListed(g, queue, n) /\ history_main(queue) = g[1 .. n]
  BY <1>1, <1>2, ListedExists
<1>4. \A t \in SUBSET (1 .. n) :
        g[t] = IF t = {} THEN Title ELSE HistoryLine(g[t \ {Max(t)}], queue[Max(t)])
  BY <1>3 DEF IsListed
<1> DEFINE Good == {k \in 0 .. n : g[1 .. k] \in Seq(Puts)}
<1>5. 0 \in Good
  <2>1. 1 .. 0 = {} /\ {} \in SUBSET (1 .. n) /\ 0 \in 0 .. n
    BY <1>1
  <2>2. g[{}] = Title
    BY <1>4, <2>1
  <2> QED BY <2>1, <2>2, TitleTyped
<1>6. ASSUME NEW k \in 1 .. n, k - 1 \in Good
      PROVE  k \in Good
  <2>1. k \in 0 .. n /\ k \in Nat /\ k > 0 /\ 1 .. k \in SUBSET (1 .. n)
    BY <1>1
  <2>2. 1 .. k # {} /\ Max(1 .. k) = k /\ (1 .. k) \ {k} = 1 .. k - 1
    BY <2>1, FirstIndices
  <2>3. g[1 .. k] = HistoryLine(g[1 .. k - 1], queue[k])
    BY <1>4, <2>1, <2>2
  <2>4. g[1 .. k - 1] \in Seq(Puts) /\ queue[k] \in EntriesOf(ids)
    BY <1>1, <1>6
  <2> QED BY <2>1, <2>3, <2>4, HistoryLineTyped
<1>7. \A k \in 0 .. n : k \in Good
  <2> HIDE DEF Good
  <2> QED BY <1>1, <1>5, <1>6, CountUp
<1>8. n \in 0 .. n
  BY <1>1
<1> QED BY <1>3, <1>7, <1>8

-----------------------------------------------------------------------------
(* The history is the end of what was entered.                             *)

Recent(queue, lines) ==
  [i \in DOMAIN queue |-> queue[i].command] = Suffix(lines, Min({Len(lines), SHELL_HISTORY_SIZE}))

LEMMA RecentLength ==
  ASSUME NEW n \in Nat
  PROVE  Min({n, SHELL_HISTORY_SIZE}) = IF n < SHELL_HISTORY_SIZE THEN n ELSE SHELL_HISTORY_SIZE
<1>1. SHELL_HISTORY_SIZE \in Nat
  BY ShellAssumption DEF ShellAssumption
<1>2. {n, SHELL_HISTORY_SIZE} \in SUBSET Nat
  BY <1>1
<1>3. CASE n < SHELL_HISTORY_SIZE
  <2>1. n \in {n, SHELL_HISTORY_SIZE} /\ \A y \in {n, SHELL_HISTORY_SIZE} : n <= y
    BY <1>1, <1>3
  <2> QED BY <1>2, <1>3, <2>1, MinIs
<1>4. CASE ~(n < SHELL_HISTORY_SIZE)
  <2>1. \A y \in {n, SHELL_HISTORY_SIZE} : SHELL_HISTORY_SIZE <= y
    BY <1>1, <1>4
  <2> QED BY <1>2, <1>4, <2>1, MinIs
<1> QED BY <1>3, <1>4

\* The entries and the lines, one by one.
Aligned(queue, lines) ==
  /\ Len(queue) = IF Len(lines) < SHELL_HISTORY_SIZE THEN Len(lines) ELSE SHELL_HISTORY_SIZE
  /\ \A i \in 1 .. Len(queue) : queue[i].command = lines[Len(lines) - Len(queue) + i]

LEMMA RecentIs ==
  ASSUME NEW ids, NEW queue \in Seq(EntriesOf(ids)), NEW lines \in Seq(CommandLines)
  PROVE  Recent(queue, lines) <=> Aligned(queue, lines)
<1>1. PICK n \in Nat, l \in Nat : n = Len(queue) /\ l = Len(lines)
  OBVIOUS
<1>2. PICK m \in 0 .. l :
        /\ m = Min({Len(lines), SHELL_HISTORY_SIZE})
        /\ m = IF Len(lines) < SHELL_HISTORY_SIZE THEN Len(lines) ELSE SHELL_HISTORY_SIZE
  <2>1. SHELL_HISTORY_SIZE \in Nat
    BY ShellAssumption DEF ShellAssumption
  <2>2. Min({l, SHELL_HISTORY_SIZE}) \in 0 .. l
    BY <2>1, RecentLength
  <2> QED BY <1>1, <2>2, RecentLength
<1>3. PICK a : a = [i \in DOMAIN queue |-> queue[i].command]
  OBVIOUS
<1>4. PICK b : b = Suffix(lines, m)
  OBVIOUS
<1>5. a \in Seq(CommandLines) /\ Len(a) = n /\ \A i \in 1 .. n : a[i] = queue[i].command
  <2>1. DOMAIN queue = 1 .. n /\ \A i \in 1 .. n : queue[i] \in EntriesOf(ids)
    BY <1>1
  <2>2. \A i \in 1 .. n : queue[i].command \in CommandLines
    BY <2>1 DEF EntriesOf
  <2>3. a = [i \in 1 .. n |-> queue[i].command]
    BY <1>3, <2>1
  <2> QED BY <2>2, <2>3
<1>6. /\ b \in Seq(CommandLines) /\ Len(b) = m
      /\ \A i \in 1 .. m : b[i] = lines[Len(lines) - m + i]
  <2>1. m \in 0 .. Len(lines)
    BY <1>1, <1>2
  <2>2. /\ Suffix(lines, m) \in Seq(CommandLines) /\ Len(Suffix(lines, m)) = m
        /\ \A i \in 1 .. m : Suffix(lines, m)[i] = lines[Len(lines) - m + i]
    BY <2>1, SuffixIs
  <2> QED BY <1>4, <2>2
<1>7. Recent(queue, lines) <=> a = b
  BY <1>2, <1>3, <1>4 DEF Recent
<1>8. a = b <=> n = m /\ \A i \in 1 .. n : a[i] = b[i]
  <2>1. ASSUME n = m, \A i \in 1 .. n : a[i] = b[i] PROVE a = b
    BY <1>5, <1>6, <2>1, SameText
  <2> QED BY <1>5, <1>6, <2>1
<1>9. Aligned(queue, lines) <=> n = m /\ \A i \in 1 .. n : queue[i].command = lines[Len(lines) - m + i]
  BY <1>1, <1>2 DEF Aligned
<1>10. ASSUME n = m
       PROVE  (\A i \in 1 .. n : a[i] = b[i])
                <=> \A i \in 1 .. n : queue[i].command = lines[Len(lines) - m + i]
  BY <1>5, <1>6, <1>10
<1> QED BY <1>7, <1>8, <1>9, <1>10

\* A new line at the end of both, and the oldest entry forgotten when the history is full.
LEMMA AlignedGrows ==
  ASSUME NEW ids, NEW queue \in Seq(EntriesOf(ids)), NEW lines \in Seq(CommandLines),
         Aligned(queue, lines), NEW line \in CommandLines, NEW entry \in EntriesOf(ids),
         entry.command = line
  PROVE  /\ Append(Forget(queue), entry) \in Seq(EntriesOf(ids))
         /\ Append(lines, line) \in Seq(CommandLines)
         /\ Aligned(Append(Forget(queue), entry), Append(lines, line))
<1> DEFINE E == EntriesOf(ids)
<1>1. PICK n \in Nat, l \in Nat, size \in Nat \ {0} :
        n = Len(queue) /\ l = Len(lines) /\ size = SHELL_HISTORY_SIZE
  BY ShellAssumption DEF ShellAssumption
<1>2. /\ n = IF l < size THEN l ELSE size
      /\ \A i \in 1 .. n : queue[i].command = lines[l - n + i]
  BY <1>1 DEF Aligned
<1>3. PICK after : after = Append(lines, line)
  OBVIOUS
<1>4. /\ after \in Seq(CommandLines) /\ Len(after) = l + 1
      /\ (\A i \in 1 .. l : after[i] = lines[i]) /\ after[l + 1] = line
  BY <1>1, <1>3, AppendProperties
<1>5. PICK kept : kept = Forget(queue)
  OBVIOUS
<1>6. PICK d \in {0, 1} :
        /\ d = IF n >= size THEN 1 ELSE 0
        /\ kept \in Seq(E) /\ Len(kept) = n - d
        /\ \A i \in 1 .. n - d : kept[i] = queue[i + d]
  <2> HIDE DEF E
  <2>1. CASE n >= size
    <3>1. kept = Tail(queue) /\ queue # <<>> /\ queue \in Seq(E)
      BY <1>1, <1>5, <2>1 DEF Forget, E
    <3>2. kept \in Seq(E) /\ Len(kept) = n - 1 /\ \A i \in 1 .. n - 1 : kept[i] = queue[i + 1]
      BY <1>1, <3>1
    <3> QED BY <2>1, <3>2
  <2>2. CASE ~(n >= size)
    <3>1. kept = queue /\ queue \in Seq(E)
      BY <1>1, <1>5, <2>2 DEF Forget, E
    <3>2. kept \in Seq(E) /\ Len(kept) = n - 0 /\ \A i \in 1 .. n - 0 : kept[i] = queue[i + 0]
      BY <1>1, <3>1
    <3> QED BY <2>2, <3>2
  <2> QED BY <2>1, <2>2
<1>7. PICK m \in Nat : m = n - d
  <2>1. n - d \in Nat
    BY <1>1, <1>6
  <2> QED BY <2>1
<1>8. PICK new : new = Append(kept, entry)
  OBVIOUS
<1>9. /\ new \in Seq(E) /\ Len(new) = m + 1 /\ (\A i \in 1 .. m : new[i] = kept[i])
      /\ new[m + 1] = entry
  <2>1. entry \in E /\ Len(kept) = m
    BY <1>6, <1>7
  <2> HIDE DEF E
  <2> QED BY <1>6, <1>8, <2>1, AppendProperties
<1>10. m + 1 = IF l + 1 < size THEN l + 1 ELSE size
  <2>1. n \in Nat /\ l \in Nat /\ size \in Nat /\ size > 0 /\ m = n - d
    BY <1>1, <1>7
  <2>2. CASE n >= size
    BY <1>2, <1>6, <2>1, <2>2
  <2>3. CASE ~(n >= size)
    BY <1>2, <1>6, <2>1, <2>3
  <2> QED BY <2>2, <2>3
<1>11. ASSUME NEW i \in 1 .. m + 1
       PROVE  new[i].command = after[(l + 1) - (m + 1) + i]
  <2>1. CASE i = m + 1
    <3>1. (l + 1) - (m + 1) + i = l + 1
      BY <2>1
    <3> QED BY <1>4, <1>9, <2>1, <3>1
  <2>2. CASE i # m + 1
    <3>1. i \in 1 .. m /\ i \in 1 .. n - d /\ i + d \in 1 .. n
      BY <1>1, <1>6, <1>7, <2>2
    <3>2. new[i] = queue[i + d]
      BY <1>6, <1>9, <3>1
    <3>3. queue[i + d].command = lines[l - n + (i + d)]
      BY <1>2, <3>1
    <3>4. l - n + (i + d) = (l + 1) - (m + 1) + i /\ l - n + (i + d) \in 1 .. l
      <4>1. n <= l
        BY <1>1, <1>2
      <4>2. n \in Nat /\ l \in Nat /\ d \in Nat /\ m = n - d /\ i \in Nat /\ i + d >= 1 /\ i + d <= n
        BY <1>1, <1>6, <1>7, <3>1
      <4> HIDE <1>1, <1>6
      <4> QED BY <4>1, <4>2
    <3> QED BY <1>4, <3>2, <3>3, <3>4
  <2> QED BY <2>1, <2>2
<1>12. Aligned(new, after)
  BY <1>1, <1>4, <1>9, <1>10, <1>11 DEF Aligned
<1> QED BY <1>3, <1>4, <1>5, <1>8, <1>9, <1>12
-----------------------------------------------------------------------------
(* The line that is edited.                                                *)

EntryIds == {history[i].id : i \in DOMAIN history}

ScreenReady == screen \in Screens /\ screen.buffer
LineReady == input_buffer \in CommandLines /\ cursor_pos \in 0 .. Len(input_buffer) /\ page \in Nat
HistoryReady ==
  /\ \E ids : history \in Seq(EntriesOf(ids))
  /\ entered \in Seq(CommandLines)
  /\ Recent(history, entered)
LineShown ==
  Editing => /\ Shows(screen, SubSeq(input_buffer, 1, cursor_pos))
             /\ history_current \in {0} \cup EntryIds

ShellInv == ScreenReady /\ LineReady /\ HistoryReady /\ LineShown

\* Keys that edit the line leave the rest alone.
LEMMA EditedKeeps ==
  ASSUME ShellInv, NEW line, NEW pos, NEW text, Edited(line, pos, text),
         line \in CommandLines, pos \in 0 .. Len(line), text \in Seq(Puts),
         Shows(vga_puts(screen, text), SubSeq(line, 1, pos)),
         history_current' \in {0} \cup EntryIds
  PROVE  ShellInv'
<1>1. /\ input_buffer' = line /\ cursor_pos' = pos /\ screen' = vga_puts(screen, text)
      /\ history' = history /\ page' = page /\ entered' = entered
  BY DEF Edited
<1>2. ScreenReady'
  BY <1>1, PutsTyped DEF ShellInv, ScreenReady
<1>3. LineReady'
  BY <1>1 DEF ShellInv, LineReady
<1>4. HistoryReady'
  BY <1>1 DEF ShellInv, HistoryReady
<1>5. LineShown'
  BY <1>1 DEF LineShown, EntryIds
<1> QED BY <1>2, <1>3, <1>4, <1>5 DEF ShellInv

\* The line, in front of the cursor and behind it.
LEMMA LineParts ==
  ASSUME ShellInv, Editing
  PROVE  /\ screen \in Screens /\ screen.buffer
         /\ input_buffer \in CommandLines /\ input_buffer \in Seq(Letters)
         /\ cursor_pos \in Nat /\ cursor_pos \in 0 .. Len(input_buffer)
         /\ Len(input_buffer) \in Nat /\ Len(input_buffer) <= LineRoom
         /\ SubSeq(input_buffer, 1, cursor_pos) \in Seq(Letters)
         /\ Len(SubSeq(input_buffer, 1, cursor_pos)) = cursor_pos
         /\ Behind \in Seq(Letters) /\ Len(Behind) = Len(input_buffer) - cursor_pos
         /\ Shows(screen, SubSeq(input_buffer, 1, cursor_pos))
         /\ history_current \in {0} \cup EntryIds
<1>1. /\ input_buffer \in CommandLines /\ input_buffer \in Seq(Letters)
      /\ Len(input_buffer) \in Nat /\ Len(input_buffer) <= LineRoom
      /\ cursor_pos \in 0 .. Len(input_buffer) /\ cursor_pos \in Nat
  BY LineIs DEF ShellInv, LineReady
<1>2. /\ SubSeq(input_buffer, 1, cursor_pos) \in Seq(Letters)
      /\ Len(SubSeq(input_buffer, 1, cursor_pos)) = cursor_pos
  BY <1>1, FirstOfText
<1>3. Behind \in Seq(Letters) /\ Len(Behind) = Len(input_buffer) - cursor_pos
  <2>1. PICK n \in Nat, k \in Nat : n = Len(input_buffer) /\ k = cursor_pos /\ k <= n
    BY <1>1
  <2>2. \A i \in k + 1 .. n : input_buffer[i] \in Letters
    <3>1. \A i \in k + 1 .. n : i \in 1 .. Len(input_buffer)
      BY <2>1
    <3> QED BY <1>1, <3>1
  <2>3. PICK first \in Int : first = k + 1
    OBVIOUS
  <2>4. /\ SubSeq(input_buffer, first, n) \in Seq(Letters)
        /\ Len(SubSeq(input_buffer, first, n)) = IF first <= n THEN n - first + 1 ELSE 0
    BY <2>2, <2>3, SubSeqProperties
  <2>5. Len(SubSeq(input_buffer, first, n)) = n - k
    BY <2>1, <2>3, <2>4
  <2> QED BY <2>1, <2>3, <2>4, <2>5 DEF Behind
<1>4. screen \in Screens /\ screen.buffer
  BY DEF ShellInv, ScreenReady
<1>5. Shows(screen, SubSeq(input_buffer, 1, cursor_pos)) /\ history_current \in {0} \cup EntryIds
  BY DEF ShellInv, LineShown
<1> QED BY <1>1, <1>2, <1>3, <1>4, <1>5

\* The first of two texts.
LEMMA FirstOfTwo ==
  ASSUME NEW S, NEW a \in Seq(S), NEW b \in Seq(S), NEW n \in Nat, Len(a) = n
  PROVE  SubSeq(a \o b, 1, n) = a
<1>1. PICK m \in Nat : m = Len(b)
  OBVIOUS
<1>2. PICK c : c = a \o b
  OBVIOUS
<1>3. c \in Seq(S) /\ Len(c) = n + m /\ \A i \in 1 .. n : c[i] = a[i]
  <2>1. a \o b \in Seq(S) /\ Len(a \o b) = n + m /\ \A i \in 1 .. n : (a \o b)[i] = a[i]
    BY <1>1
  <2> QED BY <1>2, <2>1
<1>4. n \in 0 .. Len(c)
  BY <1>1, <1>3
<1>5. /\ SubSeq(c, 1, n) \in Seq(S) /\ Len(SubSeq(c, 1, n)) = n
      /\ \A i \in 1 .. n : SubSeq(c, 1, n)[i] = c[i]
  BY <1>3, <1>4, FirstOfText
<1>6. \A i \in 1 .. n : SubSeq(c, 1, n)[i] = a[i]
  BY <1>3, <1>5
<1>7. SubSeq(c, 1, n) = a
  BY <1>5, <1>6, SameText
<1> QED BY <1>2, <1>7

LEMMA ManyTimes ==
  ASSUME NEW S, NEW c \in S, NEW n \in Nat
  PROVE  Times(n, c) \in Seq(S) /\ Len(Times(n, c)) = n
BY DEF Times

LEMMA OnceIs ==
  ASSUME NEW c
  PROVE  <<c>> = Times(1, c)
<1>1. \A i \in 1 .. 1 : i = 1
  OBVIOUS
<1> QED BY <1>1 DEF Times

\* Texts as vga_puts takes them.
LEMMA AsPut ==
  /\ \A text \in Seq(Letters) :
       text \in Seq(PlainChars) /\ text \in Seq(Puts) /\ text \in Seq(Glyphs)
  /\ \A text \in Seq(PlainChars) : text \in Seq(Puts) /\ text \in Seq(Glyphs)
  /\ \A n \in Nat : Times(n, BACKSPACE) \in Seq(Puts)
BY LettersArePlain, PlainArePut, TextsWiden, ManyTimes

\* A text of m and n characters has room behind k.
Fit(u, text, k, m, n) == Len(u) = k /\ Len(text) = m + n /\ k + m + n <= LineRoom

\* Text put over a line from the place of the cursor, and the cursor back.
LEMMA PutAndBack ==
  ASSUME NEW s \in Screens, s.buffer, NEW u \in Seq(PlainChars), Shows(s, u),
         NEW text \in Seq(PlainChars), NEW n \in Nat, NEW k \in Nat, NEW m \in Nat,
         Fit(u, text, k, m, n)
  PROVE  /\ Shows(vga_puts(vga_puts(s, text), Times(n, BACKSPACE)), SubSeq(u \o text, 1, k + m))
         /\ vga_puts(s, text) \in Screens /\ vga_puts(s, text).buffer
         /\ vga_puts(s, text \o Times(n, BACKSPACE)) =
              vga_puts(vga_puts(s, text), Times(n, BACKSPACE))
<1>0. Len(u) = k /\ Len(text) = m + n /\ k + m + n <= LineRoom
  BY DEF Fit
<1>1. Len(u) + Len(text) <= LineRoom
  BY <1>0, Sizes1 DEF LineRoom
<1>2. PICK t : t = vga_puts(s, text)
  OBVIOUS
<1>3. text \in Seq(Puts) /\ Times(n, BACKSPACE) \in Seq(Puts)
  BY AsPut
<1>4. t \in Screens /\ t.buffer
  BY <1>2, <1>3, PutsTyped
<1>5. Shows(t, u \o text)
  BY <1>1, <1>2, ShowsText
<1>6. PICK v : v = u \o text
  OBVIOUS
<1>7. Len(u \o text) = k + (m + n)
  BY <1>0
<1>8. PICK l \in Nat : l = k + m /\ Len(v) = l + n
  <2>1. k + m \in Nat /\ k + (m + n) = (k + m) + n
    OBVIOUS
  <2> QED BY <1>6, <1>7, <2>1
<1>9. Shows(vga_puts(t, Times(n, BACKSPACE)), SubSeq(v, 1, l))
  BY <1>4, <1>5, <1>6, <1>8, ShowsBack
<1>10. vga_puts(s, text \o Times(n, BACKSPACE)) = vga_puts(vga_puts(s, text), Times(n, BACKSPACE))
  BY <1>3, PutsParts
<1> QED BY <1>2, <1>4, <1>6, <1>8, <1>9, <1>10
-----------------------------------------------------------------------------
(* The keys that edit.                                                     *)

LEMMA InsertKeeps == ShellInv /\ Insert => ShellInv'
<1> SUFFICES ASSUME ShellInv, Insert PROVE ShellInv'
  OBVIOUS
<1>1. PICK c \in Letters :
        /\ Len(input_buffer) < SHELL_MAX_INPUT_LENGTH - 1
        /\ Edited(SubSeq(input_buffer, 1, cursor_pos) \o <<c>> \o Behind, cursor_pos + 1,
                  <<c>> \o Behind \o Times(Len(Behind), BACKSPACE))
        /\ history_current' = history_current
  BY DEF Insert
<1>2. Editing
  BY <1>1 DEF Edited
<1>3. PICK p, b : p = SubSeq(input_buffer, 1, cursor_pos) /\ b = Behind
  OBVIOUS
<1>4. PICK k \in Nat, n \in Nat : k = cursor_pos /\ n = Len(b) /\ Len(input_buffer) = k + n
  <2>1. cursor_pos \in Nat /\ Len(b) \in Nat /\ Len(input_buffer) = cursor_pos + Len(b)
    BY <1>2, <1>3, LineParts
  <2> QED BY <2>1
<1>5. /\ p \in Seq(Letters) /\ Len(p) = k /\ b \in Seq(Letters) /\ Shows(screen, p)
      /\ screen \in Screens /\ screen.buffer /\ history_current \in {0} \cup EntryIds
  BY <1>2, <1>3, <1>4, LineParts
<1>6. PICK text : text = <<c>> \o b
  OBVIOUS
<1>7. <<c>> \in Seq(Letters) /\ text \in Seq(Letters) /\ Len(text) = 1 + n
  <2>1. <<c>> \in Seq(Letters) /\ Len(<<c>>) = 1
    OBVIOUS
  <2>2. <<c>> \o b \in Seq(Letters) /\ Len(<<c>> \o b) = 1 + n
    BY <1>4, <1>5, <2>1
  <2> QED BY <1>6, <2>1, <2>2
<1>8. PICK line : line = p \o <<c>> \o b
  OBVIOUS
<1>9. line = p \o text /\ line \in Seq(Letters) /\ Len(line) = k + 1 + n
  <2>1. (p \o <<c>>) \o b = p \o (<<c>> \o b)
    BY <1>5, <1>7, ConcatAssociative
  <2>2. line = p \o text
    BY <1>6, <1>8, <2>1
  <2>3. p \o text \in Seq(Letters) /\ Len(p \o text) = Len(p) + Len(text)
    BY <1>5, <1>7
  <2>4. k + (1 + n) = k + 1 + n
    BY <1>4
  <2> QED BY <1>5, <1>7, <2>2, <2>3, <2>4
<1>10. line \in CommandLines
  <2>1. SHELL_MAX_INPUT_LENGTH \in Nat
    BY ShellAssumption DEF ShellAssumption
  <2>2. Len(line) <= SHELL_MAX_INPUT_LENGTH - 1
    BY <1>1, <1>4, <1>9, <2>1
  <2> QED BY <1>9, <2>2 DEF CommandLines
<1>11. k + 1 + n <= LineRoom
  BY <1>9, <1>10, LineIs
<1>12. /\ Shows(vga_puts(vga_puts(screen, text), Times(n, BACKSPACE)), SubSeq(p \o text, 1, k + 1))
       /\ vga_puts(screen, text \o Times(n, BACKSPACE)) =
            vga_puts(vga_puts(screen, text), Times(n, BACKSPACE))
  <2>1. p \in Seq(PlainChars) /\ text \in Seq(PlainChars)
    BY <1>5, <1>7, AsPut
  <2>2. PICK one \in Nat : one = 1
    OBVIOUS
  <2>3. Fit(p, text, k, one, n)
    BY <1>5, <1>7, <1>11, <2>2 DEF Fit
  <2>4. /\ Shows(vga_puts(vga_puts(screen, text), Times(n, BACKSPACE)), SubSeq(p \o text, 1, k + one))
        /\ vga_puts(screen, text \o Times(n, BACKSPACE)) =
             vga_puts(vga_puts(screen, text), Times(n, BACKSPACE))
    BY <1>4, <1>5, <2>1, <2>3, PutAndBack
  <2> QED BY <2>2, <2>4
<1>13. text \o Times(n, BACKSPACE) \in Seq(Puts)
  <2>1. text \in Seq(Puts) /\ Times(n, BACKSPACE) \in Seq(Puts)
    BY <1>4, <1>7, AsPut
  <2> QED BY <2>1
<1>14. k + 1 \in 0 .. Len(line)
  BY <1>4, <1>9
<1>15. Edited(line, k + 1, text \o Times(n, BACKSPACE))
  BY <1>1, <1>3, <1>4, <1>6, <1>8
<1>16. Shows(vga_puts(screen, text \o Times(n, BACKSPACE)), SubSeq(line, 1, k + 1))
  BY <1>9, <1>12
<1>17. history_current' \in {0} \cup EntryIds
  BY <1>1, <1>5
<1> QED BY <1>10, <1>13, <1>14, <1>15, <1>16, <1>17, EditedKeeps

\* A backspace in front of what the cursor is on.
LEMMA BackOne ==
  ASSUME ShellInv, Editing, cursor_pos > 0
  PROVE  /\ Shows(vga_puts(screen, <<BACKSPACE>>), SubSeq(input_buffer, 1, cursor_pos - 1))
         /\ vga_puts(screen, <<BACKSPACE>>) \in Screens /\ vga_puts(screen, <<BACKSPACE>>).buffer
         /\ <<BACKSPACE>> \in Seq(Puts)
<1>1. PICK p : p = SubSeq(input_buffer, 1, cursor_pos)
  OBVIOUS
<1>2. PICK k \in Nat : cursor_pos = k + 1
  <2>1. cursor_pos \in Nat
    BY LineParts
  <2>2. cursor_pos - 1 \in Nat /\ cursor_pos = (cursor_pos - 1) + 1
    BY <2>1
  <2> QED BY <2>2
<1>3. /\ input_buffer \in Seq(Letters) /\ k + 1 \in 0 .. Len(input_buffer)
      /\ p \in Seq(Letters) /\ Len(p) = k + 1 /\ Shows(screen, p)
      /\ screen \in Screens /\ screen.buffer
  BY <1>1, <1>2, LineParts
<1>4. <<BACKSPACE>> = Times(1, BACKSPACE) /\ <<BACKSPACE>> \in Seq(Puts)
  BY OnceIs, AsPut
<1>5. Shows(vga_puts(screen, Times(1, BACKSPACE)), SubSeq(p, 1, k))
  BY <1>3, ShowsBack
<1>6. SubSeq(p, 1, k) = SubSeq(input_buffer, 1, k)
  <2>1. k \in 0 .. Len(p) /\ k \in 0 .. Len(input_buffer)
    BY <1>2, <1>3
  <2>2. /\ SubSeq(p, 1, k) \in Seq(Letters) /\ Len(SubSeq(p, 1, k)) = k
        /\ \A i \in 1 .. k : SubSeq(p, 1, k)[i] = p[i]
    BY <1>3, <2>1, FirstOfText
  <2>3. /\ SubSeq(input_buffer, 1, k) \in Seq(Letters) /\ Len(SubSeq(input_buffer, 1, k)) = k
        /\ \A i \in 1 .. k : SubSeq(input_buffer, 1, k)[i] = input_buffer[i]
    BY <1>3, <2>1, FirstOfText
  <2>4. \A i \in 1 .. k + 1 : p[i] = input_buffer[i]
    <3>1. \A i \in 1 .. k + 1 : SubSeq(input_buffer, 1, k + 1)[i] = input_buffer[i]
      BY <1>3, FirstOfText
    <3> QED BY <1>1, <1>2, <3>1
  <2>5. \A i \in 1 .. k : SubSeq(p, 1, k)[i] = SubSeq(input_buffer, 1, k)[i]
    <3>1. \A i \in 1 .. k : i \in 1 .. k + 1
      BY <1>2
    <3> QED BY <2>2, <2>3, <2>4, <3>1
  <2> QED BY <2>2, <2>3, <2>5, SameText
<1>7. cursor_pos - 1 = k
  BY <1>2
<1> QED BY <1>3, <1>4, <1>5, <1>6, <1>7, PutsTyped

LEMMA DeleteKeeps == ShellInv /\ Delete => ShellInv'
<1> SUFFICES ASSUME ShellInv, Delete PROVE ShellInv'
  OBVIOUS
<1>1. /\ cursor_pos > 0
      /\ Edited(SubSeq(input_buffer, 1, cursor_pos - 1) \o Behind, cursor_pos - 1,
                <<BACKSPACE>> \o Behind \o <<Space>> \o Times(Len(Behind) + 1, BACKSPACE))
      /\ history_current' = history_current
  BY DEF Delete
<1>2. Editing
  BY <1>1 DEF Edited
<1>3. PICK k \in Nat, n \in Nat : cursor_pos = k + 1 /\ n = Len(Behind) /\ Len(input_buffer) = k + 1 + n
  <2>1. cursor_pos \in Nat /\ Len(Behind) \in Nat /\ Len(input_buffer) = cursor_pos + Len(Behind)
    BY <1>2, LineParts
  <2>2. cursor_pos - 1 \in Nat /\ cursor_pos = (cursor_pos - 1) + 1
    BY <1>1, <2>1
  <2> QED BY <2>1, <2>2
<1>4. PICK q, b : q = SubSeq(input_buffer, 1, cursor_pos - 1) /\ b = Behind
  OBVIOUS
<1>5. PICK s : s = vga_puts(screen, <<BACKSPACE>>)
  OBVIOUS
<1>6. /\ cursor_pos - 1 = k /\ screen \in Screens /\ s \in Screens /\ s.buffer /\ Shows(s, q)
      /\ <<BACKSPACE>> \in Seq(Puts)
      /\ b \in Seq(Letters) /\ Len(b) = n
      /\ input_buffer \in CommandLines /\ input_buffer \in Seq(Letters)
      /\ history_current \in {0} \cup EntryIds
  <2>1. cursor_pos - 1 = k
    BY <1>3
  <2> QED BY <1>1, <1>2, <1>3, <1>4, <1>5, <2>1, LineParts, BackOne
<1>7. q \in Seq(Letters) /\ Len(q) = k
  <2>1. k \in 0 .. Len(input_buffer)
    BY <1>3
  <2>2. SubSeq(input_buffer, 1, k) \in Seq(Letters) /\ Len(SubSeq(input_buffer, 1, k)) = k
    BY <1>6, <2>1, FirstOfText
  <2> QED BY <1>4, <1>6, <2>2
<1>8. PICK text : text = b \o <<Space>>
  OBVIOUS
<1>9. /\ b \in Seq(PlainChars) /\ b \in Seq(Puts) /\ q \in Seq(PlainChars)
      /\ <<Space>> \in Seq(PlainChars) /\ <<Space>> \in Seq(Puts)
      /\ text \in Seq(PlainChars) /\ text \in Seq(Puts) /\ Len(text) = 0 + (n + 1)
  <2>1. b \in Seq(PlainChars) /\ b \in Seq(Puts) /\ q \in Seq(PlainChars)
    BY <1>6, <1>7, AsPut
  <2>2. <<Space>> \in Seq(PlainChars) /\ <<Space>> \in Seq(Puts) /\ Len(<<Space>>) = 1
    BY LettersArePlain
  <2>3. b \o <<Space>> \in Seq(PlainChars) /\ Len(b \o <<Space>>) = n + 1
    BY <1>3, <1>6, <2>1, <2>2
  <2>4. text \in Seq(Puts)
    BY <1>8, <2>3, AsPut
  <2> QED BY <1>3, <1>8, <2>1, <2>2, <2>3, <2>4
<1>10. PICK m \in Nat : m = n + 1
  <2>1. n + 1 \in Nat
    OBVIOUS
  <2> QED BY <2>1
<1>11. Len(text) = 0 + m /\ k + 0 + m <= LineRoom
  <2>1. Len(input_buffer) <= LineRoom
    BY <1>6, LineIs
  <2>2. LineRoom \in Nat
    BY Sizes1 DEF LineRoom
  <2> QED BY <1>3, <1>9, <1>10, <2>1, <2>2
<1>12. PICK back : back = Times(m, BACKSPACE)
  OBVIOUS
<1>13. /\ Shows(vga_puts(vga_puts(s, text), back), SubSeq(q \o text, 1, k + 0))
       /\ vga_puts(s, text \o back) = vga_puts(vga_puts(s, text), back)
  <2>1. /\ Shows(vga_puts(vga_puts(s, text), Times(m, BACKSPACE)), SubSeq(q \o text, 1, k + 0))
        /\ vga_puts(s, text \o Times(m, BACKSPACE)) =
             vga_puts(vga_puts(s, text), Times(m, BACKSPACE))
    <3>1. PICK none \in Nat : none = 0
      OBVIOUS
    <3>2. Fit(q, text, k, none, m)
      BY <1>7, <1>11, <3>1 DEF Fit
    <3>3. text \in Seq(PlainChars) /\ q \in Seq(PlainChars) /\ Len(q) = k /\ k \in Nat /\ m \in Nat
      BY <1>3, <1>7, <1>9, <1>10
    <3>4. /\ Shows(vga_puts(vga_puts(s, text), Times(m, BACKSPACE)), SubSeq(q \o text, 1, k + none))
          /\ vga_puts(s, text \o Times(m, BACKSPACE)) =
               vga_puts(vga_puts(s, text), Times(m, BACKSPACE))
      BY <1>6, <3>2, <3>3, PutAndBack
    <3> QED BY <3>1, <3>4
  <2> QED BY <1>12, <2>1
<1>14. back \in Seq(Puts)
  BY <1>10, <1>12, AsPut
<1>15. PICK all : all = <<BACKSPACE>> \o b \o <<Space>> \o back
  OBVIOUS
<1>16. all = <<BACKSPACE>> \o (text \o back) /\ all \in Seq(Puts) /\ text \o back \in Seq(Puts)
  <2>1. (<<BACKSPACE>> \o b) \o <<Space>> = <<BACKSPACE>> \o (b \o <<Space>>)
    BY <1>6, <1>9, ConcatAssociative
  <2>2. (<<BACKSPACE>> \o text) \o back = <<BACKSPACE>> \o (text \o back)
    BY <1>6, <1>9, <1>14, ConcatAssociative
  <2>3. text \o back \in Seq(Puts)
    BY <1>9, <1>14
  <2>4. <<BACKSPACE>> \o (text \o back) \in Seq(Puts)
    BY <1>6, <2>3
  <2> QED BY <1>8, <1>15, <2>1, <2>2, <2>3, <2>4
<1>17. vga_puts(screen, all) = vga_puts(vga_puts(s, text), back)
  <2>1. vga_puts(screen, <<BACKSPACE>> \o (text \o back)) = vga_puts(s, text \o back)
    BY <1>5, <1>6, <1>16, PutsParts
  <2> QED BY <1>13, <1>16, <2>1
<1>18. PICK line : line = q \o b
  OBVIOUS
<1>19. line \in Seq(Letters) /\ Len(line) = k + n
  <2>1. q \o b \in Seq(Letters) /\ Len(q \o b) = k + n
    BY <1>3, <1>6, <1>7
  <2> QED BY <1>18, <2>1
<1>20. line \in CommandLines
  <2>1. SHELL_MAX_INPUT_LENGTH \in Nat /\ Len(input_buffer) <= SHELL_MAX_INPUT_LENGTH - 1
    BY <1>6, ShellAssumption DEF ShellAssumption, CommandLines
  <2>2. Len(line) <= SHELL_MAX_INPUT_LENGTH - 1
    BY <1>3, <1>19, <2>1
  <2> QED BY <1>19, <2>2 DEF CommandLines
<1>21. SubSeq(q \o text, 1, k) = q /\ SubSeq(line, 1, k) = q
  <2>1. SubSeq(q \o text, 1, k) = q
    BY <1>3, <1>7, <1>9, FirstOfTwo
  <2>2. SubSeq(q \o b, 1, k) = q
    BY <1>3, <1>6, <1>7, FirstOfTwo
  <2> QED BY <1>18, <2>1, <2>2
<1>22. Shows(vga_puts(screen, all), SubSeq(line, 1, k))
  <2>1. k + 0 = k
    OBVIOUS
  <2> QED BY <1>13, <1>17, <1>21, <2>1
<1>23. Edited(line, k, all)
  BY <1>1, <1>3, <1>4, <1>6, <1>10, <1>12, <1>15, <1>18
<1>24. k \in 0 .. Len(line) /\ history_current' \in {0} \cup EntryIds
  BY <1>1, <1>3, <1>6, <1>19
<1> QED BY <1>16, <1>20, <1>22, <1>23, <1>24, EditedKeeps

LEMMA LeftKeeps == ShellInv /\ Left => ShellInv'
<1> SUFFICES ASSUME ShellInv, Left PROVE ShellInv'
  OBVIOUS
<1>1. /\ cursor_pos > 0 /\ Edited(input_buffer, cursor_pos - 1, <<BACKSPACE>>)
      /\ history_current' = history_current
  BY DEF Left
<1>2. Editing
  BY <1>1 DEF Edited
<1>3. /\ input_buffer \in CommandLines /\ cursor_pos - 1 \in 0 .. Len(input_buffer)
      /\ history_current \in {0} \cup EntryIds
  BY <1>1, <1>2, LineParts
<1>4. /\ Shows(vga_puts(screen, <<BACKSPACE>>), SubSeq(input_buffer, 1, cursor_pos - 1))
      /\ <<BACKSPACE>> \in Seq(Puts)
  BY <1>1, <1>2, BackOne
<1> QED BY <1>1, <1>3, <1>4, EditedKeeps

LEMMA RightKeeps == ShellInv /\ Right => ShellInv'
<1> SUFFICES ASSUME ShellInv, Right PROVE ShellInv'
  OBVIOUS
<1>1. /\ cursor_pos < Len(input_buffer)
      /\ Edited(input_buffer, cursor_pos + 1, <<input_buffer[cursor_pos + 1]>>)
      /\ history_current' = history_current
  BY DEF Right
<1>2. Editing
  BY <1>1 DEF Edited
<1>3. PICK p : p = SubSeq(input_buffer, 1, cursor_pos)
  OBVIOUS
<1>4. PICK k \in Nat : k = cursor_pos
  BY <1>2, LineParts
<1>5. /\ input_buffer \in CommandLines /\ input_buffer \in Seq(Letters)
      /\ Len(input_buffer) \in Nat /\ Len(input_buffer) <= LineRoom /\ k < Len(input_buffer)
      /\ p \in Seq(Letters) /\ Len(p) = k /\ Shows(screen, p)
      /\ screen \in Screens /\ screen.buffer /\ history_current \in {0} \cup EntryIds
  BY <1>1, <1>2, <1>3, <1>4, LineParts
<1>6. k + 1 \in 1 .. Len(input_buffer) /\ k + 1 \in 0 .. Len(input_buffer)
  BY <1>4, <1>5
<1>7. PICK c \in Letters : c = input_buffer[k + 1]
  BY <1>5, <1>6
<1>8. <<c>> \in Seq(Letters) /\ Len(<<c>>) = 1
  OBVIOUS
<1>9. <<c>> \in Seq(PlainChars) /\ <<c>> \in Seq(Puts)
  BY <1>8, AsPut
<1>10. Shows(vga_puts(screen, <<c>>), p \o <<c>>)
  <2>1. Len(p) + Len(<<c>>) <= LineRoom
    <3>1. LineRoom \in Nat
      BY Sizes1 DEF LineRoom
    <3> QED BY <1>4, <1>5, <1>8, <3>1
  <2> QED BY <1>5, <1>9, <2>1, ShowsText
<1>11. p \o <<c>> = SubSeq(input_buffer, 1, k + 1)
  <2>1. 1 \in 1 .. Len(input_buffer) /\ (k + 1) - 1 = k
    BY <1>4, <1>5
  <2>2. SubSeq(input_buffer, 1, k + 1) = SubSeq(input_buffer, 1, (k + 1) - 1) \o <<input_buffer[k + 1]>>
    BY <1>5, <1>6, <2>1, SubSeqRecursiveSecond
  <2> QED BY <1>3, <1>4, <1>7, <2>1, <2>2
<1>12. Edited(input_buffer, k + 1, <<c>>) /\ history_current' \in {0} \cup EntryIds
  BY <1>1, <1>4, <1>5, <1>7
<1> QED BY <1>5, <1>6, <1>9, <1>10, <1>11, <1>12, EditedKeeps

LEMMA IgnoredKeeps == ShellInv /\ Ignored => ShellInv'
<1> SUFFICES ASSUME ShellInv, Ignored PROVE ShellInv'
  OBVIOUS
<1>1. Edited(input_buffer, cursor_pos, <<>>) /\ history_current' = history_current
  BY DEF Ignored
<1>2. Editing
  BY <1>1 DEF Edited
<1>3. /\ input_buffer \in CommandLines /\ cursor_pos \in 0 .. Len(input_buffer)
      /\ history_current \in {0} \cup EntryIds
      /\ screen \in Screens /\ Shows(screen, SubSeq(input_buffer, 1, cursor_pos))
  BY <1>2, LineParts
<1>4. <<>> \in Seq(Puts) /\ vga_puts(screen, <<>>) = screen
  <2>1. <<>> \in [1 .. 0 -> Puts] /\ <<>> \in Seq(Puts) /\ 0 \in Nat
    OBVIOUS
  <2>2. PICK h : IsScreens(h, screen, <<>>, 0) /\ h[0] = vga_puts(screen, <<>>)
    BY <1>3, <2>1, PutsAre
  <2> QED BY <2>1, <2>2 DEF IsScreens
<1> QED BY <1>1, <1>3, <1>4, EditedKeeps
-----------------------------------------------------------------------------
(* The keys that fetch a line from the history.                            *)

\* The line is wiped off the screen and another one put in its place.
LEMMA WipedAndPut ==
  ASSUME ShellInv, Editing, NEW line \in CommandLines, NEW n \in Nat, n = Len(input_buffer),
         NEW text,
         text = Times(cursor_pos, BACKSPACE) \o Times(n, Space) \o Times(n, BACKSPACE) \o line
  PROVE  text \in Seq(Puts) /\ Shows(vga_puts(screen, text), line)
<1>1. PICK k \in Nat : k = cursor_pos
  BY LineParts
<1>2. PICK p : p = SubSeq(input_buffer, 1, cursor_pos)
  OBVIOUS
<1>3. /\ p \in Seq(Letters) /\ Len(p) = k /\ Shows(screen, p)
      /\ screen \in Screens /\ screen.buffer /\ n <= LineRoom /\ LineRoom \in Nat
  BY <1>1, <1>2, LineParts, Sizes1 DEF LineRoom
<1>4. PICK a, b, c : a = Times(k, BACKSPACE) /\ b = Times(n, Space) /\ c = Times(n, BACKSPACE)
  OBVIOUS
<1>5. /\ a \in Seq(Puts) /\ b \in Seq(PlainChars) /\ b \in Seq(Puts) /\ c \in Seq(Puts)
      /\ Len(b) = n
      /\ line \in Seq(Puts) /\ line \in Seq(PlainChars) /\ Len(line) <= LineRoom
      /\ line \in Seq(Glyphs) /\ Len(line) \in Nat
  <2>1. a \in Seq(Puts) /\ c \in Seq(Puts)
    BY <1>1, <1>4, AsPut
  <2>2. b \in Seq(PlainChars) /\ Len(b) = n
    BY <1>4, LettersArePlain, ManyTimes
  <2>3. b \in Seq(Puts)
    BY <2>2, AsPut
  <2> QED BY <2>1, <2>2, <2>3, LineIs
<1>6. PICK s1 : s1 = vga_puts(screen, a)
  OBVIOUS
<1>7. s1 \in Screens /\ s1.buffer /\ Shows(s1, <<>>)
  <2>1. s1 \in Screens /\ s1.buffer
    BY <1>3, <1>5, <1>6, PutsTyped
  <2>2. PICK none \in Nat : none = 0
    OBVIOUS
  <2>3. Len(p) = none + k
    BY <1>3, <2>2
  <2>4. Shows(vga_puts(screen, Times(k, BACKSPACE)), SubSeq(p, 1, none))
    BY <1>1, <1>3, <2>3, ShowsBack
  <2>5. SubSeq(p, 1, none) = <<>>
    BY <1>3, <2>2, SubSeqEmpty
  <2> QED BY <1>4, <1>6, <2>1, <2>4, <2>5
<1>8. PICK s2 : s2 = vga_puts(s1, b)
  OBVIOUS
<1>9. s2 \in Screens /\ s2.buffer /\ Shows(s2, b)
  <2>1. s2 \in Screens /\ s2.buffer
    BY <1>5, <1>7, <1>8, PutsTyped
  <2>2. Len(<<>>) + Len(b) <= LineRoom
    BY <1>3, <1>5
  <2>3. Shows(s2, <<>> \o b)
    BY <1>5, <1>7, <1>8, <2>2, ShowsText
  <2>4. <<>> \o b = b
    BY <1>5
  <2> QED BY <2>1, <2>3, <2>4
<1>10. PICK s3 : s3 = vga_puts(s2, c)
  OBVIOUS
<1>11. s3 \in Screens /\ s3.buffer /\ Shows(s3, <<>>)
  <2>1. s3 \in Screens /\ s3.buffer
    BY <1>5, <1>9, <1>10, PutsTyped
  <2>2. PICK none \in Nat : none = 0
    OBVIOUS
  <2>3. Len(b) = none + n
    BY <1>5, <2>2
  <2>4. Shows(vga_puts(s2, Times(n, BACKSPACE)), SubSeq(b, 1, none))
    BY <1>9, <2>3, ShowsBack
  <2>5. SubSeq(b, 1, none) = <<>>
    BY <1>5, <2>2, SubSeqEmpty
  <2> QED BY <1>4, <1>10, <2>1, <2>4, <2>5
<1>12. Shows(vga_puts(s3, line), line)
  <2>1. Len(<<>>) + Len(line) <= LineRoom
    BY <1>5
  <2>2. Shows(vga_puts(s3, line), <<>> \o line)
    BY <1>5, <1>11, <2>1, ShowsText
  <2>3. <<>> \o line = line
    BY <1>5
  <2> QED BY <2>2, <2>3
<1>13. text = ((a \o b) \o c) \o line
  BY <1>1, <1>4
<1>14. a \o b \in Seq(Puts) /\ (a \o b) \o c \in Seq(Puts) /\ text \in Seq(Puts)
  <2>1. a \o b \in Seq(Puts)
    BY <1>5
  <2>2. (a \o b) \o c \in Seq(Puts)
    BY <1>5, <2>1
  <2> QED BY <1>5, <1>13, <2>1, <2>2
<1>15. vga_puts(screen, text) = vga_puts(s3, line)
  <2>1. vga_puts(screen, a \o b) = s2
    BY <1>3, <1>5, <1>6, <1>8, PutsParts
  <2>2. vga_puts(screen, (a \o b) \o c) = s3
    BY <1>3, <1>5, <1>10, <1>14, <2>1, PutsParts
  <2>3. PICK v \in Seq(Puts) : v = (a \o b) \o c
    BY <1>14
  <2>4. vga_puts(screen, v \o line) = vga_puts(vga_puts(screen, v), line)
    BY <1>3, <1>5, PutsParts
  <2> QED BY <1>13, <2>2, <2>3, <2>4
<1> QED BY <1>12, <1>14, <1>15

\* An entry of the history, and its line.
LEMMA EntryLine ==
  ASSUME ShellInv, NEW target \in {0} \cup EntryIds
  PROVE  (IF target = 0 THEN <<>> ELSE history[Position(target)].command) \in CommandLines
<1>1. CASE target = 0
  <2>1. <<>> \in Seq(Letters) /\ Len(<<>>) = 0
    OBVIOUS
  <2>2. 0 <= SHELL_MAX_INPUT_LENGTH - 1
    BY ShellAssumption DEF ShellAssumption
  <2> QED BY <1>1, <2>1, <2>2 DEF CommandLines
<1>2. CASE target # 0
  <2>1. \E i \in DOMAIN history : history[i].id = target
    BY <1>2 DEF EntryIds
  <2>2. Position(target) \in DOMAIN history
    BY <2>1 DEF Position
  <2>3. PICK ids : history \in Seq(EntriesOf(ids))
    BY DEF ShellInv, HistoryReady
  <2>4. PICK at \in DOMAIN history : at = Position(target)
    BY <2>2
  <2>5. history[at] \in EntriesOf(ids)
    BY <2>3
  <2>6. history[at].command \in CommandLines
    BY <2>5 DEF EntriesOf
  <2> QED BY <1>2, <2>4, <2>6
<1> QED BY <1>1, <1>2

\* Both keys move to an entry there is, or to none.
LEMMA Neighbours ==
  ASSUME ShellInv, Editing, history # <<>>
  PROVE  Older \in EntryIds /\ Newer \in {0} \cup EntryIds
<1>1. PICK n \in Nat : n = Len(history) /\ DOMAIN history = 1 .. n /\ n > 0
  <2>1. PICK ids : history \in Seq(EntriesOf(ids))
    BY DEF ShellInv, HistoryReady
  <2>2. Len(history) \in Nat /\ DOMAIN history = 1 .. Len(history) /\ Len(history) > 0
    BY <2>1
  <2> QED BY <2>2
<1>2. \A i \in 1 .. n : history[i].id \in EntryIds
  BY <1>1 DEF EntryIds
<1>3. history_current \in {0} \cup EntryIds
  BY LineParts
<1>4. CASE history_current = 0
  <2>1. Older = history[n].id /\ Newer = 0
    BY <1>1, <1>4 DEF Older, Newer, Last
  <2> QED BY <1>1, <1>2, <2>1
<1>5. CASE history_current # 0
  <2>1. \E i \in DOMAIN history : history[i].id = history_current
    BY <1>3, <1>5 DEF EntryIds
  <2>2. Position(history_current) \in 1 .. n
    BY <1>1, <2>1 DEF Position
  <2>3. PICK i \in 1 .. n : i = Position(history_current)
    BY <2>2
  <2>4. Max({i - 1, 1}) \in 1 .. n
    <3>1. {i - 1, 1} \in SUBSET (0 .. n) /\ {i - 1, 1} # {}
      BY <1>1
    <3>2. Max({i - 1, 1}) \in {i - 1, 1} /\ \A y \in {i - 1, 1} : y <= Max({i - 1, 1})
      BY <1>1, <3>1, GreatestIn
    <3>3. PICK m : m = Max({i - 1, 1})
      OBVIOUS
    <3>4. m \in {i - 1, 1} /\ 1 <= m
      BY <3>2, <3>3
    <3>5. m \in 1 .. n
      BY <1>1, <3>4
    <3> QED BY <3>3, <3>5
  <2>5. Older \in EntryIds
    BY <1>2, <1>5, <2>3, <2>4 DEF Older
  <2>6. Newer \in {0} \cup EntryIds
    <3>1. CASE i = n
      BY <1>1, <2>3, <3>1 DEF Newer
    <3>2. CASE i # n
      <4>1. i + 1 \in 1 .. n
        BY <1>1, <3>2
      <4>2. Newer = history[i + 1].id
        BY <1>1, <1>5, <2>3, <3>2 DEF Newer
      <4> QED BY <1>2, <4>1, <4>2
    <3> QED BY <3>1, <3>2
  <2> QED BY <2>5, <2>6
<1> QED BY <1>4, <1>5

LEMMA NavigateKeeps ==
  ASSUME ShellInv, Editing, NEW target \in {0} \cup EntryIds, shell_navigate_history(target)
  PROVE  ShellInv'
<1>1. PICK line : line = IF target = 0 THEN <<>> ELSE history[Position(target)].command
  OBVIOUS
<1>2. PICK n \in Nat : n = Len(input_buffer)
  BY LineParts
<1>3. PICK text :
        text = Times(cursor_pos, BACKSPACE) \o Times(n, Space) \o Times(n, BACKSPACE) \o line
  OBVIOUS
<1>4. history_current' = target /\ Edited(line, Len(line), text)
  BY <1>1, <1>2, <1>3 DEF shell_navigate_history
<1>5. line \in CommandLines
  BY <1>1, EntryLine
<1>6. text \in Seq(Puts) /\ Shows(vga_puts(screen, text), line)
  BY <1>2, <1>3, <1>5, WipedAndPut
<1>7. SubSeq(line, 1, Len(line)) = line /\ Len(line) \in 0 .. Len(line)
  <2>1. line \in Seq(Letters) /\ Len(line) \in Nat
    BY <1>5, LineIs
  <2> QED BY <2>1, SubSeqFull
<1> QED BY <1>4, <1>5, <1>6, <1>7, EditedKeeps

LEMMA HistoryKeysKeep == ShellInv /\ (Up \/ Down) => ShellInv'
<1> SUFFICES ASSUME ShellInv, Up \/ Down PROVE ShellInv'
  OBVIOUS
<1>1. CASE Up
  <2>1. Editing /\ history # <<>> /\ shell_navigate_history(Older)
    BY <1>1 DEF Up
  <2>2. PICK target : target = Older
    OBVIOUS
  <2>3. target \in {0} \cup EntryIds /\ shell_navigate_history(target)
    BY <2>1, <2>2, Neighbours
  <2> QED BY <2>1, <2>3, NavigateKeeps
<1>2. CASE Down
  <2>1. Editing /\ history # <<>> /\ shell_navigate_history(Newer)
    BY <1>2 DEF Down
  <2>2. PICK target : target = Newer
    OBVIOUS
  <2>3. target \in {0} \cup EntryIds /\ shell_navigate_history(target)
    BY <2>1, <2>2, Neighbours
  <2> QED BY <2>1, <2>3, NavigateKeeps
<1> QED BY <1>1, <1>2
-----------------------------------------------------------------------------
(* Lines that are entered.                                                 *)

\* A new line, whatever was printed in front of it.
LEMMA FreshKeeps ==
  ASSUME ShellInv, NEW status, NEW text \in Seq(Puts), FreshLine(status, text),
         HistoryReady', page' \in Nat
  PROVE  ShellInv'
<1>1. PICK prompt : prompt = IF running' THEN PromptText(status) ELSE <<>>
  OBVIOUS
<1>2. /\ input_buffer' = <<>> /\ cursor_pos' = 0 /\ history_current' = 0
      /\ screen' = vga_puts(screen, text \o prompt)
  BY <1>1 DEF FreshLine
<1>3. prompt \in Seq(Puts)
  <2>1. Prompt \in Seq(Puts)
    BY ShellAssumption, LettersArePlain DEF ShellAssumption
  <2>2. <<"!">> \in Seq(Puts) /\ <<>> \in Seq(Puts)
    <3>1. "!" \in Puts
      BY DEF Puts, Glyphs
    <3> HIDE DEF Puts
    <3> QED BY <3>1
  <2>3. PromptText(status) \in Seq(Puts)
    <3>1. PICK mark \in Seq(Puts) : mark = IF status = 0 THEN <<>> ELSE <<"!">>
      BY <2>2
    <3>2. mark \o Prompt \in Seq(Puts)
      BY <2>1
    <3> QED BY <3>1, <3>2 DEF PromptText
  <2> QED BY <1>1, <2>2, <2>3
<1>4. text \o prompt \in Seq(Puts)
  BY <1>3
<1>5. ScreenReady'
  BY <1>2, <1>4, PutsTyped DEF ShellInv, ScreenReady
<1>6. <<>> \in Seq(Letters) /\ <<>> \in CommandLines
  <2>1. <<>> \in Seq(Letters) /\ Len(<<>>) = 0
    OBVIOUS
  <2>2. 0 <= SHELL_MAX_INPUT_LENGTH - 1
    BY ShellAssumption DEF ShellAssumption
  <2> QED BY <2>1, <2>2 DEF CommandLines
<1>7. LineReady'
  BY <1>2, <1>6 DEF LineReady
<1>8. LineShown'
  <2>1. SubSeq(<<>>, 1, 0) = <<>>
    BY SubSeqEmpty
  <2>2. Place(screen') \in Nat
    BY <1>5, PlaceNumbers DEF ScreenReady
  <2>3. <<>> \in Seq(Glyphs) /\ Len(<<>>) = 0 /\ 1 .. 0 = {}
    OBVIOUS
  <2>4. Shows(screen', <<>>)
    BY <2>2, <2>3 DEF Shows
  <2> QED BY <1>2, <2>1, <2>4 DEF LineShown
<1> QED BY <1>5, <1>7, <1>8 DEF ShellInv

\* A line that is entered is the latest of both the history and the lines, once.
LEMMA EnterHistory == ShellInv /\ Enter => HistoryReady'
<1> SUFFICES ASSUME ShellInv, Enter PROVE HistoryReady'
  OBVIOUS
<1>1. /\ history' = shell_add_to_history(input_buffer)
      /\ entered' = IF input_buffer = <<>> \/ (entered # <<>> /\ Last(entered) = input_buffer)
                    THEN entered ELSE Append(entered, input_buffer)
  BY DEF Enter
<1>2. PICK ids : history \in Seq(EntriesOf(ids))
  BY DEF ShellInv, HistoryReady
<1>3. entered \in Seq(CommandLines) /\ input_buffer \in CommandLines /\ Aligned(history, entered)
  BY <1>2, RecentIs DEF ShellInv, HistoryReady, LineReady
<1>4. PICK n \in Nat, l \in Nat, size \in Nat \ {0} :
        n = Len(history) /\ l = Len(entered) /\ size = SHELL_HISTORY_SIZE
  <2>1. SHELL_HISTORY_SIZE \in Nat \ {0}
    BY ShellAssumption DEF ShellAssumption
  <2>2. Len(history) \in Nat /\ Len(entered) \in Nat
    BY <1>2, <1>3
  <2> QED BY <2>1, <2>2
<1>5. /\ n = IF l < size THEN l ELSE size
      /\ \A i \in 1 .. n : history[i].command = entered[l - n + i]
  BY <1>3, <1>4 DEF Aligned
<1>6. history # <<>> <=> entered # <<>>
  <2>1. history # <<>> <=> n > 0
    BY <1>2, <1>4
  <2>2. entered # <<>> <=> l > 0
    BY <1>3, <1>4
  <2> QED BY <1>4, <1>5, <2>1, <2>2
<1>7. history # <<>> => Last(history).command = Last(entered)
  <2>1. ASSUME history # <<>> PROVE n \in 1 .. n /\ l - n + n = l
    BY <1>2, <1>4, <2>1
  <2> QED BY <1>4, <1>5, <2>1 DEF Last
<1> DEFINE Already == input_buffer = <<>> \/ (entered # <<>> /\ Last(entered) = input_buffer)
<1>8. CASE Already
  <2>1. history' = history /\ entered' = entered
    BY <1>1, <1>6, <1>7, <1>8 DEF shell_add_to_history
  <2> QED BY <2>1 DEF ShellInv, HistoryReady
<1>9. CASE ~Already
  <2>1. PICK entry : entry = [id |-> FreshEntry, command |-> input_buffer]
    OBVIOUS
  <2>2. /\ history' = Append(Forget(history), entry)
        /\ entered' = Append(entered, input_buffer)
    BY <1>1, <1>6, <1>7, <1>9, <2>1 DEF shell_add_to_history
  <2>3. PICK wider : wider = ids \cup {FreshEntry}
    OBVIOUS
  <2>4. history \in Seq(EntriesOf(wider)) /\ entry \in EntriesOf(wider) /\ entry.command = input_buffer
    <3>1. EntriesOf(ids) \subseteq EntriesOf(wider)
      BY <2>3 DEF EntriesOf
    <3>2. history \in Seq(EntriesOf(wider))
      BY <1>2, <3>1, TextsWiden
    <3> QED BY <1>3, <2>1, <2>3, <3>2 DEF EntriesOf
  <2>5. /\ Append(Forget(history), entry) \in Seq(EntriesOf(wider))
        /\ Append(entered, input_buffer) \in Seq(CommandLines)
        /\ Aligned(Append(Forget(history), entry), Append(entered, input_buffer))
    BY <1>3, <2>4, AlignedGrows
  <2>6. Recent(history', entered')
    BY <2>2, <2>5, RecentIs
  <2> QED BY <2>2, <2>5, <2>6 DEF HistoryReady
<1> QED BY <1>8, <1>9

\* What a line that is executed prints in front of the next prompt.
LEMMA TextsPrinted ==
  /\ <<NEWLINE>> \in Seq(Puts) /\ PageText \in Seq(Puts)
  /\ <<NEWLINE>> \o PageText \in Seq(Puts) /\ <<NEWLINE>> \o NotFound \in Seq(Puts)
  /\ \A out \in Outputs : <<NEWLINE>> \o out \in Seq(Puts)
<1>1. <<NEWLINE>> \in Seq(Puts) /\ PageText \in Seq(Puts)
  BY TitleTyped DEF PageText
<1>2. NotFound \in Seq(Puts)
  <2>1. "?" \in Puts /\ NEWLINE \in Puts
    BY DEF Puts, Glyphs
  <2> HIDE DEF Puts
  <2> QED BY <2>1 DEF NotFound
<1>3. \A out \in Outputs : out \in Seq(Puts)
  BY ShellAssumption, LettersArePlain DEF ShellAssumption
<1>4. \A out \in Seq(Puts) : <<NEWLINE>> \o out \in Seq(Puts)
  BY <1>1
<1> QED BY <1>1, <1>2, <1>3, <1>4

LEMMA EnterKeeps == ShellInv /\ Enter => ShellInv'
<1> SUFFICES ASSUME ShellInv, Enter PROVE ShellInv'
  OBVIOUS
<1>1. HistoryReady'
  BY EnterHistory
<1>2. /\ page' = IF argv' # <<>> /\ argv'[1] = HelpName THEN 1 ELSE 0
      /\ IF argv' = <<>> THEN FreshLine(last_exit_status, <<NEWLINE>>) ELSE shell_execute
  BY DEF Enter
<1>3. page' \in Nat
  BY <1>2
<1>4. CASE argv' = <<>>
  <2>1. FreshLine(last_exit_status, <<NEWLINE>>)
    BY <1>2, <1>4
  <2> QED BY <1>1, <1>3, <2>1, TextsPrinted, FreshKeeps
<1>5. CASE argv' # <<>>
  <2>1. shell_execute
    BY <1>2, <1>5
  <2>2. CASE argv'[1] \in Commands \cup {ExitName} /\
             \E out \in Outputs, status \in {0, 1} : FreshLine(status, <<NEWLINE>> \o out)
    <3>1. PICK out \in Outputs, status \in {0, 1} : FreshLine(status, <<NEWLINE>> \o out)
      BY <2>2
    <3>2. PICK text : text = <<NEWLINE>> \o out
      OBVIOUS
    <3>3. text \in Seq(Puts) /\ FreshLine(status, text)
      BY <3>1, <3>2, TextsPrinted
    <3> QED BY <1>1, <1>3, <3>3, FreshKeeps
  <2>3. CASE FreshLine(0, <<NEWLINE>> \o history_main(history'))
    <3>1. PICK ids : history' \in Seq(EntriesOf(ids))
      BY <1>1 DEF HistoryReady
    <3>2. history_main(history') \in Seq(Puts)
      BY <3>1, HistoryTyped
    <3>3. PICK text : text = <<NEWLINE>> \o history_main(history')
      OBVIOUS
    <3>4. text \in Seq(Puts) /\ FreshLine(0, text)
      BY <2>3, <3>2, <3>3, TextsPrinted
    <3> QED BY <1>1, <1>3, <3>4, FreshKeeps
  <2>4. CASE /\ argv'[1] = HelpName
             /\ screen' = vga_puts(screen, <<NEWLINE>> \o PageText)
             /\ UNCHANGED <<input_buffer, cursor_pos, history_current, last_exit_status>>
    <3>1. page' = 1
      BY <1>2, <1>5, <2>4
    <3>2. ~Editing'
      BY <3>1 DEF Editing
    <3>3. ScreenReady'
      <4>1. screen' = vga_puts(screen, <<NEWLINE>> \o PageText)
        BY <2>4
      <4> QED BY <4>1, TextsPrinted, PutsTyped DEF ShellInv, ScreenReady
    <3>4. LineReady'
      BY <1>3, <2>4 DEF ShellInv, LineReady
    <3> QED BY <1>1, <3>2, <3>3, <3>4 DEF ShellInv, LineShown
  <2>5. CASE FreshLine(127, <<NEWLINE>> \o NotFound)
    <3>1. PICK text : text = <<NEWLINE>> \o NotFound
      OBVIOUS
    <3>2. text \in Seq(Puts) /\ FreshLine(127, text)
      BY <2>5, <3>1, TextsPrinted
    <3> QED BY <1>1, <1>3, <3>2, FreshKeeps
  <2> QED BY <2>1, <2>2, <2>3, <2>4, <2>5 DEF shell_execute
<1> QED BY <1>4, <1>5

\* The pages of the help, and the way out of it.
LEMMA HelpKeeps == ShellInv /\ (HelpMoves \/ HelpQuits) => ShellInv'
<1> SUFFICES ASSUME ShellInv, HelpMoves \/ HelpQuits PROVE ShellInv'
  OBVIOUS
<1>1. ASSUME NEW next \in Nat, next > 0, NEW cleared, help_key(next, cleared)
      PROVE  ShellInv'
  <2>1. /\ page' = next /\ screen' = vga_puts(IF cleared THEN vga_clear(screen) ELSE screen, PageText)
        /\ UNCHANGED <<input_buffer, cursor_pos, history_current, history, entered>>
    BY <1>1 DEF help_key
  <2>2. PICK s : s = IF cleared THEN vga_clear(screen) ELSE screen
    OBVIOUS
  <2>3. s \in Screens /\ s.buffer
    BY <2>2, ClearIs DEF ShellInv, ScreenReady
  <2>4. ScreenReady'
    BY <2>1, <2>2, <2>3, TextsPrinted, PutsTyped DEF ScreenReady
  <2>5. LineReady'
    BY <2>1 DEF ShellInv, LineReady
  <2>6. HistoryReady'
    BY <2>1 DEF ShellInv, HistoryReady
  <2>7. ~Editing'
    <3>1. page' # 0
      BY <1>1, <2>1
    <3> QED BY <3>1 DEF Editing
  <2> QED BY <2>4, <2>5, <2>6, <2>7 DEF ShellInv, LineShown
<1>2. page \in Nat
  BY DEF ShellInv, LineReady
<1>3. CASE HelpMoves
  <2>1. page > 0
    BY <1>3 DEF HelpMoves, help_key
  <2>2. PICK up, down : /\ up = (IF page < HelpPages THEN page + 1 ELSE page)
                        /\ down = (IF page > 1 THEN page - 1 ELSE page)
    OBVIOUS
  <2>3. up \in Nat /\ up > 0 /\ down \in Nat /\ down > 0
    BY <1>2, <2>1, <2>2
  <2>4. help_key(up, page < HelpPages) \/ help_key(down, page > 1)
    BY <1>3, <2>2 DEF HelpMoves
  <2> QED BY <1>1, <2>3, <2>4
<1>4. CASE HelpQuits
  <2>1. page' = 0 /\ history' = history /\ entered' = entered /\ FreshLine(0, <<NEWLINE>>)
    BY <1>4 DEF HelpQuits
  <2>2. HistoryReady'
    BY <2>1 DEF ShellInv, HistoryReady
  <2>3. page' \in Nat
    BY <2>1
  <2> QED BY <2>1, <2>2, <2>3, TextsPrinted, FreshKeeps
<1> QED BY <1>3, <1>4

-----------------------------------------------------------------------------
(* The shell.                                                              *)

LEMMA ShellStarts == ShellInit => ShellInv
<1> SUFFICES ASSUME ShellInit PROVE ShellInv
  OBVIOUS
<1>1. /\ screen = vga_puts([NoScreen EXCEPT !.buffer = TRUE], PromptText(0))
      /\ input_buffer = <<>> /\ cursor_pos = 0 /\ history = <<>> /\ history_current = 0
      /\ page = 0 /\ entered = <<>>
  BY DEF ShellInit
<1>2. PICK s : s = [NoScreen EXCEPT !.buffer = TRUE]
  OBVIOUS
<1>3. s \in Screens /\ s.buffer
  BY <1>2, FirstScreen DEF Screens
<1>4. PromptText(0) \in Seq(Puts)
  <2>1. Prompt \in Seq(Puts)
    BY ShellAssumption, LettersArePlain DEF ShellAssumption
  <2>2. <<>> \o Prompt = Prompt
    BY <2>1
  <2> QED BY <2>1, <2>2 DEF PromptText
<1>5. ScreenReady
  BY <1>1, <1>2, <1>3, <1>4, PutsTyped DEF ScreenReady
<1>6. LineReady
  <2>1. <<>> \in Seq(Letters) /\ Len(<<>>) = 0
    OBVIOUS
  <2>2. 0 <= SHELL_MAX_INPUT_LENGTH - 1
    BY ShellAssumption DEF ShellAssumption
  <2> QED BY <1>1, <2>1, <2>2 DEF LineReady, CommandLines
<1>7. HistoryReady
  <2>1. history \in Seq(EntriesOf({})) /\ entered \in Seq(CommandLines)
    BY <1>1
  <2>2. Len(history) = 0 /\ Len(entered) = 0
    BY <1>1
  <2>3. 0 < SHELL_HISTORY_SIZE /\ 1 .. 0 = {}
    BY ShellAssumption DEF ShellAssumption
  <2>4. Aligned(history, entered)
    BY <2>2, <2>3 DEF Aligned
  <2> QED BY <2>1, <2>4, RecentIs DEF HistoryReady
<1>8. LineShown
  <2>1. SubSeq(<<>>, 1, 0) = <<>>
    BY SubSeqEmpty
  <2>2. Place(screen) \in Nat
    BY <1>5, PlaceNumbers DEF ScreenReady
  <2>3. <<>> \in Seq(Glyphs) /\ Len(<<>>) = 0 /\ 1 .. 0 = {}
    OBVIOUS
  <2>4. Shows(screen, <<>>)
    BY <2>2, <2>3 DEF Shows
  <2> QED BY <1>1, <2>1, <2>4 DEF LineShown
<1> QED BY <1>5, <1>6, <1>7, <1>8 DEF ShellInv

LEMMA ShellKeeps == ShellInv /\ [ShellNext]_shell_vars => ShellInv'
<1>1. ShellInv /\ UNCHANGED shell_vars => ShellInv'
  BY DEF ShellInv, ScreenReady, LineReady, HistoryReady, LineShown, Editing, EntryIds, shell_vars
<1> QED BY <1>1, InsertKeeps, DeleteKeeps, IgnoredKeeps, RightKeeps, LeftKeeps, HistoryKeysKeep,
           EnterKeeps, HelpKeeps DEF ShellNext

LEMMA ShellInvFollows == ShellInv => ShellFollows
<1> SUFFICES ASSUME ShellInv PROVE ShellFollows
  OBVIOUS
<1>1. CursorOnScreen
  BY PlaceIs DEF ShellInv, ScreenReady, CursorOnScreen, vga_bounds_check
<1>2. ASSUME Editing
      PROVE  /\ cursor_pos <= Len(input_buffer)
             /\ Suffix(Before(screen), cursor_pos) = SubSeq(input_buffer, 1, cursor_pos)
  <2>1. PICK p : p = SubSeq(input_buffer, 1, cursor_pos)
    OBVIOUS
  <2>2. PICK k \in Nat, n \in Nat : k = cursor_pos /\ n = Place(screen)
    BY <1>2, LineParts, PlaceNumbers
  <2>3. /\ p \in Seq(Letters) /\ Len(p) = k /\ screen \in Screens /\ Shows(screen, p)
        /\ cursor_pos <= Len(input_buffer)
    BY <1>2, <2>1, <2>2, LineParts
  <2>4. /\ p \in Seq(Glyphs) /\ k <= n
        /\ \A i \in 1 .. k : At(screen, n - k + i - 1) = p[i]
    BY <2>2, <2>3 DEF Shows
  <2>5. PICK all : all = Before(screen)
    OBVIOUS
  <2>6. /\ all \in Seq(Glyphs) /\ Len(all) = n
        /\ \A i \in 1 .. n : all[i] = At(screen, i - 1)
    BY <2>2, <2>3, <2>5, BeforeIs
  <2>7. k \in 0 .. Len(all)
    BY <2>2, <2>4, <2>6
  <2>8. PICK end : end = Suffix(all, k)
    OBVIOUS
  <2>9. /\ end \in Seq(Glyphs) /\ Len(end) = k
        /\ \A i \in 1 .. k : end[i] = all[Len(all) - k + i]
    BY <2>6, <2>7, <2>8, SuffixIs
  <2>10. ASSUME NEW i \in 1 .. k PROVE end[i] = p[i]
    <3>1. n - k + i \in 1 .. n
      BY <2>2, <2>4
    <3>2. end[i] = all[n - k + i]
      BY <2>6, <2>9
    <3> QED BY <2>4, <2>6, <3>1, <3>2
  <2>11. end = p
    BY <2>3, <2>4, <2>9, <2>10, SameText
  <2> QED BY <2>1, <2>2, <2>3, <2>5, <2>8, <2>11
<1>3. HistoryIsRecent
  BY DEF ShellInv, HistoryReady, Recent, HistoryIsRecent, LineShown, EntryIds
<1> QED BY <1>1, <1>2, <1>3 DEF ShellFollows, ScreenShowsPrefix

\* Whatever is typed, deleted, fetched from the history, printed or scrolled away: in front of the
\* cursor stands the line up to the place of the next character, the cursor is on the screen, and
\* the history is the end of what was entered, for lines that fit in front of the last row and
\* any size of screen and history (shell.c:326-536, vga.c:118-165).
THEOREM ShellAlwaysFollows == ShellSpec => []ShellFollows
BY ShellStarts, ShellKeeps, ShellInvFollows, PTL DEF ShellSpec
=============================================================================
