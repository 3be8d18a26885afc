------------------------------ MODULE StdTable ------------------------------
(***************************************************************************)
(* The standard functions and procedures: what add_std_functions declares, *)
(* and the instructions that create_std_function_prefix emits before the   *)
(* arguments and create_std_function_code after them, letter by letter as  *)
(* the source has them.  The names are in lower case, as both compare them.*)
(*                                                                         *)
(* A type of the virtual machine is "I" (int, also for boolean and char),  *)
(* "J" (long) or the last part of the name of a class.                     *)
(***************************************************************************)
EXTENDS Integers, Sequences, TLC

(* Instructions.  Constants are in their shortest form, which only matters *)
(* where a branch goes over one.                                           *)

New(c) == [op |-> "new", class |-> c]
Dup    == [op |-> "dup"]
DupX1  == [op |-> "dup_x1"]
Swap   == [op |-> "swap"]
Pop    == [op |-> "pop"]
Pop2   == [op |-> "pop2"]

Const(t, v) == [op |-> "const", type |-> t, value |-> <<v>>]
Num(v)      == Const("I", v)
Null        == Const("null", "null")

Get(c, f, t) == [op |-> "get", field |-> <<c, f>>, type |-> t]
Put(c, f, t) == [op |-> "put", field |-> <<c, f>>, type |-> t]

Call(kind, c, m, params, result) ==
    [op |-> kind, class |-> c, method |-> m, params |-> params, result |-> result]

Static(c, m, params, result)  == Call("static", c, m, params, result)
Virtual(c, m, params, result) == Call("virtual", c, m, params, result)
Construct(c, params)          == Call("special", c, "<init>", params, "V")

\* An instruction that only computes: iand, i2l, instanceof...
Compute(m, params, result) ==
    [op |-> "compute", method |-> m, params |-> params, result |-> result]

\* A branch that pops `params', by an offset from itself.
If(m, params, offset) == [op |-> "if", method |-> m, params |-> params, by |-> offset]
Goto(offset)          == [op |-> "goto", params |-> <<>>, by |-> offset]

Size(i) ==
    CASE i.op \in {"dup", "dup_x1", "swap", "pop", "pop2"} -> 1
      [] i.op = "const" -> IF i.type = "String" THEN 3 ELSE 1
      [] i.op = "compute" -> IF i.method = "instanceof" THEN 3 ELSE 1
      [] OTHER -> 3
-----------------------------------------------------------------------------
(* The declarations, by signature.                                         *)

Declare(params, result, names) == [n \in names |-> [params |-> params, result |-> result]]
Integers(n) == [k \in 1..n |-> "integer"]

DeclaredMath ==
    Declare(<<"real">>, "real",
        {"sqrt", "sin", "cos", "atan", "log", "exp", "asin", "acos", "tan",
         "todegrees", "toradians", "frac", "log10", "rabs"}) @@
    Declare(<<"real", "real">>, "real", {"atan2", "pow"}) @@
    Declare(<<"real">>, "integer", {"trunc"}) @@
    Declare(<<"string", "integer">>, "real", {"stringtoreal"}) @@
    Declare(<<"integer">>, "integer",
        {"sqr", "abs", "random", "getday", "getmonth", "getyear", "getsecond",
         "getminute", "gethour", "getweekday", "getyearday", "keytoaction"}) @@
    Declare(<<"integer">>, "boolean", {"odd"}) @@
    Declare(<<"integer">>, "char", {"chr"}) @@
    Declare(<<"char">>, "integer", {"ord"}) @@
    Declare(<<>>, "void", {"halt", "randomize"}) @@
    Declare(<<>>, "boolean", {"ismidletpaused"}) @@
    Declare(<<"string">>, "string", {"upcase", "locase", "getproperty"}) @@
    Declare(<<"string">>, "integer", {"length", "stringtointeger"}) @@
    Declare(<<"string", "integer", "integer">>, "string", {"copy"}) @@
    Declare(<<"string", "string">>, "integer", {"pos"}) @@
    Declare(<<"integer">>, "string", {"integertostring"}) @@
    Declare(<<"string", "integer">>, "char", {"getchar"}) @@
    Declare(<<"string", "char", "integer">>, "string", {"setchar"}) @@
    Declare(<<"integer">>, "void", {"delay"}) @@
    Declare(<<>>, "integer",
        {"getrelativetimems", "getcurrenttime", "getkeypressed", "getkeyclicked"}) @@
    Declare(Integers(3), "void", {"playtone"})

DeclaredDrawing ==
    Declare(<<"string">>, "image", {"loadimage"}) @@
    Declare(<<"image">>, "integer", {"getimagewidth", "getimageheight"}) @@
    Declare(<<"image">> \o Integers(4), "image", {"imagefromimage"}) @@
    Declare(Integers(4), "image", {"imagefromcanvas"}) @@
    Declare(<<"string", "integer">>, "image", {"imagefrombuffer"}) @@
    Declare(<<>>, "void", {"repaint", "setdefaultfont"}) @@
    Declare(<<>>, "integer",
        {"getwidth", "getheight", "getcolorsnum", "getcolorred", "getcolorgreen",
         "getcolorblue"}) @@
    Declare(<<>>, "boolean", {"iscolordisplay"}) @@
    Declare(<<"string", "integer", "integer">>, "void", {"drawtext"}) @@
    Declare(Integers(4), "void",
        {"setclip", "drawline", "drawellipse", "fillellipse", "drawrect", "fillrect"}) @@
    Declare(Integers(3), "void", {"setcolor", "setfont"}) @@
    Declare(Integers(6), "void", {"drawarc", "drawroundrect", "fillroundrect"}) @@
    Declare(Integers(2), "void", {"plot"}) @@
    Declare(<<"image", "integer", "integer">>, "void", {"drawimage"}) @@
    Declare(<<"string">>, "integer", {"getstringwidth", "getstringheight"}) @@
    Declare(<<"string">>, "void", {"debug"}) @@
    Declare(<<"boolean">>, "void", {"assert"})

DeclaredForms ==
    Declare(<<"string", "integer", "integer">>, "command", {"createcommand"}) @@
    Declare(<<>>, "command", {"getclickedcommand", "emptycommand"}) @@
    Declare(<<"command">>, "void", {"addcommand", "removecommand"}) @@
    Declare(<<>>, "void",
        {"showform", "showcanvas", "clearform", "removeformtitle", "playalertsound"}) @@
    Declare(<<"string">>, "void", {"setticker", "setformtitle"}) @@
    Declare(<<"integer">>, "void", {"formremove"}) @@
    Declare(<<"string">>, "integer", {"formaddstring", "menuappendstring"}) @@
    Declare(<<>>, "integer", {"formaddspace", "menugetselectedindex"}) @@
    Declare(<<"image">>, "integer", {"formaddimage"}) @@
    Declare(<<"string", "string", "integer", "integer">>, "integer", {"formaddtextfield"}) @@
    Declare(<<"string", "boolean", "integer", "integer">>, "integer", {"formaddgauge"}) @@
    Declare(<<"string", "integer">>, "integer", {"formadddatefield", "formaddchoice"}) @@
    Declare(Integers(2), "void", {"formsetdate", "formsetvalue"}) @@
    Declare(<<"integer">>, "integer",
        {"formgetdate", "formgetvalue", "choicegetselectedindex"}) @@
    Declare(<<"integer">>, "string", {"formgettext"}) @@
    Declare(<<"integer", "string">>, "void", {"formsettext"}) @@
    Declare(<<"integer", "string">>, "integer", {"choiceappendstring"}) @@
    Declare(<<"integer", "string", "image">>, "integer", {"choiceappendstringimage"}) @@
    Declare(Integers(2), "boolean", {"choiceisselected"}) @@
    Declare(<<>>, "string", {"getformtitle", "gettextboxstring"}) @@
    Declare(<<"string", "string", "integer", "integer">>, "void", {"showtextbox"}) @@
    Declare(<<"string", "string", "image", "alert">>, "void", {"showalert"}) @@
    Declare(<<>>, "alert",
        {"alert_info", "alert_warning", "alert_error", "alert_alarm",
         "alert_confirmation"}) @@
    Declare(<<"string", "integer">>, "void", {"showmenu"}) @@
    Declare(<<"string", "image">>, "integer", {"menuappendstringimage"}) @@
    Declare(<<"integer">>, "boolean", {"menuisselected"})

DeclaredStores ==
    Declare(<<"string">>, "recordstore", {"openrecordstore"}) @@
    Declare(<<"recordstore">>, "void", {"closerecordstore"}) @@
    Declare(<<"string">>, "void", {"deleterecordstore"}) @@
    Declare(<<"recordstore", "integer">>, "void", {"deleterecordstoreentry"}) @@
    Declare(<<"recordstore", "string">>, "integer", {"addrecordstoreentry"}) @@
    Declare(<<"recordstore", "integer">>, "string", {"readrecordstoreentry"}) @@
    Declare(<<"recordstore">>, "integer", {"getrecordstoresize", "getrecordstorenextid"}) @@
    Declare(<<"recordstore", "string", "integer">>, "void", {"modifyrecordstoreentry"}) @@
    Declare(<<"http", "string">>, "boolean", {"openhttp"}) @@
    Declare(<<"http">>, "boolean", {"ishttpopen"}) @@
    Declare(<<"http">>, "void", {"closehttp"}) @@
    Declare(<<"http", "string", "string">>, "void", {"addhttpheader"}) @@
    Declare(<<"http", "string">>, "void", {"sethttpmethod", "addhttpbody"}) @@
    Declare(<<"http">>, "integer", {"sendhttpmessage"}) @@
    Declare(<<"http", "string">>, "string", {"gethttpheader"}) @@
    Declare(<<"http">>, "string", {"gethttpresponse"}) @@
    Declare(<<"string">>, "resource", {"openresource"}) @@
    Declare(<<"resource">>, "void", {"closeresource"}) @@
    Declare(<<"resource">>, "integer", {"readbyte"}) @@
    Declare(<<"resource">>, "string", {"readline"}) @@
    Declare(<<"resource">>, "boolean", {"resourceavailable"}) @@
    Declare(<<"string", "string">>, "boolean", {"openplayer", "smsstartsend"}) @@
    Declare(<<>>, "boolean", {"startplayer", "smsissending", "smswassuccessfull"}) @@
    Declare(<<>>, "void", {"stopplayer"}) @@
    Declare(<<"integer">>, "boolean", {"setplayercount"}) @@
    Declare(<<>>, "integer", {"getplayerduration"})

Declared == DeclaredMath @@ DeclaredDrawing @@ DeclaredForms @@ DeclaredStores
-----------------------------------------------------------------------------
(* What comes before the arguments.                                        *)

TheGraphics == Get("M", "G", "Graphics")
TheDisplay  == << Get("FW", "fw", "FW"), Static("Display", "getDisplay", <<"MIDlet">>, "Display") >>

GraphicsRoutines ==
    {"drawtext", "drawline", "setcolor", "drawellipse", "fillellipse", "drawrect",
     "fillrect", "drawarc", "plot", "getcolorred", "getcolorblue", "getcolorgreen",
     "drawroundrect", "fillroundrect", "setfont", "setdefaultfont", "drawimage",
     "getstringheight", "setclip"}

TimeRoutines ==
    {"getsecond", "getminute", "gethour", "getday", "getmonth", "getyear",
     "getweekday", "getyearday"}

Prefix(n, fixed) ==
    CASE n \in GraphicsRoutines -> <<TheGraphics>>
      [] n \in {"getwidth", "getheight"} -> << Get("M", "I", "Image") >>
      [] n \in TimeRoutines ->
            << Static("Calendar", "getInstance", <<>>, "Calendar"), Dup, New("Date"), Dup >>
      [] n = "createcommand" -> << New("Command"), Dup >>
      [] n \in {"vibrate", "iscolordisplay", "getcolorsnum"} -> TheDisplay
      [] n = "showtextbox" -> << New("TextBox"), Dup >>
      [] n = "showalert"   -> << New("Alert"), Dup >>
      [] n = "showmenu"    -> << New("List"), Dup >>
      [] n \in {"menuappendstring", "menuappendstringimage", "menuisselected",
                "menugetselectedindex"} -> << Get("FW", "L", "List") >>
      [] n = "stringtoreal" /\ ~fixed -> << New("Real"), Dup >>
      [] OTHER -> <<>>
-----------------------------------------------------------------------------
(* What comes after them, with the helper classes the routine announces.   *)

Ints(n) == [k \in 1..n |-> "I"]
Strings(n) == [k \in 1..n |-> "String"]

Plain(code)    == [uses |-> {}, code |-> code]
With(h, code)  == [uses |-> {h}, code |-> code]
Helper(h, m, params, result) == With(h, << Static(h, m, params, result) >>)

\* new C; dup_x1; swap; invokespecial: a C made of what is on the stack
Made(c, t) == << New(c), DupX1, Swap, Construct(c, <<t>>) >>
CopyOfReal == Made("Real", "Real")

\* A mutant of OfReal: the variable itself is changed.
OfRealInPlace(fixed, f, m) ==
    With("Float", IF fixed THEN << Static("F", f, <<"I">>, "I") >>
                  ELSE << Dup, Virtual("Real", m, <<>>, "V") >>)

\* A function of one real: a method of F on a fixed-point number, or one of
\* Real that changes a copy of the object.
OfReal(fixed, f, m) ==
    With("Float", IF fixed THEN << Static("F", f, <<"I">>, "I") >>
                  ELSE CopyOfReal \o << Dup, Virtual("Real", m, <<>>, "V") >>)

\* A mutant of OfTwoReals: the copies stay in the order they are made in.
OfTwoRealsCrossed(fixed, f, m) ==
    With("Float", IF fixed THEN << Static("F", f, Ints(2), "I") >>
                  ELSE CopyOfReal \o <<Swap>> \o CopyOfReal \o
                       << Swap, DupX1, Swap, Virtual("Real", m, <<"Real">>, "V") >>)

\* One of two reals: both are copied, and the first is changed.
OfTwoReals(fixed, f, m) ==
    With("Float", IF fixed THEN << Static("F", f, Ints(2), "I") >>
                  ELSE CopyOfReal \o <<Swap>> \o CopyOfReal \o
                       << DupX1, Swap, Virtual("Real", m, <<"Real">>, "V") >>)

Draw(m, params) == Plain(<< Virtual("Graphics", m, params, "V") >>)

\* A mutant of TrueIsMinusOne: the jump ends inside the goto.
TrueIsMinusOneShort == << If("ifeq", <<"I">>, 6), Num(-1), Goto(4), Num(0) >>

\* isColor and isSelected answer 1 for true, and a boolean that is true is -1.
TrueIsMinusOne == << If("ifeq", <<"I">>, 7), Num(-1), Goto(4), Num(0) >>

AddCommand == Virtual("Displayable", "addCommand", <<"Command">>, "V")
SetListener(c) == Virtual(c, "setCommandListener", <<"CommandListener">>, "V")
SetCurrent     == Virtual("Display", "setCurrent", <<"Displayable">>, "V")
PutCurrent     == Put("FW", "CD", "Displayable")

\* A mutant of Show: the screen is not stored in FW.CD.
ShowKept(d) == TheDisplay \o << d, SetCurrent, d >>

\* Display.getDisplay(FW.fw).setCurrent(d); FW.CD = d
Show(d) == TheDisplay \o << d, SetCurrent, d, PutCurrent >>

LetterA(fixed, canvas) ==
    [ addhttpbody |-> With("H", << Virtual("H", "o", <<"String">>, "I"), Pop >>),
      addcommand  |->
        LET current == Get("FW", "CD", "Displayable")
        IN Plain(IF canvas = "FULL_NOKIA"
                 THEN << current, Dup, Compute("instanceof", <<"Object">>, "I"),
                         If("ifne", <<"I">>, 10), Swap, AddCommand, Goto(4), Pop2 >>
                 ELSE << current, Swap, AddCommand >>),
      addrecordstoreentry |-> Helper("RS", "L", <<"RecordStore", "String">>, "I"),
      assert |-> Plain(<< If("ifne", <<"I">>, 12), Get("System", "out", "PrintStream"),
                          Const("String", "Assertion failed"),
                          Virtual("PrintStream", "println", <<"String">>, "V") >>),
      abs    |-> Plain(<< Static("Math", "abs", <<"I">>, "I") >>),
      atan   |-> OfReal(fixed, "atan", "atan"),
      atan2  |-> OfTwoReals(fixed, "atan2", "atan2"),
      asin   |-> OfReal(fixed, "AS", "asin"),
      acos   |-> OfReal(fixed, "AC", "acos"),
      addhttpheader |-> With("H", << Virtual("H", "L", Strings(2), "V") >>) ]

Alerts ==
    LET alert(f) == Plain(<< Get("AlertType", f, "AlertType") >>)
    IN [ alert_alarm |-> alert("ALARM"), alert_confirmation |-> alert("CONFIRMATION"),
         alert_error |-> alert("ERROR"), alert_info |-> alert("INFO"),
         alert_warning |-> alert("WARNING") ]

LetterC(fixed) ==
    [ closeresource |-> Helper("S", "r", <<"InputStream">>, "V"),
      createcommand |-> Plain(<< Construct("Command", <<"String", "I", "I">>) >>),
      cos  |-> OfReal(fixed, "C", "cos"),
      chr  |-> Plain(<<>>),
      copy |-> Plain(<< Virtual("String", "substring", Ints(2), "String") >>),
      clearform |-> Plain(
        << New("Form"), Dup, New("String"), Dup, Construct("String", <<>>),
           Construct("Form", <<"String">>), Dup, Put("FW", "F", "Form"),
           Get("FW", "fw", "FW"), SetListener("Displayable") >>
        \o Show(Get("FW", "F", "Form"))),
      choiceappendstring      |-> Helper("FS", "I", <<"I", "String">>, "I"),
      choiceappendstringimage |-> Helper("FS", "I", <<"I", "String", "Image">>, "I"),
      choiceisselected        |-> Helper("FS", "L", Ints(2), "I"),
      choicegetselectedindex  |-> Helper("FS", "L", <<"I">>, "I"),
      closerecordstore        |-> Helper("RS", "L", <<"RecordStore">>, "V"),
      closehttp |-> With("H", << Virtual("H", "c", <<>>, "V") >>) ]

LetterD ==
    [ deleterecordstore      |-> Helper("RS", "L", <<"String">>, "V"),
      deleterecordstoreentry |-> Helper("RS", "L", <<"RecordStore", "I">>, "V"),
      debug |-> Plain(<< Get("System", "out", "PrintStream"), Swap,
                         Virtual("PrintStream", "println", <<"String">>, "V") >>),
      delay |-> Plain(<< Compute("i2l", <<"I">>, "J"),
                         Static("Thread", "sleep", <<"J">>, "V") >>),
      drawtext |-> Plain(<< Num(20), Virtual("Graphics", "drawString",
                                             <<"String">> \o Ints(3), "V") >>),
      drawline |-> Draw("drawLine", Ints(4)),
      drawellipse |-> Plain(<< Num(0), Num(360),
                               Virtual("Graphics", "drawArc", Ints(6), "V") >>),
      drawarc  |-> Draw("drawArc", Ints(6)),
      drawrect |-> Draw("drawRect", Ints(4)),
      drawroundrect |-> Draw("drawRoundRect", Ints(6)),
      drawimage |-> Plain(<< Num(20), Virtual("Graphics", "drawImage",
                                              <<"Image">> \o Ints(3), "V") >>) ]

LettersEF(fixed) ==
    [ emptycommand |-> Plain(<<Null>>),
      exp  |-> OfReal(fixed, "e", "exp"),
      frac |-> IF fixed
               THEN With("Float", << Num(4095), Compute("iand", Ints(2), "I") >>)
               ELSE OfReal(fixed, "", "frac"),
      fillellipse |-> Plain(<< Num(0), Num(360),
                               Virtual("Graphics", "fillArc", Ints(6), "V") >>),
      fillrect      |-> Draw("fillRect", Ints(4)),
      fillroundrect |-> Draw("fillRoundRect", Ints(6)) ]

LetterForm ==
    LET form == Get("FW", "F", "Form")
        append(t) == Virtual("Form", "append", <<t>>, "I")
    IN [ formaddstring    |-> Plain(<< form, Swap, append("String") >>),
         formaddimage     |-> Plain(<< form, Swap, append("Image") >>),
         formadddatefield |-> Helper("FS", "dd", <<"String", "I">>, "I"),
         formsetdate      |-> Helper("FS", "dd", Ints(2), "V"),
         formgetdate      |-> Helper("FS", "dd", <<"I">>, "I"),
         formaddspace     |-> Plain(<< form, New("Spacer"), Dup, Num(10), Dup,
                                       Construct("Spacer", Ints(2)), append("Item") >>),
         formaddtextfield |-> Helper("FS", "Lj", Strings(2) \o Ints(2), "I"),
         formaddgauge     |-> Helper("FS", "Lj", <<"String">> \o Ints(3), "I"),
         formremove       |-> Plain(<< form, Swap, Virtual("Form", "delete", <<"I">>, "V") >>),
         formaddchoice    |-> Helper("FS", "Lj", <<"String", "I">>, "I"),
         formgetvalue     |-> Helper("FS", "Lja", <<"I">>, "I"),
         formsetvalue     |-> Helper("FS", "Lja", Ints(2), "V"),
         formgettext      |-> Helper("FS", "ja", <<"I">>, "String"),
         formsettext      |-> Helper("FS", "ja", <<"I", "String">>, "V") ]

LetterGet ==
    LET now == Static("System", "currentTimeMillis", <<>>, "J")
        second == << Num(1000), Compute("i2l", <<"I">>, "J") >>
    IN [ getformtitle |-> Helper("FS", "gft", <<>>, "String"),
         getrecordstorenextid |-> Helper("RS", "Lja", <<"RecordStore">>, "I"),
         getplayerduration    |-> Helper("P", "c", <<>>, "I"),
         getchar              |-> Helper("S", "gc", <<"String", "I">>, "I"),
         getrecordstoresize   |-> Helper("RS", "j", <<"RecordStore">>, "I"),
         getclickedcommand    |-> Plain(<< Get("FW", "LC", "Command"), Null,
                                           Put("FW", "LC", "Command") >>),
         gettextboxstring |-> Plain(<< Get("FW", "TB", "TextBox"),
                                       Virtual("TextBox", "getString", <<>>, "String") >>),
         getrelativetimems |-> Plain(<< now, Compute("l2i", <<"J">>, "I") >>),
         getcurrenttime |-> Plain(<<now>> \o second \o
             << Compute("ldiv", <<"J", "J">>, "J"), Compute("l2i", <<"J">>, "I") >>) ]

\* The field of a Calendar that is set to a time in seconds: the stack is
\* Calendar, Calendar, Date, Date, time.
FieldOfTime(field) ==
    << Compute("i2l", <<"I">>, "J"), Num(1000), Compute("i2l", <<"I">>, "J"),
       Compute("lmul", <<"J", "J">>, "J"), Construct("Date", <<"J">>),
       Virtual("Calendar", "setTime", <<"Date">>, "V"), Num(field),
       Virtual("Calendar", "get", <<"I">>, "I") >>

GetDate ==
    [ getday     |-> Plain(FieldOfTime(5)),
      getweekday |-> Plain(FieldOfTime(7)),
      getyearday |-> Plain(FieldOfTime(6)),
      getmonth   |-> Plain(FieldOfTime(2) \o << Num(0), Compute("iadd", Ints(2), "I") >>) ]

GetTime ==
    [ getyear   |-> Plain(FieldOfTime(1)),
      getsecond |-> Plain(FieldOfTime(13)),
      getminute |-> Plain(FieldOfTime(12)),
      gethour   |-> Plain(FieldOfTime(11)) ]

GetGraphics ==
    LET font == Virtual("Graphics", "getFont", <<>>, "Font")
        component(m) == Plain(<< Virtual("Graphics", m, <<>>, "I") >>)
        size(m) == Plain(<< Virtual("Image", m, <<>>, "I") >>)
    IN [ getkeypressed |-> Plain(<< Get("M", "KP", "I") >>),
         getkeyclicked |-> Plain(<< Get("M", "KC", "I"), Num(0), Put("M", "KC", "I") >>),
         getcolorred   |-> component("getRedComponent"),
         getcolorgreen |-> component("getGreenComponent"),
         getcolorblue  |-> component("getBlueComponent"),
         getwidth      |-> size("getWidth"),
         getheight     |-> size("getHeight"),
         getimagewidth  |-> size("getWidth"),
         getimageheight |-> size("getHeight"),
         getstringheight |-> Plain(<< Pop, font, Virtual("Font", "getHeight", <<>>, "I") >>),
         getstringwidth  |-> Plain(<< TheGraphics, font, Swap,
                                      Virtual("Font", "stringWidth", <<"String">>, "I") >>) ]

LettersGHI ==
    [ getproperty |-> Plain(
        << Static("System", "getProperty", <<"String">>, "String"), Dup,
           If("ifnonnull", <<"Object">>, 11), Pop, New("String"), Dup,
           Construct("String", <<>>) >>),
      getcolorsnum  |-> Plain(<< Virtual("Display", "numColors", <<>>, "I") >>),
      gethttpheader |-> With("H", << Virtual("H", "i", <<"String">>, "String") >>),
      gethttpresponse |-> With("H", << Virtual("H", "j", <<>>, "String") >>),
      halt |-> Plain(
        << Get("FW", "fw", "FW"), Num(1), Virtual("FW", "destroyApp", <<"I">>, "V"),
           Static("Thread", "currentThread", <<>>, "Thread"),
           Virtual("Thread", "join", <<>>, "V"), Num(1000), Compute("i2l", <<"I">>, "J"),
           Static("Thread", "sleep", <<"J">>, "V") >>),
      imagefromimage  |-> Helper("S", "ii", <<"Image">> \o Ints(4), "Image"),
      imagefromcanvas |-> Helper("S", "ii", Ints(4), "Image"),
      imagefrombuffer |-> Helper("S", "ii", <<"String", "I">>, "Image"),
      integertostring |-> Plain(
        << New("StringBuffer"), Dup, Construct("StringBuffer", <<>>), Swap,
           Virtual("StringBuffer", "append", <<"I">>, "StringBuffer"),
           Virtual("StringBuffer", "toString", <<>>, "String") >>),
      ismidletpaused |-> Plain(<< Get("FW", "MP", "I") >>),
      ishttpopen     |-> Plain(<< Virtual("H", "L", <<>>, "I") >>),
      iscolordisplay |-> Plain(<< Virtual("Display", "isColor", <<>>, "I") >> \o TrueIsMinusOne) ]

LettersKL(fixed) ==
    [ keytoaction |-> Plain(
        << Dup, If("ifeq", <<"I">>, 13), Get("M", "T", "M"), Swap,
           Virtual("M", "getGameAction", <<"I">>, "I"), Goto(5), Pop, Num(0) >>),
      log    |-> OfReal(fixed, "log", "ln"),
      log10  |-> OfReal(fixed, "log10", "log10"),
      length |-> Plain(<< Virtual("String", "length", <<>>, "I") >>),
      locase |-> Plain(Made("String", "String") \o
                       << Virtual("String", "toLowerCase", <<>>, "String") >>),
      loadimage |-> Plain(<< Static("Image", "createImage", <<"String">>, "Image") >>) ]

LettersMO ==
    LET append == Virtual("List", "append", <<"String", "Image">>, "I")
    IN [ modifyrecordstoreentry |-> Helper("RS", "L", <<"RecordStore", "String", "I">>, "V"),
         menuappendstring       |-> Plain(<< Null, append >>),
         menuappendstringimage  |-> Plain(<<append>>),
         menuisselected |-> Plain(<< Virtual("List", "isSelected", <<"I">>, "I") >>
                                  \o TrueIsMinusOne),
         menugetselectedindex |-> Plain(<< Virtual("List", "getSelectedIndex", <<>>, "I") >>),
         openplayer   |-> Helper("P", "a", Strings(2), "I"),
         openresource |-> Helper("S", "r", <<"String">>, "InputStream"),
         ord          |-> Plain(<<>>),
         openhttp     |-> With("H", << Virtual("H", "L", <<"String">>, "I") >>),
         odd |-> Plain(<< Num(1), Compute("iand", Ints(2), "I"), Num(-1),
                          Compute("imul", Ints(2), "I") >>),
         openrecordstore |-> Helper("RS", "j", <<"String">>, "RecordStore") ]

LetterP(fixed) ==
    [ playtone |-> Plain(<< Static("Manager", "playTone", Ints(3), "V") >>),
      playalertsound |-> Plain(
        << Get("FW", "A", "Alert"), Virtual("Alert", "getType", <<>>, "AlertType") >>
        \o TheDisplay \o << Virtual("AlertType", "playSound", <<"Display">>, "I"), Pop >>),
      pow  |-> OfTwoReals(fixed, "p", "pow"),
      pos  |-> Plain(<< Virtual("String", "indexOf", <<"String">>, "I") >>),
      plot |-> Plain(<< Num(1), Dup, Virtual("Graphics", "fillRect", Ints(4), "V") >>) ]

LetterR(fixed) ==
    LET generator == Get("M", "RNG", "Random")
    IN [ removeformtitle |-> Plain(<< Get("FW", "F", "Form"), Null,
                                      Virtual("Form", "setTitle", <<"String">>, "V") >>),
         resourceavailable |-> Plain(<< Null, If("if_acmpeq", <<"Object", "Object">>, 7),
                                        Num(-1), Goto(4), Num(0) >>),
         readbyte |-> Plain(<< Static("S", "rb", <<"InputStream">>, "I") >>),
         readline |-> Plain(<< Static("S", "nl", <<"InputStream">>, "String") >>),
         readrecordstoreentry |-> Helper("RS", "j", <<"RecordStore", "I">>, "String"),
         round |-> Plain(<< Static("Math", "round", <<"float">>, "I") >>),
         rabs  |-> OfReal(fixed, "A", "abs"),
         randomize |-> Plain(<< New("Random"), Dup, Construct("Random", <<>>),
                                Put("M", "RNG", "Random") >>),
         random |-> Plain(<< generator, Virtual("Random", "nextInt", <<>>, "I"), Num(-1),
                             Num(1), Compute("iushr", Ints(2), "I"),
                             Compute("iand", Ints(2), "I"), Swap,
                             Compute("irem", Ints(2), "I") >>),
         removecommand |-> Plain(<< Get("FW", "CD", "Displayable"), Swap,
                                    Virtual("Displayable", "removeCommand", <<"Command">>, "V") >>),
         repaint |-> Plain(<< Get("M", "T", "M"), Dup, Virtual("M", "repaint", <<>>, "V"),
                              Virtual("M", "serviceRepaints", <<>>, "V") >>) ]

LetterSet ==
    [ setformtitle |-> Plain(<< Get("FW", "F", "Form"), Swap,
                                Virtual("Form", "setTitle", <<"String">>, "V") >>),
      setclip      |-> Draw("setClip", Ints(4)),
      smsstartsend      |-> Helper("SM", "send", Strings(2), "I"),
      smsissending      |-> Helper("SM", "IS", <<>>, "I"),
      smswassuccessfull |-> Helper("SM", "GS", <<>>, "I"),
      startplayer    |-> Helper("P", "a", <<>>, "I"),
      stopplayer     |-> Helper("P", "b", <<>>, "V"),
      setplayercount |-> Helper("P", "a", <<"I">>, "I"),
      setchar |-> Helper("S", "gc", <<"String", "I", "I">>, "String"),
      sqr     |-> Plain(<< Dup, Compute("imul", Ints(2), "I") >>),
      setticker |-> Plain(Made("Ticker", "String") \o
                          << Get("FW", "F", "Form"), Swap,
                             Virtual("Form", "setTicker", <<"Ticker">>, "V") >>) ]

LetterS(fixed) ==
    LET setFont == Virtual("Graphics", "setFont", <<"Font">>, "V")
    IN [ stringtointeger |-> Helper("S", "parseInt", <<"String">>, "I"),
         stringtoreal |-> With("Float",
             << IF fixed THEN Static("F", "fI", <<"String", "I">>, "I")
                         ELSE Construct("Real", <<"String", "I">>) >>),
         sqrt |-> OfReal(fixed, "S", "sqrt"),
         sin  |-> OfReal(fixed, "s", "sin"),
         setcolor |-> Draw("setColor", Ints(3)),
         setfont  |-> Plain(<< Static("Font", "getFont", Ints(3), "Font"), setFont >>),
         setdefaultfont |-> Plain(<< Static("Font", "getDefaultFont", <<>>, "Font"), setFont >>),
         sethttpmethod   |-> With("H", << Virtual("H", "c", <<"String">>, "V") >>),
         sendhttpmessage |-> With("H", << Virtual("H", "o", <<>>, "I") >>) ]

ShowCanvas ==
    [ showform   |-> Plain(Show(Get("FW", "F", "Form"))),
      showcanvas |-> Plain(Show(Get("M", "T", "M"))) ]

\* A screen is made of the arguments, kept in a field of FW and shown, and
\* FW listens to its commands.
ShowScreen(c, f, params, listens) ==
    Plain(<< Construct(c, params), Put("FW", f, c) >> \o Show(Get("FW", f, c)) \o
          << Get("FW", f, c), Get("FW", "fw", "FW"), SetListener(listens) >>)

ShowScreens ==
    [ showtextbox |-> ShowScreen("TextBox", "TB", Strings(2) \o Ints(2), "Displayable"),
      showmenu    |-> ShowScreen("List", "L", <<"String", "I">>, "Displayable"),
      showalert   |-> ShowScreen("Alert", "A", Strings(2) \o <<"Image", "AlertType">>, "Alert") ]

LettersTUV(fixed) ==
    LET scaled(first, second) ==
            CopyOfReal \o
            << Dup, Dup, Num(180), Virtual("Real", first, <<"I">>, "V"),
               Get("Real", "PI", "Real"), Virtual("Real", second, <<"Real">>, "V") >>
        angle(f, first, second) ==
            With("Float", IF fixed THEN << Static("F", f, <<"I">>, "I") >>
                                   ELSE scaled(first, second))
    IN [ trunc |-> IF fixed THEN OfReal(fixed, "tI", "trunc")
                   ELSE With("Float", OfReal(fixed, "tI", "trunc").code \o
                                      << Virtual("Real", "toInteger", <<>>, "I") >>),
         tan   |-> OfReal(fixed, "tan", "tan"),
         todegrees |-> angle("tD", "mul", "div"),
         toradians |-> angle("tR", "div", "mul"),
         upcase  |-> Plain(Made("String", "String") \o
                           << Virtual("String", "toUpperCase", <<>>, "String") >>),
         vibrate |-> Plain(<< Virtual("Display", "vibrate", <<"I">>, "I"), Pop >>) ]

\* create_std_function_code: the chains of all letters are tried in turn.
Emitted(fixed, canvas) ==
    LetterA(fixed, canvas) @@ Alerts @@ LetterC(fixed) @@ LetterD @@ LettersEF(fixed) @@ LetterForm
    @@ LetterGet @@ GetDate @@ GetTime @@ GetGraphics @@ LettersGHI @@ LettersKL(fixed)
    @@ LettersMO @@ LetterP(fixed) @@ LetterR(fixed) @@ LetterSet @@ LetterS(fixed)
    @@ ShowCanvas @@ ShowScreens @@ LettersTUV(fixed)
=============================================================================
