----------------------------- MODULE MCHostLink -----------------------------
EXTENDS HostLink

CONSTANTS b1, b2, p1

MCMaxFrames == <<3, 1>>
MCCap == [debug |-> 3, console |-> 2, touch |-> 1, button |-> 1, control |-> 1, other |-> 1, noise |-> 1]

Frame(ch, len, what) == [ch |-> ch, len |-> len, what |-> what]
Touch(action, finger) == [action |-> action, finger |-> finger, at |-> p1]
Key(id, pressed) == [id |-> id, pressed |-> pressed]

ConsoleTraffic == {Frame("console", 2, "c1"), Frame("console", 1, "c2"), Frame("console", 3, "long"),
                   Frame("other", 0, "none")}
DebugTraffic == {Frame("debug", 0, "poll"), Frame("debug", 3, "d1"), Frame("debug", 1, "d2"), Frame("debug", 4, "long")}
InputTraffic == {Frame("touch", 1, <<Touch("down", 0)>>), Frame("touch", 1, <<Touch("down", 1), Touch("move", 2), Touch("move", 1)>>),
                 Frame("touch", 1, <<Touch("up", 0)>>),
                 Frame("button", 1, Key(1, TRUE)), Frame("button", 1, Key(1, FALSE))}
KeyTraffic == {Frame("button", 1, Key(id, TRUE)) : id \in {1, 6}} \cup {Frame("button", 1, Key(1, FALSE))}
ShortTraffic == {Frame("touch", 1, <<Touch("down", 1)>>), Frame("control", 1, "ack"), Frame("console", 2, "c1")}

SsdDriver ==
  {<<"sw_reset", << >> >>, <<"refresh", << >> >>, <<"entry", <<FirmwareEntry>> >>,
   <<"entry", <<[FirmwareEntry EXCEPT !.yFirst = FALSE]>> >>, <<"x_window", <<0, 1>> >>, <<"y_window", <<1, 0>> >>,
   <<"y_window", <<1>> >>, <<"x_counter", <<0>> >>, <<"y_counter", <<1>> >>,
   <<"ram", <<"ink", "ink">> >>, <<"ram_other", <<"ink">> >>, <<"fill", <<"white">> >>}
UcDriver ==
  {<<"power_on", << >> >>, <<"refresh", << >> >>, <<"auto", <<"auto">> >>, <<"auto", <<"other">> >>, <<"auto", << >> >>,
   <<"setting", <<"value">> >>, <<"ram", <<"ink", "ink", "white">> >>, <<"ram_other", <<"ink">> >>,
   <<"lut", <<"byte">> >>}

Image(p, symbols, traffic, driver) ==
  [panel |-> p, symbols |-> symbols, traffic |-> traffic, driver |-> driver, direct |-> FALSE, object |-> None,
   polls |-> "never"]
Polling(polls) == [Image("ssd1677", {"buttons"}, KeyTraffic, {}) EXCEPT !.polls = polls]
LoadStoreFirmwares == {Polling("load_store")}
MCFirmwares ==
  {Polling("swap"), Polling("load_store"),
   Image("ssd1677", {"console"}, ConsoleTraffic, {}), Image("ssd1677", {"debug"}, DebugTraffic, {}),
   Image("ssd1677", {"touch", "buttons"}, InputTraffic, {}), Image("uc8253c", {"touch"}, ShortTraffic, {}),
   Image("ssd1677", {"display"}, {}, SsdDriver),
   [Image("ssd1677", {"display"}, {}, {}) EXCEPT !.object = b1],
   [Image("ssd1677", {"display"}, ShortTraffic, {}) EXCEPT !.direct = TRUE, !.object = b2],
   Image("uc8253c", {"display"}, {}, UcDriver)}

Inked == [c \in Cells |-> IF c[1] = 0 THEN "ink" ELSE "white"]
MCPictures == (b1 :> Blank) @@ (b2 :> Inked)

=============================================================================
