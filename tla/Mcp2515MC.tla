------------------------------- MODULE Mcp2515MC -------------------------------
\* Settings for begin() in Mcp2515: CAN_25KBPS = 4 works at 16 MHz and is not in
\* the table for 8 MHz.
EXTENDS Mcp2515

ListedSettings == {<<15, "8MHz">>, <<4, "16MHz">>, <<4, "8MHz">>}
=============================================================================
