----------------------------- MODULE MCFirmware -----------------------------
\* The commands of the host for the instances of Firmware.
EXTENDS Firmware

Packet(name, blocks, bytes) ==
    [name |-> name, blocks |-> blocks,
     data |-> [i \in 0 .. DATA_SIZE - 1 |-> IF i < Len(bytes) THEN bytes[i + 1] ELSE 0]]

\* the data field of a memory command for n bytes at address a of target t
Memory(t, a, n, bytes) ==
    <<0, 0, 0, 0, 0, n, 0, 0, 0, a, 0, t, 0, 0, 0, 0, 0, 0, 0, 0, 0, 0, 0, 0>> \o bytes

Named(name, fields) == {Packet(name, f[1], f[2]) : f \in fields}

RegisterCalls ==
    Named("LMS7002_WR", {<<0, <<>>>>, <<2, <<0, 0, 1, 2, 0, 1, 3, 4>>>>,
                         <<2, <<0, 1, 5, 6, 0, 1, 7, 8>>>>, <<8, <<0, 0, 9, 9>>>>})
    \cup Named("LMS7002_RD", {<<2, <<0, 1, 0, 0>>>>, <<8, <<>>>>})
    \cup Named("BRDSPI16_WR", {<<1, <<128, 1, 1, 2>>>>,
                               <<2, <<0, 196, 3, 4, 0, 0, 5, 6>>>>})
    \cup Named("BRDSPI16_RD", {<<3, <<128, 0, 0, 196, 0, 194>>>>})
    \cup Named("LMS_RST", {<<1, <<k>>>> : k \in 0 .. 3})

TcxoCalls ==
    Named("ADF4002_WR", {<<0, <<>>>>, <<2, <<31, 128, 242, 0, 1, 1>>>>,
                         <<2, <<31, 128, 243, 31, 129, 242>>>>, <<10, <<>>>>})
    \cup Named("ANALOG_VAL_WR", {<<1, <<0, 0, 0, 90>>>>, <<2, <<0, 0, 0, 9, 0, 0, 0, 255>>>>,
                                 <<2, <<0, 0, 0, 7, 1, 0, 0, 8>>>>, <<8, <<>>>>})
    \cup Named("ANALOG_VAL_RD", {<<3, <<0, 1, 2>>>>, <<2, <<1, 0>>>>})

I2cCalls ==
    Named("SI5351_WR", {<<2, <<0, 4, 1, 5>>>>, <<2, <<1, 6, 1, 7>>>>, <<15, <<>>>>})
    \cup Named("SI5351_RD", {<<2, <<1, 0>>>>})
    \cup Named("MEMORY_WR", {<<1, Memory(3, 1, 2, <<70, 0>>)>>,
                             <<1, Memory(3, 2, 3, <<255, 80, 90>>)>>,
                             <<1, Memory(3, 1, 0, <<60>>)>>,
                             <<1, Memory(3, 1, 2, <<255, 255>>)>>,
                             <<1, Memory(1, 1, 1, <<50>>)>>})
    \cup Named("MEMORY_RD", {<<1, Memory(3, 0, 4, <<>>)>>, <<1, Memory(3, 2, 0, <<>>)>>,
                             <<1, Memory(0, 0, 1, <<>>)>>})

OtherCalls ==
    Named("GPIO_DIR_WR", {<<0, <<11, 12>>>>}) \cup Named("GPIO_WR", {<<0, <<13, 14>>>>})
    \cup Named("GPIO_DIR_RD", {<<0, <<>>>>}) \cup Named("GPIO_RD", {<<0, <<>>>>})
    \cup Named("GET_INFO", {<<0, <<>>>>}) \cup Named("UNKNOWN", {<<0, <<>>>>})

MCCalls == RegisterCalls \cup TcxoCalls \cup I2cCalls \cup OtherCalls

MCTemperatures == {-256, -51, -1, 0, 77, 255}
=============================================================================
