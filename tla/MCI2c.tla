------------------------------- MODULE MCI2c -------------------------------
(* The transfers the drivers make: ap3216c.c uses one register byte and one *)
(* data byte, gt9147.c two register bytes and one, two or four data bytes.  *)
(* Nobody asks for no data at all, which i2c_master_transfer provides for.  *)
EXTENDS I2c

AP3216C_ADDR == 30
GT9147_ADDR == 20

ap3216c(dir) ==
  [slave_addr |-> AP3216C_ADDR, dir |-> dir, reg_addr |-> 10, reg_addr_len |-> 1, data_len |-> 1]
gt9147(dir, n) ==
  [slave_addr |-> GT9147_ADDR, dir |-> dir, reg_addr |-> 33102, reg_addr_len |-> 2, data_len |-> n]

const_Transfers ==
  {ap3216c(I2C_WRITE), ap3216c(I2C_READ), gt9147(I2C_WRITE, 1), gt9147(I2C_WRITE, 2),
   gt9147(I2C_READ, 1), gt9147(I2C_READ, 4), gt9147(I2C_WRITE, 0), gt9147(I2C_READ, 0),
   [gt9147(I2C_READ, 0) EXCEPT !.reg_addr_len = 0]}
=============================================================================
